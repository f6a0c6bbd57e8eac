-------------------------- MODULE TicketSyncProofs --------------------------
(***************************************************************************)
(* Proofs about TicketSync, for any tickets, goroutines, read budget and   *)
(* number of events, whatever people do to the tickets and whatever fails. *)
(***************************************************************************)
EXTENDS TicketSync, FiniteSetTheorems, TLAPS

-----------------------------------------------------------------------------
(* What each step does to the goroutine that takes it.                     *)
LEMMA PlainTypes ==
  /\ NewRef \in Ref /\ Unfiled \in Action /\ NoSnap \in [Tickets -> Action] /\ Idle \in Proc
  /\ \A t \in Tickets : NoSnap[t] = Unfiled
  /\ Unfiled.ver = "none" /\ Unfiled.verAt = 0 /\ Unfiled.ref = NewRef
  /\ NewRef.synced = 0 /\ ~NewRef.resolved /\ ~NewRef.csp
<1>1. 0 \in Time
  BY TicketAssumption DEF Time
<1>2. NewRef \in Ref
  BY <1>1 DEF NewRef, Ref, Outcomes
<1>3. Unfiled \in Action
  BY <1>1, <1>2 DEF Unfiled, Action, Verdicts
<1>4. NoSnap \in [Tickets -> Action]
  BY <1>3 DEF NoSnap
<1>5. Idle \in Proc
  BY <1>1, <1>3, <1>4 DEF Idle, Proc
<1> QED BY <1>2, <1>3, <1>4, <1>5 DEF NoSnap, Unfiled, NewRef

LEMMA CopyTypes ==
  ASSUME TypeOK, NEW p \in Procs, NEW t \in Tickets
  PROVE  proc[p] \in Proc /\ proc[p].snap[t] \in Action /\ proc[p].fresh \in Action /\ acts[t] \in Action
<1>1. proc[p] \in Proc /\ acts[t] \in Action
  BY DEF TypeOK
<1> QED BY <1>1 DEF Proc

LEMMA JudgedIs ==
  ASSUME NEW a \in Action, NEW r \in Scan, clock' \in Time
  PROVE  /\ Judged(a, r) \in Action /\ Judged(a, r).ref = a.ref
         /\ Judged(a, r) # a => /\ Judged(a, r).verAt = clock' /\ a.filed
                                /\ Judged(a, r).ver = "still_present" => r = "present"
<1> DEFINE v == CASE r = "present" -> "still_present"
                  [] r = "absent" -> "fixed"
                  [] r = "unconfirmed" -> "rescan_unconfirmed"
                  [] OTHER -> "still_exploitable"
<1>1. v \in Verdicts /\ (v = "still_present" => r = "present")
  BY TicketAssumption DEF Verdicts
<1>2. Judged(a, r) = IF a.filed /\ (r = "exploited" \/ a.ver \notin {"fixed", v}) THEN Verified(a, v) ELSE a
  BY DEF Judged
<1> HIDE DEF v
<1>3. Verified(a, v) \in Action /\ Verified(a, v).ref = a.ref /\ Verified(a, v).verAt = clock' /\ Verified(a, v).ver = v
  BY <1>1 DEF Verified, Action
<1> QED BY <1>1, <1>2, <1>3

LEMMA RetestListIs ==
  ASSUME TypeOK, \A t \in Tickets : tracker[t].done => t \in closed, NEW p \in Procs, RetestList(p)
  PROVE  /\ p \in Passes /\ proc[p].pc = "idle" /\ clock' = clock + 1 /\ clock' \in Time
         /\ proc' \in [Procs -> Proc] /\ \A q \in Procs \ {p} : proc'[q] = proc[q]
         /\ proc'[p].pc = (IF proc'[p].todo = {} THEN "sync" ELSE "retest")
         /\ proc'[p].got = {} /\ proc'[p].held = {} /\ proc'[p].now = 0
         /\ \A t \in proc'[p].todo :
              /\ proc'[p].snap[t].ref = acts[t].ref /\ proc'[p].snap[t].verAt = clock'
              /\ (proc'[p].snap[t].ver = "still_present" /\ t \in closed => t \in relapsed')
         /\ \A t \in Tickets \ proc'[p].todo : proc'[p].snap[t] = Unfiled
         /\ relapsed \subseteq relapsed' /\ relapsed' \subseteq closed
         /\ standing' \subseteq relapsed'
<1>1. clock' = clock + 1 /\ clock' \in Time /\ p \in Passes /\ proc[p].pc = "idle"
  BY TicketAssumption DEF RetestList, Tick, TypeOK, Time
<1> DEFINE judged(covered, r) == [t \in Tickets |-> IF t \in covered THEN Judged(acts[t], r[t]) ELSE acts[t]]
           changed(covered, r) == {t \in Tickets : judged(covered, r)[t] # acts[t]}
           record(covered, r) == [Idle EXCEPT !.pc = IF changed(covered, r) = {} THEN "sync" ELSE "retest",
                                              !.snap = Copies(judged(covered, r), changed(covered, r)),
                                              !.todo = changed(covered, r)]
<1>2. PICK covered \in SUBSET {t \in Tickets : acts[t].filed} : \E r \in [covered -> Scan] :
        /\ proc' = [proc EXCEPT ![p] = record(covered, r)]
        /\ relapsed' = relapsed \cup {t \in closed \cap covered : r[t] = "present"}
        /\ standing' = (standing \ covered) \cup {t \in covered : tracker[t].done /\ r[t] = "present"}
  BY DEF RetestList
<1>3. PICK r \in [covered -> Scan] :
        /\ proc' = [proc EXCEPT ![p] = record(covered, r)]
        /\ relapsed' = relapsed \cup {t \in closed \cap covered : r[t] = "present"}
        /\ standing' = (standing \ covered) \cup {t \in covered : tracker[t].done /\ r[t] = "present"}
  BY <1>2
<1> DEFINE j == judged(covered, r)
           todo == changed(covered, r)
<1>4. ASSUME NEW t \in Tickets
      PROVE  /\ j[t] \in Action /\ j[t].ref = acts[t].ref
             /\ t \in todo => j[t].verAt = clock' /\ (j[t].ver = "still_present" => t \in covered /\ r[t] = "present")
  <2>1. acts[t] \in Action
    BY DEF TypeOK
  <2>2. CASE t \in covered
    <3>1. r[t] \in Scan /\ j[t] = Judged(acts[t], r[t])
      BY <2>2
    <3> HIDE DEF j
    <3>2. t \in todo => j[t] # acts[t]
      BY DEF j
    <3> HIDE DEF todo
    <3> QED BY <1>1, <2>1, <2>2, <3>1, <3>2, JudgedIs
  <2>3. CASE t \notin covered
    BY <2>1, <2>3
  <2> QED BY <2>2, <2>3
<1>5. todo \subseteq Tickets /\ (\A t \in todo : j[t] # acts[t]) /\ j = [t \in Tickets |-> j[t]]
  OBVIOUS
<1> HIDE DEF j, todo
<1>6. Copies(j, todo) \in [Tickets -> Action]
      /\ \A t \in Tickets : Copies(j, todo)[t] = IF t \in todo THEN j[t] ELSE Unfiled
  BY <1>4, PlainTypes DEF Copies
<1> DEFINE k1 == [Idle EXCEPT !.pc = IF todo = {} THEN "sync" ELSE "retest"]
           k2 == [k1 EXCEPT !.snap = Copies(j, todo)]
           k == [k2 EXCEPT !.todo = todo]
<1>7. k1 \in Proc /\ k1.pc = (IF todo = {} THEN "sync" ELSE "retest") /\ k1.got = {} /\ k1.held = {} /\ k1.now = 0
  BY PlainTypes DEF Proc, Idle
<1> HIDE DEF k1
<1>8. k2 \in Proc /\ k2.pc = k1.pc /\ k2.got = {} /\ k2.held = {} /\ k2.now = 0 /\ k2.snap = Copies(j, todo)
  BY <1>6, <1>7 DEF Proc
<1> HIDE DEF k2
<1>9. k \in Proc /\ k.pc = k1.pc /\ k.got = {} /\ k.held = {} /\ k.now = 0 /\ k.snap = Copies(j, todo) /\ k.todo = todo
  BY <1>5, <1>8 DEF Proc
<1>10. proc' = [proc EXCEPT ![p] = k]
  BY <1>3 DEF k, k1, k2, j, todo
<1> HIDE DEF k
<1>11. proc' \in [Procs -> Proc] /\ proc'[p] = k /\ \A q \in Procs \ {p} : proc'[q] = proc[q]
  BY <1>9, <1>10 DEF TypeOK
<1>12. \A t \in todo :
         /\ proc'[p].snap[t].ref = acts[t].ref /\ proc'[p].snap[t].verAt = clock'
         /\ (proc'[p].snap[t].ver = "still_present" /\ t \in closed => t \in relapsed')
  <2>1. relapsed' = relapsed \cup {x \in closed \cap covered : r[x] = "present"}
    BY <1>3
  <2>2. \A t \in todo : proc'[p].snap[t] = j[t]
    BY <1>5, <1>6, <1>9, <1>11
  <2>3. \A t \in todo : j[t].ref = acts[t].ref /\ j[t].verAt = clock'
    BY <1>4, <1>5
  <2>4. \A t \in todo : j[t].ver = "still_present" /\ t \in closed => t \in relapsed'
    BY <1>4, <1>5, <2>1
  <2> QED BY <2>2, <2>3, <2>4
<1>13. \A t \in Tickets \ todo : proc'[p].snap[t] = Unfiled
  BY <1>6, <1>9, <1>11
<1>14. relapsed \subseteq relapsed' /\ relapsed' \subseteq closed /\ standing' \subseteq relapsed'
  BY <1>3 DEF TypeOK
<1> QED BY <1>1, <1>7, <1>9, <1>11, <1>12, <1>13, <1>14

LEMMA RetestPutIs ==
  ASSUME TypeOK, NEW p \in Procs, NEW t \in Tickets, RetestPut(p, t)
  PROVE  /\ proc[p].pc = "retest" /\ t \in proc[p].todo
         /\ proc' \in [Procs -> Proc] /\ \A q \in Procs \ {p} : proc'[q] = proc[q]
         /\ \/ proc'[p] = [Idle EXCEPT !.pc = "sync"]
            \/ /\ proc'[p].pc = "retest" /\ proc'[p].todo = proc[p].todo \ {t} /\ proc'[p].got = proc[p].got
               /\ proc'[p].held = proc[p].held /\ proc'[p].snap = proc[p].snap /\ proc'[p].now = proc[p].now
<1> DEFINE todo == proc[p].todo \ {t}
<1>1. proc[p].pc = "retest" /\ t \in proc[p].todo /\ proc[p] \in Proc /\ proc \in [Procs -> Proc]
  BY DEF RetestPut, TypeOK
<1>2. proc' = [proc EXCEPT ![p] = IF todo = {} THEN [Idle EXCEPT !.pc = "sync"] ELSE [proc[p] EXCEPT !.todo = todo]]
  BY <1>1 DEF RetestPut
<1>3. [Idle EXCEPT !.pc = "sync"] \in Proc
  BY PlainTypes DEF Proc
<1> DEFINE k == [proc[p] EXCEPT !.todo = todo]
<1>4. /\ k \in Proc /\ k.pc = proc[p].pc /\ k.todo = todo /\ k.got = proc[p].got
      /\ k.held = proc[p].held /\ k.snap = proc[p].snap /\ k.now = proc[p].now
  BY <1>1 DEF Proc
<1> HIDE DEF k
<1>5. proc' = [proc EXCEPT ![p] = IF todo = {} THEN [Idle EXCEPT !.pc = "sync"] ELSE k]
  BY <1>2 DEF k
<1> HIDE DEF todo
<1>6. proc' \in [Procs -> Proc] /\ proc'[p] \in {[Idle EXCEPT !.pc = "sync"], k}
      /\ \A q \in Procs \ {p} : proc'[q] = proc[q]
  BY <1>1, <1>3, <1>4, <1>5
<1> QED BY <1>1, <1>4, <1>6 DEF todo

LEMMA SyncListIs ==
  ASSUME TypeOK, NEW p \in Procs, SyncList(p)
  PROVE  /\ proc[p].pc \in {"idle", "sync"} /\ clock' = clock + 1 /\ clock' \in Time
         /\ proc' \in [Procs -> Proc] /\ \A q \in Procs \ {p} : proc'[q] = proc[q]
         /\ Selected(acts, proc'[p].todo)
         /\ waits' = [t \in Tickets |-> IF Serial /\ t \in Due(acts) \ proc'[p].todo THEN waits[t] + 1 ELSE 0]
         /\ \/ proc'[p] = Idle
            \/ /\ proc'[p].pc = "read" /\ proc'[p].todo # {} /\ proc'[p].got = {} /\ proc'[p].held = {}
               /\ proc'[p].now = clock' /\ proc'[p].todo \subseteq Tickets
               /\ \A t \in Tickets : proc'[p].snap[t] = IF t \in proc'[p].todo THEN acts[t] ELSE Unfiled
<1>1. proc[p].pc \in {"idle", "sync"} /\ clock' = clock + 1 /\ clock' \in Time
  BY TicketAssumption DEF SyncList, Tick, TypeOK, Time
<1> DEFINE record(batch) == [Idle EXCEPT !.pc = "read", !.snap = Copies(acts, batch), !.todo = batch, !.now = clock']
<1>2. PICK batch \in SUBSET Tickets :
        /\ Selected(acts, batch)
        /\ proc' = [proc EXCEPT ![p] = IF batch = {} THEN Idle ELSE record(batch)]
        /\ waits' = [t \in Tickets |-> IF Serial /\ t \in Due(acts) \ batch THEN waits[t] + 1 ELSE 0]
  BY DEF SyncList
<1>3. Copies(acts, batch) \in [Tickets -> Action]
      /\ \A t \in Tickets : Copies(acts, batch)[t] = IF t \in batch THEN acts[t] ELSE Unfiled
  BY PlainTypes DEF Copies, TypeOK
<1> DEFINE k1 == [Idle EXCEPT !.pc = "read"]
           k2 == [k1 EXCEPT !.snap = Copies(acts, batch)]
           k3 == [k2 EXCEPT !.todo = batch]
           k == [k3 EXCEPT !.now = clock']
<1>4. k1 \in Proc /\ k1.pc = "read" /\ k1.got = {} /\ k1.held = {}
  BY PlainTypes DEF Proc, Idle
<1> HIDE DEF k1
<1>5. k2 \in Proc /\ k2.pc = "read" /\ k2.got = {} /\ k2.held = {} /\ k2.snap = Copies(acts, batch)
  BY <1>3, <1>4 DEF Proc
<1> HIDE DEF k2
<1>6. k3 \in Proc /\ k3.pc = "read" /\ k3.got = {} /\ k3.held = {} /\ k3.snap = Copies(acts, batch) /\ k3.todo = batch
  BY <1>5 DEF Proc
<1> HIDE DEF k3
<1>7. /\ k \in Proc /\ k.pc = "read" /\ k.got = {} /\ k.held = {} /\ k.snap = Copies(acts, batch) /\ k.todo = batch
      /\ k.now = clock'
  BY <1>1, <1>6 DEF Proc
<1>8. record(batch) = k
  BY DEF k, k1, k2, k3
<1> HIDE DEF k, record
<1>9. proc' \in [Procs -> Proc] /\ (\A q \in Procs \ {p} : proc'[q] = proc[q])
      /\ proc'[p] = IF batch = {} THEN Idle ELSE k
  BY <1>2, <1>7, <1>8, PlainTypes DEF TypeOK
<1>10. proc'[p].todo = batch
  BY <1>7, <1>9 DEF Idle
<1> QED BY <1>1, <1>2, <1>3, <1>7, <1>9, <1>10

LEMMA HandledIs ==
  ASSUME TypeOK, NEW p \in Procs, NEW t \in Tickets, NEW ref \in Ref, proc[p].pc = "read", Handled(p, t, ref)
  PROVE  /\ proc' \in [Procs -> Proc] /\ \A q \in Procs \ {p} : proc'[q] = proc[q]
         /\ proc'[p].todo = proc[p].todo \ {t} /\ proc'[p].got = proc[p].got \cup {t}
         /\ proc'[p].held = proc[p].held /\ proc'[p].now = proc[p].now
         /\ proc'[p].pc = (IF proc'[p].todo = {} THEN "persist" ELSE "read")
         /\ proc'[p].snap[t].ref = ref
         /\ proc'[p].snap[t].ver = proc[p].snap[t].ver /\ proc'[p].snap[t].verAt = proc[p].snap[t].verAt
         /\ \A u \in Tickets \ {t} : proc'[p].snap[u] = proc[p].snap[u]
<1>1. proc \in [Procs -> Proc] /\ proc[p] \in Proc /\ proc[p].snap \in [Tickets -> Action] /\ proc[p].snap[t] \in Action
  BY DEF TypeOK, Proc
<1> DEFINE todo == proc[p].todo \ {t}
           a == [proc[p].snap[t] EXCEPT !.ref = ref]
           s == [proc[p].snap EXCEPT ![t] = a]
           k1 == [proc[p] EXCEPT !.snap = s]
           k2 == [k1 EXCEPT !.todo = todo]
           k3 == [k2 EXCEPT !.got = proc[p].got \cup {t}]
           k == [k3 EXCEPT !.pc = IF todo = {} THEN "persist" ELSE "read"]
<1>2. a \in Action /\ a.ref = ref /\ a.ver = proc[p].snap[t].ver /\ a.verAt = proc[p].snap[t].verAt
  BY <1>1 DEF Action
<1>3. s \in [Tickets -> Action] /\ s[t] = a /\ \A u \in Tickets \ {t} : s[u] = proc[p].snap[u]
  BY <1>1, <1>2
<1>4. todo \subseteq Tickets /\ proc[p].got \cup {t} \subseteq Tickets
  BY <1>1 DEF Proc
<1>5. /\ k1 \in Proc /\ k1.snap = s /\ k1.pc = "read" /\ k1.held = proc[p].held /\ k1.now = proc[p].now
  BY <1>1, <1>3 DEF Proc
<1> HIDE DEF a, s
<1>6. k2 \in Proc /\ k2.snap = s /\ k2.pc = "read" /\ k2.held = proc[p].held /\ k2.now = proc[p].now /\ k2.todo = todo
  <2> HIDE DEF k1, todo
  <2> QED BY <1>4, <1>5 DEF Proc
<1>7. /\ k3 \in Proc /\ k3.snap = s /\ k3.pc = "read" /\ k3.held = proc[p].held /\ k3.now = proc[p].now /\ k3.todo = todo
      /\ k3.got = proc[p].got \cup {t}
  <2> HIDE DEF k2, todo
  <2> QED BY <1>4, <1>6 DEF Proc
<1>8. /\ k \in Proc /\ k.snap = s /\ k.held = proc[p].held /\ k.now = proc[p].now /\ k.todo = todo
      /\ k.got = proc[p].got \cup {t} /\ k.pc = (IF todo = {} THEN "persist" ELSE "read")
  <2> HIDE DEF k3, todo
  <2> QED BY <1>7 DEF Proc
<1>9. proc' = [proc EXCEPT ![p] = k]
  <2>1. proc' = [proc EXCEPT ![p].snap[t].ref = ref, ![p].todo = todo, ![p].got = @ \cup {t},
                             ![p].pc = IF todo = {} THEN "persist" ELSE @]
    BY DEF Handled
  <2>2. \A q \in Procs : proc'[q] = IF q = p THEN k ELSE proc[q]
    <3>1. \A q \in Procs \ {p} : proc'[q] = proc[q]
      BY <1>1, <2>1
    <3>2. proc'[p] = k
      BY <1>1, <2>1 DEF k, k1, k2, k3, a, s
    <3> QED BY <3>1, <3>2
  <2> QED BY <1>1, <2>1, <2>2
<1> HIDE DEF k
<1>10. proc' \in [Procs -> Proc] /\ proc'[p] = k /\ \A q \in Procs \ {p} : proc'[q] = proc[q]
  BY <1>1, <1>8, <1>9
<1> QED BY <1>2, <1>3, <1>8, <1>10

LEMMA PersistGetIs ==
  ASSUME TypeOK, NEW p \in Procs, NEW t \in Tickets, PersistGet(p, t)
  PROVE  /\ proc[p].pc = "persist" /\ t \in proc[p].got
         /\ proc' \in [Procs -> Proc] /\ \A q \in Procs \ {p} : proc'[q] = proc[q]
         /\ proc'[p].pc = "persist" /\ proc'[p].todo = proc[p].todo /\ proc'[p].got = proc[p].got
         /\ proc'[p].snap = proc[p].snap /\ proc'[p].now = proc[p].now
         /\ proc'[p].held = {t} /\ proc'[p].fresh = acts[t]
<1>1. proc \in [Procs -> Proc] /\ proc[p] \in Proc /\ acts[t] \in Action
  BY DEF TypeOK
<1> DEFINE k1 == [proc[p] EXCEPT !.held = {t}]
           k == [k1 EXCEPT !.fresh = acts[t]]
<1>2. /\ k1 \in Proc /\ k1.pc = proc[p].pc /\ k1.todo = proc[p].todo /\ k1.got = proc[p].got /\ k1.snap = proc[p].snap
      /\ k1.now = proc[p].now /\ k1.held = {t}
  BY <1>1 DEF Proc
<1>3. /\ k \in Proc /\ k.pc = proc[p].pc /\ k.todo = proc[p].todo /\ k.got = proc[p].got /\ k.snap = proc[p].snap
      /\ k.now = proc[p].now /\ k.held = {t} /\ k.fresh = acts[t]
  <2> HIDE DEF k1
  <2> QED BY <1>1, <1>2 DEF Proc
<1>4. proc' = [proc EXCEPT ![p] = k]
  BY <1>1 DEF PersistGet
<1> HIDE DEF k
<1> QED BY <1>1, <1>3, <1>4 DEF PersistGet

LEMMA PersistedIs ==
  ASSUME TypeOK, NEW p \in Procs, NEW t \in Tickets, Persisted(p, t)
  PROVE  /\ proc' \in [Procs -> Proc] /\ \A q \in Procs \ {p} : proc'[q] = proc[q]
         /\ \/ proc'[p] = Idle
            \/ /\ proc'[p].pc = proc[p].pc /\ proc'[p].todo = proc[p].todo /\ proc'[p].got = proc[p].got \ {t}
               /\ proc'[p].now = proc[p].now /\ proc'[p].held = {}
               /\ \A u \in Tickets : proc'[p].snap[u] \in {proc[p].snap[u], Unfiled}
               /\ \A u \in Tickets \ {t} : proc'[p].snap[u] = proc[p].snap[u]
         /\ proc'[p].got = proc[p].got \ {t}
<1> DEFINE got == proc[p].got \ {t}
           s == [proc[p].snap EXCEPT ![t] = Unfiled]
           k1 == [proc[p] EXCEPT !.got = got]
           k2 == [k1 EXCEPT !.held = {}]
           k3 == [k2 EXCEPT !.fresh = Unfiled]
           k == [k3 EXCEPT !.snap = s]
<1>1. proc \in [Procs -> Proc] /\ proc[p] \in Proc /\ proc[p].snap \in [Tickets -> Action] /\ got \subseteq Tickets
  BY DEF TypeOK, Proc
<1>2. /\ s \in [Tickets -> Action] /\ (\A u \in Tickets \ {t} : s[u] = proc[p].snap[u])
      /\ \A u \in Tickets : s[u] \in {proc[p].snap[u], Unfiled}
  BY <1>1, PlainTypes
<1>3. k1 \in Proc /\ k1.pc = proc[p].pc /\ k1.todo = proc[p].todo /\ k1.got = got /\ k1.now = proc[p].now
  BY <1>1 DEF Proc
<1>4. k2 \in Proc /\ k2.pc = proc[p].pc /\ k2.todo = proc[p].todo /\ k2.got = got /\ k2.now = proc[p].now /\ k2.held = {}
  <2> HIDE DEF k1, got
  <2> QED BY <1>3 DEF Proc
<1>5. k3 \in Proc /\ k3.pc = proc[p].pc /\ k3.todo = proc[p].todo /\ k3.got = got /\ k3.now = proc[p].now /\ k3.held = {}
  <2> HIDE DEF k2, got
  <2> QED BY <1>4, PlainTypes DEF Proc
<1>6. /\ k \in Proc /\ k.pc = proc[p].pc /\ k.todo = proc[p].todo /\ k.got = got /\ k.now = proc[p].now /\ k.held = {}
      /\ k.snap = s
  <2> HIDE DEF k3, got, s
  <2> QED BY <1>2, <1>5 DEF Proc
<1>7. proc' = [proc EXCEPT ![p] = IF got = {} THEN Idle ELSE k]
  BY <1>1 DEF Persisted
<1>8. Idle.got = {}
  BY DEF Idle
<1> HIDE DEF k, s
<1>9. proc' \in [Procs -> Proc] /\ (\A q \in Procs \ {p} : proc'[q] = proc[q]) /\ proc'[p] = IF got = {} THEN Idle ELSE k
  BY <1>1, <1>6, <1>7, PlainTypes
<1> QED BY <1>2, <1>6, <1>8, <1>9

LEMMA ObservedIs ==
  ASSUME NEW ref \in Ref, NEW tr \in [done : BOOLEAN, at : Time], NEW now \in Time
  PROVE  /\ Observed(ref, tr, now) \in Ref
         /\ Observed(ref, tr, now).synced = now /\ Observed(ref, tr, now).resolved = tr.done
         /\ tr.done => \/ ref.resolved /\ Observed(ref, tr, now).resolvedAt = ref.resolvedAt
                       \/ tr.at # 0 /\ Observed(ref, tr, now).resolvedAt = tr.at
                       \/ Observed(ref, tr, now).resolvedAt = now
         /\ Observed(ref, tr, now).notified =
              IF ~tr.done /\ ref.resolved /\ ref.notified = "still_present" THEN "none" ELSE ref.notified
<1> DEFINE r == [ref EXCEPT !.synced = now]
<1>1. r \in Ref /\ r.synced = now /\ r.resolved = ref.resolved /\ r.resolvedAt = ref.resolvedAt /\ r.notified = ref.notified
  BY DEF Ref
<1>2. 0 \in Time
  BY TicketAssumption DEF Time
<1>3. CASE tr.done /\ ~ref.resolved
  <2> DEFINE at == IF tr.at = 0 THEN now ELSE tr.at
             r1 == [r EXCEPT !.resolved = TRUE]
             r2 == [r1 EXCEPT !.resolvedAt = at]
  <2>1. Observed(ref, tr, now) = r2
    BY <1>3 DEF Observed
  <2>2. at \in Time
    OBVIOUS
  <2> HIDE DEF r
  <2>3. r1 \in Ref /\ r1.synced = now /\ r1.resolved = TRUE /\ r1.notified = ref.notified
    BY <1>1 DEF Ref
  <2> HIDE DEF r1
  <2>4. r2 \in Ref /\ r2.synced = now /\ r2.resolved = TRUE /\ r2.notified = ref.notified /\ r2.resolvedAt = at
    BY <2>2, <2>3 DEF Ref
  <2> HIDE DEF r2
  <2> QED BY <1>3, <2>1, <2>4
<1>4. CASE ~tr.done /\ ref.resolved
  <2> DEFINE n == IF ref.notified = "still_present" THEN "none" ELSE ref.notified
             r1 == [r EXCEPT !.resolved = FALSE]
             r2 == [r1 EXCEPT !.resolvedAt = 0]
             r3 == [r2 EXCEPT !.csp = FALSE]
             r4 == [r3 EXCEPT !.notified = n]
  <2>1. Observed(ref, tr, now) = r4
    <3>1. Observed(ref, tr, now) = [r EXCEPT !.resolved = FALSE, !.resolvedAt = 0, !.csp = FALSE,
                                             !.notified = IF @ = "still_present" THEN "none" ELSE @]
      BY <1>4 DEF Observed
    <3> HIDE DEF r
    <3> QED BY <1>1, <3>1
  <2>2. n \in Outcomes
    BY DEF Ref, Outcomes
  <2> HIDE DEF r, n
  <2>3. r1 \in Ref /\ r1.synced = now /\ r1.resolved = FALSE
    BY <1>1 DEF Ref
  <2> HIDE DEF r1
  <2>4. r2 \in Ref /\ r2.synced = now /\ r2.resolved = FALSE
    BY <1>2, <2>3 DEF Ref
  <2> HIDE DEF r2
  <2>5. r3 \in Ref /\ r3.synced = now /\ r3.resolved = FALSE
    BY <2>4 DEF Ref
  <2> HIDE DEF r3
  <2>6. r4 \in Ref /\ r4.synced = now /\ r4.resolved = FALSE /\ r4.notified = n
    BY <2>2, <2>5 DEF Ref
  <2> HIDE DEF r4
  <2> QED BY <1>4, <2>1, <2>6 DEF n
<1>5. CASE tr.done = ref.resolved
  <2>1. Observed(ref, tr, now) = r
    BY <1>5 DEF Observed
  <2> HIDE DEF r
  <2> QED BY <1>1, <1>5, <2>1
<1>6. tr.done \in BOOLEAN /\ ref.resolved \in BOOLEAN
  BY DEF Ref
<1> QED BY <1>3, <1>4, <1>5, <1>6

(* What a sync makes of the ticket it read. *)
Viewed(p, t, ref) ==
  /\ ref.synced = proc[p].now /\ ref.resolved = tracker[t].done
  /\ tracker[t].done => \/ proc[p].snap[t].ref.resolved /\ ref.resolvedAt = proc[p].snap[t].ref.resolvedAt
                        \/ tracker[t].at # 0 /\ ref.resolvedAt = tracker[t].at
                        \/ ref.resolvedAt = proc[p].now
  /\ ref.csp => tracker[t].done /\ proc[p].snap[t].ver = "still_present" /\ proc[p].snap[t].verAt >= ref.resolvedAt

(* The last outcome it knows of, before it speaks. *)
Heard(p, t) ==
  LET r == proc[p].snap[t].ref
  IN  IF ~tracker[t].done /\ r.resolved /\ r.notified = "still_present" THEN "none" ELSE r.notified

Spoke(p, t, ref) ==
  \/ ref.notified = Heard(p, t) /\ UNCHANGED <<spoken, repeated, mishaps>>
  \/ mishaps' = mishaps \cup {"comment"} /\ UNCHANGED <<spoken, repeated>>
  \/ \E o \in {"fixed", "still_present"} :
       /\ Heard(p, t) # o /\ (o = "still_present" => tracker[t].done) /\ Posted(t, o)
       /\ \/ ref.notified = o /\ UNCHANGED mishaps
          \/ mishaps' = mishaps \cup {"comment"}

LEMMA ReadIs ==
  ASSUME TypeOK, NEW p \in Procs, NEW t \in Tickets, Read(p, t)
  PROVE  /\ proc[p].pc = "read" /\ t \in proc[p].todo
         /\ \E ref \in Ref : Handled(p, t, ref) /\ Viewed(p, t, ref) /\ Spoke(p, t, ref)
<1> DEFINE a == proc[p].snap[t]
           obs == Observed(a.ref, tracker[t], proc[p].now)
           ref == [obs EXCEPT !.csp = ClosedStillPresent(obs, a)]
           n == Heard(p, t)
           told(o) == [ref EXCEPT !.notified = o]
<1>1. /\ proc[p].pc = "read" /\ t \in proc[p].todo /\ a \in Action /\ a.ref \in Ref
      /\ tracker[t] \in [done : BOOLEAN, at : Time] /\ proc[p].now \in Time
  <2>1. proc[p] \in Proc
    BY DEF TypeOK
  <2>2. a \in Action
    BY <2>1 DEF Proc
  <2> QED BY <2>1, <2>2 DEF Read, TypeOK, Proc, Action
<1>2. /\ obs \in Ref /\ obs.synced = proc[p].now /\ obs.resolved = tracker[t].done /\ obs.notified = n
      /\ tracker[t].done => \/ a.ref.resolved /\ obs.resolvedAt = a.ref.resolvedAt
                            \/ tracker[t].at # 0 /\ obs.resolvedAt = tracker[t].at
                            \/ obs.resolvedAt = proc[p].now
  <2>1. n = IF ~tracker[t].done /\ a.ref.resolved /\ a.ref.notified = "still_present" THEN "none" ELSE a.ref.notified
    BY DEF Heard
  <2> HIDE DEF a, n
  <2> QED BY <1>1, <2>1, ObservedIs
<1> HIDE DEF obs, n, a
<1>3. ClosedStillPresent(obs, a) \in BOOLEAN
  BY <1>1, <1>2 DEF ClosedStillPresent, Ref
<1>4. /\ ref \in Ref /\ ref.synced = obs.synced /\ ref.resolved = obs.resolved /\ ref.resolvedAt = obs.resolvedAt
      /\ ref.notified = n /\ (ref.csp <=> ClosedStillPresent(obs, a))
  BY <1>2, <1>3 DEF Ref
<1>5. /\ IF CommentFor(ref, a) = "none" THEN Handled(p, t, ref) /\ UNCHANGED <<mishaps, spoken, repeated>>
         ELSE Comment(p, t, ref, CommentFor(ref, a))
  BY DEF Read, a, obs, ref
<1> HIDE DEF ref
<1>6. ref.csp => tracker[t].done /\ a.ver = "still_present" /\ a.verAt >= ref.resolvedAt
  BY <1>2, <1>4 DEF ClosedStillPresent
<1>7. ASSUME NEW o \in {"fixed", "still_present"}
      PROVE  /\ told(o) \in Ref /\ told(o).synced = ref.synced /\ told(o).resolved = ref.resolved
             /\ told(o).resolvedAt = ref.resolvedAt /\ told(o).csp = ref.csp /\ told(o).notified = o
  BY <1>4 DEF Ref, Outcomes
<1>8. CommentFor(ref, a) \in {"none", "fixed", "still_present"}
      /\ (CommentFor(ref, a) = "still_present" => ref.csp /\ ref.notified # "still_present")
      /\ (CommentFor(ref, a) = "fixed" => ref.notified # "fixed")
  BY DEF CommentFor
<1>9. Viewed(p, t, ref)
  BY <1>2, <1>4, <1>6 DEF Viewed, a
<1>10. ASSUME NEW o \in {"fixed", "still_present"}
       PROVE  Viewed(p, t, told(o))
  <2> HIDE DEF told
  <2> QED BY <1>7, <1>9 DEF Viewed
<1>11. CASE CommentFor(ref, a) = "none"
  <2>1. Handled(p, t, ref) /\ Spoke(p, t, ref)
    BY <1>4, <1>5, <1>11 DEF Spoke, n
  <2> QED BY <1>1, <1>4, <1>9, <2>1
<1>12. CASE CommentFor(ref, a) # "none"
  <2>1. PICK o \in {"fixed", "still_present"} : CommentFor(ref, a) = o
    BY <1>8, <1>12
  <2>2. n # o /\ (o = "still_present" => tracker[t].done)
    BY <1>4, <1>6, <1>8, <2>1
  <2>3. \/ Handled(p, t, told(o)) /\ Posted(t, o) /\ UNCHANGED mishaps
        \/ Handled(p, t, ref) /\ mishaps' = mishaps \cup {"comment"} /\ (Posted(t, o) \/ UNCHANGED <<spoken, repeated>>)
    BY <1>5, <1>12, <2>1 DEF Comment, Mishap
  <2> HIDE DEF told
  <2>4. CASE Handled(p, t, told(o)) /\ Posted(t, o) /\ UNCHANGED mishaps
    <3>1. Spoke(p, t, told(o))
      BY <1>7, <2>2, <2>4 DEF Spoke, n
    <3> QED BY <1>1, <1>7, <1>10, <2>4, <3>1
  <2>5. CASE Handled(p, t, ref) /\ mishaps' = mishaps \cup {"comment"} /\ (Posted(t, o) \/ UNCHANGED <<spoken, repeated>>)
    <3>1. Spoke(p, t, ref)
      BY <2>2, <2>5 DEF Spoke, n
    <3> QED BY <1>1, <1>4, <1>9, <2>5, <3>1
  <2> QED BY <2>3, <2>4, <2>5
<1> QED BY <1>11, <1>12

-----------------------------------------------------------------------------
(* Types and shapes.                                                       *)

(* What a goroutine holds in each phase; a ticket that is done was closed. *)
Shaped ==
  /\ \A p \in Procs :
       /\ proc[p].pc \in {"idle", "sync"} => proc[p].todo = {} /\ proc[p].got = {} /\ proc[p].held = {}
                                             /\ \A t \in Tickets : proc[p].snap[t] = Unfiled
       /\ proc[p].pc = "retest" => p \in Passes /\ proc[p].got = {} /\ proc[p].held = {}
       /\ proc[p].pc = "read" => proc[p].held = {} /\ proc[p].todo \cap proc[p].got = {}
       /\ proc[p].pc = "persist" => proc[p].todo = {} /\ proc[p].held \subseteq proc[p].got
  /\ \A t \in Tickets : tracker[t].done => t \in closed

(* As long as syncs do not overlap, one goroutine works, and the store     *)
(* still holds the tickets as it listed them.                              *)
Single ==
  "overlap" \notin mishaps =>
    /\ \A p, q \in Procs : proc[p].pc # "idle" /\ proc[q].pc # "idle" => p = q
    /\ \A p \in Procs : proc[p].pc \in {"retest", "read"} =>
         \A t \in proc[p].todo : proc[p].snap[t].ref = acts[t].ref

LEMMA IdleShape ==
  /\ Idle.pc = "idle" /\ Idle.todo = {} /\ Idle.got = {} /\ Idle.held = {} /\ Idle.now = 0
  /\ \A t \in Tickets : Idle.snap[t] = Unfiled
  /\ LET k == [Idle EXCEPT !.pc = "sync"]
     IN  /\ k.pc = "sync" /\ k.todo = {} /\ k.got = {} /\ k.held = {} /\ k.now = 0
         /\ \A t \in Tickets : k.snap[t] = Unfiled
BY DEF Idle, NoSnap

(* The goroutine that moves keeps its shape and its share of the reads. *)
Moved(p) ==
  /\ proc' \in [Procs -> Proc] /\ \A q \in Procs \ {p} : proc'[q] = proc[q]
  /\ proc'[p].pc # "retest" => Cardinality(proc'[p].todo \cup proc'[p].got) <= MaxReads
  /\ proc'[p].pc \in {"idle", "sync"} => proc'[p].todo = {} /\ proc'[p].got = {} /\ proc'[p].held = {}
                                         /\ \A t \in Tickets : proc'[p].snap[t] = Unfiled
  /\ proc'[p].pc = "retest" => p \in Passes /\ proc'[p].got = {} /\ proc'[p].held = {}
  /\ proc'[p].pc = "read" => proc'[p].held = {} /\ proc'[p].todo \cap proc'[p].got = {}
  /\ proc'[p].pc = "persist" => proc'[p].todo = {} /\ proc'[p].held \subseteq proc'[p].got

LEMMA Shares ==
  ASSUME TypeOK, NEW p \in Procs
  PROVE  /\ Cardinality({}) <= MaxReads
         /\ proc[p].todo \subseteq Tickets /\ proc[p].got \subseteq Tickets
         /\ proc[p].pc # "retest" =>
              \A S \in SUBSET (proc[p].todo \cup proc[p].got) : Cardinality(S) <= MaxReads
<1>1. proc[p].todo \subseteq Tickets /\ proc[p].got \subseteq Tickets
  BY DEF TypeOK, Proc
<1>2. IsFiniteSet(proc[p].todo \cup proc[p].got)
  <2>1. proc[p].todo \cup proc[p].got \subseteq Tickets
    BY <1>1
  <2> QED BY <2>1, FS_Subset, TicketAssumption
<1>3. Cardinality({}) <= MaxReads
  BY FS_EmptySet, TicketAssumption
<1>4. ASSUME proc[p].pc # "retest", NEW S \in SUBSET (proc[p].todo \cup proc[p].got)
      PROVE  Cardinality(S) <= MaxReads
  <2>1. Cardinality(S) <= Cardinality(proc[p].todo \cup proc[p].got)
    BY <1>2, FS_Subset
  <2>2. Cardinality(S) \in Nat /\ Cardinality(proc[p].todo \cup proc[p].got) \in Nat
    BY <1>2, FS_Subset, FS_CardinalityType
  <2>3. Cardinality(proc[p].todo \cup proc[p].got) <= MaxReads
    BY <1>4 DEF TypeOK
  <2> QED BY <2>1, <2>2, <2>3, TicketAssumption
<1> QED BY <1>1, <1>3, <1>4

LEMMA StepMoves ==
  ASSUME TypeOK, Shaped, NEW p \in Procs, Steps(p)
  PROVE  Moved(p)
<1>1. CASE RetestList(p)
  <2>1. /\ p \in Passes /\ proc' \in [Procs -> Proc] /\ \A q \in Procs \ {p} : proc'[q] = proc[q]
        /\ proc'[p].pc = (IF proc'[p].todo = {} THEN "sync" ELSE "retest")
        /\ proc'[p].got = {} /\ proc'[p].held = {}
        /\ \A t \in Tickets \ proc'[p].todo : proc'[p].snap[t] = Unfiled
    BY <1>1, RetestListIs DEF Shaped
  <2>2. proc'[p].pc # "retest" => proc'[p].todo \cup proc'[p].got = {}
    BY <2>1
  <2>3. proc'[p].pc # "retest" => Cardinality(proc'[p].todo \cup proc'[p].got) <= MaxReads
    BY <2>2, Shares
  <2> QED BY <2>1, <2>3 DEF Moved
<1>2. CASE SyncList(p)
  <2>1. /\ proc' \in [Procs -> Proc] /\ \A q \in Procs \ {p} : proc'[q] = proc[q]
        /\ Cardinality(proc'[p].todo) <= MaxReads
        /\ \/ proc'[p] = Idle
           \/ proc'[p].pc = "read" /\ proc'[p].got = {} /\ proc'[p].held = {}
    BY <1>2, SyncListIs DEF Selected
  <2>2. proc'[p].todo \cup proc'[p].got = proc'[p].todo
    BY <2>1, IdleShape
  <2> QED BY <2>1, <2>2, IdleShape DEF Moved
<1>3. ASSUME NEW t \in Tickets, RetestPut(p, t)
      PROVE  Moved(p)
  <2>1. /\ proc[p].pc = "retest" /\ proc' \in [Procs -> Proc] /\ \A q \in Procs \ {p} : proc'[q] = proc[q]
        /\ \/ proc'[p] = [Idle EXCEPT !.pc = "sync"]
           \/ proc'[p].pc = "retest" /\ proc'[p].got = proc[p].got /\ proc'[p].held = proc[p].held
    BY <1>3, RetestPutIs
  <2>2. p \in Passes /\ proc[p].got = {} /\ proc[p].held = {}
    BY <2>1 DEF Shaped
  <2>3. {} \cup {} = {}
    OBVIOUS
  <2> QED BY <2>1, <2>2, <2>3, IdleShape, Shares DEF Moved
<1>4. ASSUME NEW t \in Tickets, NEW ref \in Ref, proc[p].pc = "read", t \in proc[p].todo, Handled(p, t, ref)
      PROVE  Moved(p)
  <2>1. /\ proc' \in [Procs -> Proc] /\ \A q \in Procs \ {p} : proc'[q] = proc[q]
        /\ proc'[p].todo = proc[p].todo \ {t} /\ proc'[p].got = proc[p].got \cup {t} /\ proc'[p].held = proc[p].held
        /\ proc'[p].pc = (IF proc'[p].todo = {} THEN "persist" ELSE "read")
    BY <1>4, HandledIs
  <2>2. proc[p].held = {} /\ proc[p].todo \cap proc[p].got = {}
    BY <1>4 DEF Shaped
  <2>3. proc'[p].todo \cup proc'[p].got \in SUBSET (proc[p].todo \cup proc[p].got)
    BY <1>4, <2>1
  <2>4. Cardinality(proc'[p].todo \cup proc'[p].got) <= MaxReads
    BY <1>4, <2>3, Shares
  <2> QED BY <2>1, <2>2, <2>4 DEF Moved
<1>5. ASSUME NEW t \in Tickets, Read(p, t)
      PROVE  Moved(p)
  BY <1>4, <1>5, ReadIs
<1>6. ASSUME NEW t \in Tickets, ReadFails(p, t)
      PROVE  Moved(p)
  <2>1. proc[p].snap[t].ref \in Ref
    BY CopyTypes DEF Action
  <2> QED BY <1>4, <1>6, <2>1 DEF ReadFails
<1>7. ASSUME NEW t \in Tickets, PersistGet(p, t)
      PROVE  Moved(p)
  <2>1. /\ proc[p].pc = "persist" /\ t \in proc[p].got
        /\ proc' \in [Procs -> Proc] /\ \A q \in Procs \ {p} : proc'[q] = proc[q]
        /\ proc'[p].pc = "persist" /\ proc'[p].todo = proc[p].todo /\ proc'[p].got = proc[p].got /\ proc'[p].held = {t}
    BY <1>7, PersistGetIs
  <2>2. Cardinality(proc'[p].todo \cup proc'[p].got) <= MaxReads /\ proc[p].todo = {}
    BY <2>1, Shares DEF Shaped
  <2> QED BY <2>1, <2>2 DEF Moved
<1>8. ASSUME NEW t \in Tickets, proc[p].pc = "persist", Persisted(p, t)
      PROVE  Moved(p)
  <2>1. /\ proc' \in [Procs -> Proc] /\ \A q \in Procs \ {p} : proc'[q] = proc[q]
        /\ \/ proc'[p] = Idle
           \/ proc'[p].pc = "persist" /\ proc'[p].todo = proc[p].todo /\ proc'[p].held = {}
        /\ proc'[p].got = proc[p].got \ {t}
    BY <1>8, PersistedIs
  <2>2. proc[p].todo = {}
    BY <1>8 DEF Shaped
  <2>3. proc'[p].todo \cup proc'[p].got \in SUBSET (proc[p].todo \cup proc[p].got)
    BY <2>1, <2>2, IdleShape
  <2>4. Cardinality(proc'[p].todo \cup proc'[p].got) <= MaxReads
    BY <1>8, <2>3, Shares
  <2> QED BY <2>1, <2>2, <2>4, IdleShape DEF Moved
<1> QED BY <1>1, <1>2, <1>3, <1>5, <1>6, <1>7, <1>8 DEF Steps, PersistPut, PersistFails

(* A goroutine does not touch the tracker; what went wrong stays on record. *)
LEMMA StepLeaves ==
  ASSUME TypeOK, Shaped, NEW p \in Procs, Steps(p)
  PROVE  /\ UNCHANGED <<tracker, closed>> /\ relapsed \subseteq relapsed' /\ relapsed' \subseteq closed
         /\ standing' \subseteq relapsed'
         /\ mishaps \subseteq mishaps' /\ mishaps' \subseteq Faults \cup {"overlap", "torn"}
         /\ clock' \in Time /\ clock <= clock'
<1>1. mishaps \subseteq Faults \cup {"overlap", "torn"} /\ clock \in Time /\ relapsed \subseteq closed /\ standing \subseteq relapsed
      /\ clock <= clock
  BY TicketAssumption DEF TypeOK, Time
<1>2. CASE RetestList(p)
  <2>1. UNCHANGED <<tracker, closed>> /\ mishaps' = mishaps \cup Overlap(p)
    BY <1>2 DEF RetestList, Mishap
  <2>2. Overlap(p) \subseteq {"overlap"}
    BY DEF Overlap
  <2>3. clock' = clock + 1 /\ clock' \in Time /\ relapsed \subseteq relapsed' /\ relapsed' \subseteq closed
        /\ standing' \subseteq relapsed'
    BY <1>2, RetestListIs DEF Shaped
  <2> QED BY <1>1, <2>1, <2>2, <2>3 DEF Time
<1>3. CASE SyncList(p)
  <2>1. UNCHANGED <<tracker, closed, relapsed, standing>> /\ mishaps' = mishaps \cup Overlap(p)
    BY <1>3 DEF SyncList, Mishap
  <2>2. Overlap(p) \subseteq {"overlap"}
    BY DEF Overlap
  <2>3. clock' = clock + 1 /\ clock' \in Time
    BY <1>3, SyncListIs
  <2> QED BY <1>1, <2>1, <2>2, <2>3 DEF Time
<1>4. ASSUME NEW t \in Tickets, RetestPut(p, t)
      PROVE  UNCHANGED <<tracker, closed, relapsed, standing, clock>> /\ \E ms \in SUBSET (Faults \cup {"torn"}) : mishaps' = mishaps \cup ms
  <2>1. UNCHANGED <<tracker, closed, relapsed, standing, clock>>
        /\ (mishaps' = mishaps \cup Torn(p, t) \/ ("store" \in Faults /\ mishaps' = mishaps \cup {"store"}))
    BY <1>4 DEF RetestPut, Mishap
  <2>2. Torn(p, t) \in SUBSET (Faults \cup {"torn"})
    BY DEF Torn
  <2>3. "store" \in Faults => {"store"} \in SUBSET (Faults \cup {"torn"})
    OBVIOUS
  <2> QED BY <2>1, <2>2, <2>3
<1>5. ASSUME NEW t \in Tickets, Read(p, t)
      PROVE  UNCHANGED <<tracker, closed, relapsed, standing, clock>> /\ \E ms \in SUBSET (Faults \cup {"torn"}) : mishaps' = mishaps \cup ms
  <2> DEFINE a == proc[p].snap[t]
             obs == Observed(a.ref, tracker[t], proc[p].now)
             ref == [obs EXCEPT !.csp = ClosedStillPresent(obs, a)]
  <2>1. UNCHANGED <<tracker, closed, relapsed, standing, clock>>
        /\ (UNCHANGED mishaps \/ Comment(p, t, ref, CommentFor(ref, a)))
    BY <1>5 DEF Read
  <2> HIDE DEF ref
  <2>2. Comment(p, t, ref, CommentFor(ref, a)) => UNCHANGED mishaps \/ ("comment" \in Faults /\ mishaps' = mishaps \cup {"comment"})
    BY DEF Comment, Mishap
  <2>3. "comment" \in Faults => {"comment"} \in SUBSET (Faults \cup {"torn"})
    OBVIOUS
  <2>4. UNCHANGED mishaps => mishaps' = mishaps \cup {}
    OBVIOUS
  <2>5. {} \in SUBSET (Faults \cup {"torn"})
    OBVIOUS
  <2> QED BY <2>1, <2>2, <2>3, <2>4, <2>5
<1>6. ASSUME NEW t \in Tickets, ReadFails(p, t)
      PROVE  UNCHANGED <<tracker, closed, relapsed, standing, clock>> /\ \E ms \in SUBSET (Faults \cup {"torn"}) : mishaps' = mishaps \cup ms
  <2>1. {"read"} \in SUBSET (Faults \cup {"torn"})
    BY <1>6 DEF ReadFails
  <2> QED BY <1>6, <2>1 DEF ReadFails, Mishap
<1>7. ASSUME NEW t \in Tickets, PersistGet(p, t)
      PROVE  UNCHANGED <<tracker, closed, relapsed, standing, clock>> /\ \E ms \in SUBSET (Faults \cup {"torn"}) : mishaps' = mishaps \cup ms
  <2>1. {} \in SUBSET (Faults \cup {"torn"}) /\ mishaps' = mishaps \cup {}
    BY <1>7 DEF PersistGet
  <2> QED BY <1>7, <2>1 DEF PersistGet
<1>8. ASSUME NEW t \in Tickets, PersistPut(p, t)
      PROVE  UNCHANGED <<tracker, closed, relapsed, standing, clock>> /\ \E ms \in SUBSET (Faults \cup {"torn"}) : mishaps' = mishaps \cup ms
  <2>1. Torn(p, t) \in SUBSET (Faults \cup {"torn"})
    BY DEF Torn
  <2> QED BY <1>8, <2>1 DEF PersistPut, Mishap
<1>9. ASSUME NEW t \in Tickets, PersistFails(p, t)
      PROVE  UNCHANGED <<tracker, closed, relapsed, standing, clock>> /\ \E ms \in SUBSET (Faults \cup {"torn"}) : mishaps' = mishaps \cup ms
  <2>1. {"store"} \in SUBSET (Faults \cup {"torn"})
    BY <1>9 DEF PersistFails
  <2> QED BY <1>9, <2>1 DEF PersistFails, Mishap
<1>10. ASSUME UNCHANGED <<tracker, closed, relapsed, standing, clock>>, NEW ms \in SUBSET (Faults \cup {"torn"}), mishaps' = mishaps \cup ms
       PROVE  /\ UNCHANGED <<tracker, closed>> /\ relapsed \subseteq relapsed' /\ relapsed' \subseteq closed
              /\ standing' \subseteq relapsed'
              /\ mishaps \subseteq mishaps' /\ mishaps' \subseteq Faults \cup {"overlap", "torn"}
              /\ clock' \in Time /\ clock <= clock'
  BY <1>1, <1>10
<1>11. CASE \E t \in Tickets : \/ RetestPut(p, t) \/ Read(p, t) \/ ReadFails(p, t)
                               \/ PersistGet(p, t) \/ PersistPut(p, t) \/ PersistFails(p, t)
  <2>1. UNCHANGED <<tracker, closed, relapsed, standing, clock>> /\ \E ms \in SUBSET (Faults \cup {"torn"}) : mishaps' = mishaps \cup ms
    BY <1>4, <1>5, <1>6, <1>7, <1>8, <1>9, <1>11
  <2> QED BY <1>10, <2>1
<1> QED BY <1>2, <1>3, <1>11 DEF Steps

LEMMA ReplacedIs ==
  ASSUME TypeOK, NEW p \in Procs, NEW t \in Tickets
  PROVE  /\ Replaced(p, t) \in Action /\ Replaced(p, t).ref = proc[p].snap[t].ref
         /\ Replaced(p, t).ver = proc[p].fresh.ver /\ Replaced(p, t).verAt = proc[p].fresh.verAt
<1>1. proc[p] \in Proc
  BY DEF TypeOK
<1>2. proc[p].fresh \in Action /\ proc[p].snap[t] \in Action
  BY <1>1 DEF Proc
<1> QED BY <1>2 DEF Replaced, Action

(* What a step does to the store: at most one action is replaced. *)
LEMMA StepPuts ==
  ASSUME TypeOK, NEW p \in Procs, Steps(p)
  PROVE  /\ acts' \in [Tickets -> Action]
         /\ \/ UNCHANGED acts
            \/ \E t \in Tickets :
                 /\ \A u \in Tickets \ {t} : acts'[u] = acts[u]
                 /\ \/ RetestPut(p, t) /\ mishaps' = mishaps \cup Torn(p, t) /\ acts'[t] = proc[p].snap[t]
                    \/ PersistPut(p, t) /\ mishaps' = mishaps \cup Torn(p, t) /\ acts'[t] = Replaced(p, t)
<1>1. acts \in [Tickets -> Action] /\ \A t \in Tickets : proc[p].snap[t] \in Action
  <2>1. proc[p] \in Proc
    BY DEF TypeOK
  <2> QED BY <2>1 DEF TypeOK, Proc
<1>2. CASE RetestList(p) \/ SyncList(p)
  BY <1>1, <1>2 DEF RetestList, SyncList
<1>3. ASSUME NEW t \in Tickets, RetestPut(p, t)
      PROVE  UNCHANGED acts \/ (acts' = [acts EXCEPT ![t] = proc[p].snap[t]] /\ mishaps' = mishaps \cup Torn(p, t))
  BY <1>3 DEF RetestPut, Mishap
<1>4. ASSUME NEW t \in Tickets, Read(p, t) \/ ReadFails(p, t) \/ PersistGet(p, t) \/ PersistFails(p, t)
      PROVE  UNCHANGED acts
  BY <1>4 DEF Read, ReadFails, PersistGet, PersistFails
<1>5. ASSUME NEW t \in Tickets, PersistPut(p, t)
      PROVE  acts' = [acts EXCEPT ![t] = Replaced(p, t)] /\ mishaps' = mishaps \cup Torn(p, t)
  BY <1>5 DEF PersistPut, Mishap
<1>6. CASE \E t \in Tickets : RetestPut(p, t)
  <2>1. PICK t \in Tickets : RetestPut(p, t)
    BY <1>6
  <2> QED BY <1>1, <1>3, <2>1
<1>7. CASE \E t \in Tickets : PersistPut(p, t)
  <2>1. PICK t \in Tickets : PersistPut(p, t)
    BY <1>7
  <2> QED BY <1>1, <1>5, <2>1, ReplacedIs
<1>8. CASE UNCHANGED acts
  BY <1>1, <1>8
<1> QED BY <1>2, <1>4, <1>6, <1>7, <1>8 DEF Steps

LEMMA StepRemarks ==
  ASSUME TypeOK, NEW p \in Procs, Steps(p)
  PROVE  spoken' \in [Tickets -> Outcomes] /\ repeated' \subseteq Tickets /\ waits' \in [Tickets -> Nat]
<1>1. spoken \in [Tickets -> Outcomes] /\ repeated \subseteq Tickets /\ waits \in [Tickets -> Nat]
  BY DEF TypeOK
<1>2. CASE RetestList(p)
  BY <1>1, <1>2 DEF RetestList
<1>3. CASE SyncList(p)
  <2>1. waits' = [t \in Tickets |-> IF Serial /\ t \in Due(acts) \ proc'[p].todo THEN waits[t] + 1 ELSE 0]
    BY <1>3, SyncListIs
  <2>2. waits' \in [Tickets -> Nat]
    BY <1>1, <2>1
  <2> QED BY <1>1, <1>3, <2>2 DEF SyncList
<1>4. ASSUME NEW t \in Tickets, Read(p, t)
      PROVE  spoken' \in [Tickets -> Outcomes] /\ repeated' \subseteq Tickets /\ waits' \in [Tickets -> Nat]
  <2>1. PICK ref \in Ref : Spoke(p, t, ref)
    BY <1>4, ReadIs
  <2>2. UNCHANGED <<spoken, repeated>> \/ \E o \in {"fixed", "still_present"} : Posted(t, o)
    BY <2>1 DEF Spoke
  <2>3. ASSUME NEW o \in {"fixed", "still_present"}, Posted(t, o)
        PROVE  spoken' \in [Tickets -> Outcomes] /\ repeated' \subseteq Tickets
    BY <1>1, <2>3 DEF Posted, Outcomes
  <2>4. UNCHANGED waits
    BY <1>4 DEF Read
  <2> QED BY <1>1, <2>2, <2>3, <2>4
<1>5. ASSUME NEW t \in Tickets, RetestPut(p, t) \/ ReadFails(p, t) \/ PersistGet(p, t) \/ PersistPut(p, t) \/ PersistFails(p, t)
      PROVE  UNCHANGED <<spoken, repeated, waits>>
  BY <1>5 DEF RetestPut, ReadFails, PersistGet, PersistPut, PersistFails
<1> QED BY <1>1, <1>2, <1>3, <1>4, <1>5 DEF Steps

(* Where syncs do not overlap, nobody else works when a goroutine moves. *)
LEMMA AloneNow ==
  ASSUME TypeOK, Shaped, Single, NEW p \in Procs, Steps(p), "overlap" \notin mishaps'
  PROVE  "overlap" \notin mishaps /\ \A q \in Procs \ {p} : proc[q].pc = "idle" /\ proc'[q] = proc[q]
<1>1. "overlap" \notin mishaps /\ \A q \in Procs \ {p} : proc'[q] = proc[q]
  BY StepLeaves, StepMoves DEF Moved
<1>2. CASE RetestList(p) \/ SyncList(p)
  <2>1. mishaps' = mishaps \cup Overlap(p)
    BY <1>2 DEF RetestList, SyncList, Mishap
  <2> QED BY <1>1, <2>1 DEF Overlap
<1>3. CASE proc[p].pc # "idle"
  BY <1>1, <1>3 DEF Single
<1>4. CASE \E t \in Tickets : \/ RetestPut(p, t) \/ Read(p, t) \/ ReadFails(p, t)
                              \/ PersistGet(p, t) \/ PersistPut(p, t) \/ PersistFails(p, t)
  BY <1>3, <1>4 DEF RetestPut, Read, ReadFails, PersistGet, PersistPut, PersistFails
<1> QED BY <1>2, <1>4 DEF Steps

LEMMA StepSingle ==
  ASSUME TypeOK, Shaped, Single, NEW p \in Procs, Steps(p)
  PROVE  Single'
<1> SUFFICES ASSUME "overlap" \notin mishaps'
             PROVE  /\ \A q, r \in Procs : proc'[q].pc # "idle" /\ proc'[r].pc # "idle" => q = r
                    /\ \A q \in Procs : proc'[q].pc \in {"retest", "read"} =>
                         \A t \in proc'[q].todo : proc'[q].snap[t].ref = acts'[t].ref
  BY DEF Single
<1>1. "overlap" \notin mishaps /\ \A q \in Procs \ {p} : proc'[q].pc = "idle"
  BY AloneNow
<1>2. \A q, r \in Procs : proc'[q].pc # "idle" /\ proc'[r].pc # "idle" => q = r
  BY <1>1
<1>3. SUFFICES ASSUME proc'[p].pc \in {"retest", "read"}, NEW t \in proc'[p].todo
               PROVE  proc'[p].snap[t].ref = acts'[t].ref
  BY <1>1, <1>2
<1>4. t \in Tickets /\ proc'[p].todo \subseteq Tickets
  <2>1. proc'[p] \in Proc
    BY StepMoves DEF Moved
  <2> QED BY <2>1 DEF Proc
<1>5. proc[p].pc \in {"retest", "read"} => \A u \in proc[p].todo : proc[p].snap[u].ref = acts[u].ref
  BY <1>1 DEF Single
<1>6. CASE RetestList(p)
  <2>1. UNCHANGED acts
    BY <1>6 DEF RetestList
  <2>2. \A u \in proc'[p].todo : proc'[p].snap[u].ref = acts[u].ref
    BY <1>6, RetestListIs DEF Shaped
  <2> QED BY <1>3, <2>1, <2>2
<1>7. CASE SyncList(p)
  <2>1. proc'[p] # Idle
    BY IdleShape, <1>3
  <2> QED BY <1>4, <1>7, <2>1, SyncListIs DEF SyncList
<1>8. ASSUME NEW u \in Tickets, RetestPut(p, u)
      PROVE  proc'[p].snap[t].ref = acts'[t].ref
  <2>1. proc[p].pc = "retest" /\ proc'[p].todo = proc[p].todo \ {u} /\ proc'[p].snap = proc[p].snap
    BY <1>3, <1>8, RetestPutIs, IdleShape
  <2>2. proc[p].snap[t].ref = acts[t].ref /\ t # u
    BY <1>3, <1>5, <2>1
  <2>3. acts'[t] = acts[t]
    BY <1>4, <1>8, <2>2 DEF RetestPut, TypeOK
  <2> QED BY <2>1, <2>2, <2>3
<1>9. ASSUME NEW u \in Tickets, NEW ref \in Ref, proc[p].pc = "read", u \in proc[p].todo, Handled(p, u, ref), UNCHANGED acts
      PROVE  proc'[p].snap[t].ref = acts'[t].ref
  <2>1. proc'[p].todo = proc[p].todo \ {u} /\ \A v \in Tickets \ {u} : proc'[p].snap[v] = proc[p].snap[v]
    BY <1>9, HandledIs
  <2> QED BY <1>3, <1>4, <1>5, <1>9, <2>1
<1>10. ASSUME NEW u \in Tickets, Read(p, u)
       PROVE  proc'[p].snap[t].ref = acts'[t].ref
  <2>1. UNCHANGED acts
    BY <1>10 DEF Read
  <2> QED BY <1>9, <1>10, <2>1, ReadIs
<1>11. ASSUME NEW u \in Tickets, ReadFails(p, u)
       PROVE  proc'[p].snap[t].ref = acts'[t].ref
  <2>1. proc[p].snap[u].ref \in Ref
    BY CopyTypes DEF Action
  <2> QED BY <1>9, <1>11, <2>1 DEF ReadFails
<1>12. ASSUME NEW u \in Tickets, PersistGet(p, u) \/ PersistPut(p, u) \/ PersistFails(p, u)
       PROVE  FALSE
  <2>1. proc'[p].pc \in {"idle", "persist"}
    BY <1>12, PersistGetIs, PersistedIs, IdleShape DEF PersistPut, PersistFails
  <2> QED BY <1>3, <2>1
<1> QED BY <1>6, <1>7, <1>8, <1>10, <1>11, <1>12 DEF Steps

LEMMA ShapeStep ==
  ASSUME TypeOK, Shaped, Single, [Next]_vars
  PROVE  TypeOK' /\ Shaped' /\ Single'
<1>1. CASE UNCHANGED vars
  BY <1>1 DEF vars, TypeOK, Shaped, Single
<1>2. ASSUME NEW p \in Procs, Steps(p)
      PROVE  TypeOK' /\ Shaped' /\ Single'
  <2>1. Moved(p)
    BY <1>2, StepMoves
  <2>2. \A q \in Procs : Cardinality(proc'[q].todo \cup proc'[q].got) <= MaxReads \/ proc'[q].pc = "retest"
    BY <2>1 DEF Moved, TypeOK
  <2>3. tracker' \in [Tickets -> [done : BOOLEAN, at : Time]] /\ closed' \subseteq Tickets
    BY <1>2, StepLeaves DEF TypeOK
  <2>4. TypeOK'
    BY <1>2, <2>1, <2>2, <2>3, StepLeaves, StepPuts, StepRemarks DEF Moved, TypeOK
  <2>5. Shaped'
    <3>1. \A t \in Tickets : tracker'[t].done => t \in closed'
      BY <1>2, StepLeaves DEF Shaped
    <3> QED BY <2>1, <3>1 DEF Moved, Shaped
  <2> QED BY <1>2, <2>4, <2>5, StepSingle
<1>3. ASSUME NEW t \in Tickets, File(t)
      PROVE  TypeOK' /\ Shaped' /\ Single'
  <2>1. acts[t] \in Action /\ acts \in [Tickets -> Action]
    BY DEF TypeOK
  <2>2. acts' \in [Tickets -> Action] /\ \A u \in Tickets : acts'[u].ref = acts[u].ref
    BY <1>3, <2>1 DEF File, Action
  <2>3. UNCHANGED <<tracker, proc, clock, mishaps, spoken, repeated, waits, closed, relapsed, standing>>
    BY <1>3 DEF File
  <2>4. TypeOK' /\ Shaped'
    BY <2>2, <2>3 DEF TypeOK, Shaped
  <2>5. \A p \in Procs : proc[p].todo \subseteq Tickets
    BY DEF TypeOK, Proc
  <2> QED BY <2>2, <2>3, <2>4, <2>5 DEF Single
<1>4. ASSUME NEW t \in Tickets, Close(t)
      PROVE  TypeOK' /\ Shaped' /\ Single'
  <2>1. clock' \in Time /\ 0 \in Time
    BY <1>4, TicketAssumption DEF Close, Tick, Time, TypeOK
  <2>2. PICK at \in {0, clock'} : tracker' = [tracker EXCEPT ![t] = [done |-> TRUE, at |-> at]]
    BY <1>4 DEF Close
  <2>3. tracker' \in [Tickets -> [done : BOOLEAN, at : Time]] /\ \A u \in Tickets \ {t} : tracker'[u] = tracker[u]
    BY <2>1, <2>2 DEF TypeOK
  <2>4. closed' = closed \cup {t} /\ UNCHANGED <<acts, proc, mishaps, spoken, repeated, waits, relapsed, standing>>
    BY <1>4 DEF Close
  <2> QED BY <2>1, <2>3, <2>4 DEF TypeOK, Shaped, Single
<1>5. ASSUME NEW t \in Tickets, Reopen(t)
      PROVE  TypeOK' /\ Shaped' /\ Single'
  <2>1. 0 \in Time
    BY TicketAssumption DEF Time
  <2>2. tracker' \in [Tickets -> [done : BOOLEAN, at : Time]] /\ \A u \in Tickets : tracker'[u].done => tracker[u].done
    BY <1>5, <2>1 DEF Reopen, TypeOK
  <2>3. spoken' \in [Tickets -> Outcomes]
    BY <1>5 DEF Reopen, TypeOK, Outcomes
  <2>4. standing' \subseteq standing /\ UNCHANGED <<acts, proc, clock, mishaps, repeated, waits, closed, relapsed>>
    BY <1>5 DEF Reopen
  <2> QED BY <2>2, <2>3, <2>4 DEF TypeOK, Shaped, Single
<1> QED BY <1>1, <1>2, <1>3, <1>4, <1>5 DEF Next

LEMMA ShapeInit ==
  ASSUME Init
  PROVE  TypeOK /\ Shaped /\ Single
<1>1. 0 \in Time
  BY TicketAssumption DEF Time
<1>2. \A p \in Procs : proc[p] = Idle
  BY DEF Init
<1>3. Cardinality({} \cup {}) <= MaxReads
  BY FS_EmptySet, TicketAssumption
<1>4. \A p \in Procs : Cardinality(proc[p].todo \cup proc[p].got) <= MaxReads
  BY <1>2, <1>3, IdleShape
<1>5. TypeOK
  BY <1>1, <1>4, PlainTypes DEF Init, TypeOK, Outcomes
<1>6. Shaped
  BY <1>2, IdleShape DEF Init, Shaped
<1>7. Single
  BY <1>2, IdleShape DEF Single
<1> QED BY <1>5, <1>6, <1>7

(* Type correctness, with the read budget: no sync handles more than       *)
(* MaxReads tickets.                                                       *)
THEOREM TicketTypeCorrect == Spec => []TypeOK
<1>1. Spec => [](TypeOK /\ Shaped /\ Single)
  BY ShapeInit, ShapeStep, PTL DEF Spec
<1> QED BY <1>1, PTL

-----------------------------------------------------------------------------
(* Where a copy of an action comes from.                                   *)

(* The copies of an action: the store's and the goroutines'.               *)
Known == [t \in Tickets |->
            {Unfiled, acts[t]} \cup {proc[p].snap[t] : p \in Procs}
              \cup {proc[p].fresh : p \in {q \in Procs : t \in proc[q].held}}]

(* A verdict is a copy of an older one, or a re-test of this very moment.  *)
VerdictFrom(t, a) ==
  \/ \E b \in Known[t] : a.ver = b.ver /\ a.verAt = b.verAt
  \/ \E p \in Procs : RetestList(p) /\ a.verAt = clock' /\ (a.ver = "still_present" /\ t \in closed => t \in relapsed')

(* A ticket is a copy of an older one, or was read just now.               *)
RefFrom(t, a) ==
  \/ \E b \in Known[t] : a.ref = b.ref
  \/ \E p \in Procs : proc[p].pc = "read" /\ Viewed(p, t, a.ref)

LEMMA KnownIs ==
  ASSUME NEW t \in Tickets
  PROVE  /\ Unfiled \in Known[t] /\ acts[t] \in Known[t] /\ \A p \in Procs : proc[p].snap[t] \in Known[t]
         /\ \A p \in Procs : t \in proc[p].held => proc[p].fresh \in Known[t]
BY DEF Known

LEMMA KnownNext ==
  ASSUME NEW t \in Tickets, NEW a \in Known'[t]
  PROVE  \/ a = Unfiled \/ a = acts'[t] \/ \E p \in Procs : a = proc'[p].snap[t]
         \/ \E p \in Procs : t \in proc'[p].held /\ a = proc'[p].fresh
BY DEF Known

(* Only the goroutine that moves makes new copies. *)
LEMMA KnownAfter ==
  ASSUME NEW p \in Procs, \A q \in Procs \ {p} : proc'[q] = proc[q], NEW t \in Tickets, NEW a \in Known'[t]
  PROVE  \/ a \in Known[t] \/ a = acts'[t] \/ a = proc'[p].snap[t]
         \/ t \in proc'[p].held /\ a = proc'[p].fresh
<1>1. CASE a = Unfiled \/ a = acts'[t]
  BY <1>1, KnownIs
<1>2. CASE \E q \in Procs : a = proc'[q].snap[t]
  BY <1>2, KnownIs
<1>3. CASE \E q \in Procs : t \in proc'[q].held /\ a = proc'[q].fresh
  BY <1>3, KnownIs
<1> QED BY <1>1, <1>2, <1>3, KnownNext

LEMMA StoreCopies ==
  ASSUME TypeOK, Shaped, NEW p \in Procs, Steps(p), NEW t \in Tickets
  PROVE  VerdictFrom(t, acts'[t]) /\ RefFrom(t, acts'[t])
<1>1. /\ acts[t] \in Known[t] /\ proc[p].snap[t] \in Known[t]
      /\ (t \in proc[p].held => proc[p].fresh \in Known[t])
  BY KnownIs
<1>2. CASE acts'[t] = acts[t]
  BY <1>1, <1>2 DEF VerdictFrom, RefFrom
<1>3. CASE acts'[t] = proc[p].snap[t]
  BY <1>1, <1>3 DEF VerdictFrom, RefFrom
<1>4. CASE PersistPut(p, t) /\ acts'[t] = Replaced(p, t)
  <2>1. proc[p].fresh \in Known[t]
    BY <1>1, <1>4 DEF PersistPut
  <2>2. acts'[t].ref = proc[p].snap[t].ref /\ acts'[t].ver = proc[p].fresh.ver /\ acts'[t].verAt = proc[p].fresh.verAt
    BY <1>4, ReplacedIs
  <2> QED BY <1>1, <2>1, <2>2 DEF VerdictFrom, RefFrom
<1>5. acts'[t] \in {acts[t], proc[p].snap[t]} \/ (PersistPut(p, t) /\ acts'[t] = Replaced(p, t))
  BY StepPuts
<1> QED BY <1>2, <1>3, <1>4, <1>5

LEMMA HeldCopies ==
  ASSUME TypeOK, Shaped, NEW p \in Procs, Steps(p), NEW t \in Tickets, t \in proc'[p].held
  PROVE  PersistGet(p, t) /\ proc'[p].fresh = acts[t]
<1>1. CASE RetestList(p) \/ SyncList(p)
  BY <1>1, RetestListIs, SyncListIs, IdleShape DEF Shaped
<1>2. ASSUME NEW u \in Tickets, RetestPut(p, u)
      PROVE  FALSE
  BY <1>2, RetestPutIs, IdleShape DEF Shaped
<1>3. ASSUME NEW u \in Tickets, NEW ref \in Ref, proc[p].pc = "read", Handled(p, u, ref)
      PROVE  FALSE
  BY <1>3, HandledIs DEF Shaped
<1>4. ASSUME NEW u \in Tickets, Read(p, u)
      PROVE  FALSE
  BY <1>3, <1>4, ReadIs
<1>5. ASSUME NEW u \in Tickets, ReadFails(p, u)
      PROVE  FALSE
  <2>1. proc[p].snap[u].ref \in Ref
    BY CopyTypes DEF Action
  <2> QED BY <1>3, <1>5, <2>1 DEF ReadFails
<1>6. ASSUME NEW u \in Tickets, PersistPut(p, u) \/ PersistFails(p, u)
      PROVE  FALSE
  BY <1>6, PersistedIs, IdleShape DEF PersistPut, PersistFails
<1>7. ASSUME NEW u \in Tickets, PersistGet(p, u)
      PROVE  u = t /\ proc'[p].fresh = acts[u]
  BY <1>7, PersistGetIs
<1> QED BY <1>1, <1>2, <1>4, <1>5, <1>6, <1>7 DEF Steps

LEMMA SnapCopies ==
  ASSUME TypeOK, Shaped, NEW p \in Procs, Steps(p), NEW t \in Tickets
  PROVE  VerdictFrom(t, proc'[p].snap[t]) /\ RefFrom(t, proc'[p].snap[t])
<1>1. acts[t] \in Known[t] /\ proc[p].snap[t] \in Known[t] /\ Unfiled \in Known[t]
  BY KnownIs
<1>2. ASSUME proc'[p].snap[t] \in {acts[t], proc[p].snap[t], Unfiled}
      PROVE  VerdictFrom(t, proc'[p].snap[t]) /\ RefFrom(t, proc'[p].snap[t])
  BY <1>1, <1>2 DEF VerdictFrom, RefFrom
<1>3. CASE RetestList(p)
  <2>1. CASE t \in proc'[p].todo
    <3>1. /\ proc'[p].snap[t].ref = acts[t].ref /\ proc'[p].snap[t].verAt = clock'
          /\ (proc'[p].snap[t].ver = "still_present" /\ t \in closed => t \in relapsed')
      BY <1>3, <2>1, RetestListIs DEF Shaped
    <3> QED BY <1>1, <1>3, <3>1 DEF VerdictFrom, RefFrom
  <2>2. CASE t \notin proc'[p].todo
    <3>1. proc'[p].snap[t] = Unfiled
      BY <1>3, <2>2, RetestListIs DEF Shaped
    <3> QED BY <1>2, <3>1
  <2> QED BY <2>1, <2>2
<1>4. CASE SyncList(p)
  <2>1. proc'[p].snap[t] \in {acts[t], Unfiled}
    BY <1>4, SyncListIs, IdleShape
  <2> QED BY <1>2, <2>1
<1>5. ASSUME NEW u \in Tickets, RetestPut(p, u)
      PROVE  VerdictFrom(t, proc'[p].snap[t]) /\ RefFrom(t, proc'[p].snap[t])
  <2>1. proc'[p].snap[t] \in {proc[p].snap[t], Unfiled}
    BY <1>5, RetestPutIs, IdleShape
  <2> QED BY <1>2, <2>1
<1>6. ASSUME NEW u \in Tickets, NEW ref \in Ref, proc[p].pc = "read", Handled(p, u, ref),
             Viewed(p, u, ref) \/ ref = proc[p].snap[u].ref
      PROVE  VerdictFrom(t, proc'[p].snap[t]) /\ RefFrom(t, proc'[p].snap[t])
  <2>1. CASE t # u
    <3>1. proc'[p].snap[t] = proc[p].snap[t]
      BY <1>6, <2>1, HandledIs
    <3> QED BY <1>2, <3>1
  <2>2. CASE t = u
    <3>1. proc'[p].snap[t].ref = ref /\ proc'[p].snap[t].ver = proc[p].snap[t].ver /\ proc'[p].snap[t].verAt = proc[p].snap[t].verAt
      BY <1>6, <2>2, HandledIs
    <3> QED BY <1>1, <1>6, <2>2, <3>1 DEF VerdictFrom, RefFrom
  <2> QED BY <2>1, <2>2
<1>7. ASSUME NEW u \in Tickets, Read(p, u)
      PROVE  VerdictFrom(t, proc'[p].snap[t]) /\ RefFrom(t, proc'[p].snap[t])
  BY <1>6, <1>7, ReadIs
<1>8. ASSUME NEW u \in Tickets, ReadFails(p, u)
      PROVE  VerdictFrom(t, proc'[p].snap[t]) /\ RefFrom(t, proc'[p].snap[t])
  <2>1. proc[p].snap[u].ref \in Ref
    BY CopyTypes DEF Action
  <2> QED BY <1>6, <1>8, <2>1 DEF ReadFails
<1>9. ASSUME NEW u \in Tickets, PersistGet(p, u) \/ PersistPut(p, u) \/ PersistFails(p, u)
      PROVE  VerdictFrom(t, proc'[p].snap[t]) /\ RefFrom(t, proc'[p].snap[t])
  <2>1. proc'[p].snap[t] \in {proc[p].snap[t], Unfiled}
    BY <1>9, PersistGetIs, PersistedIs, IdleShape DEF PersistPut, PersistFails
  <2> QED BY <1>2, <2>1
<1> QED BY <1>3, <1>4, <1>5, <1>7, <1>8, <1>9 DEF Steps

(* Every copy after a step of any kind comes from somewhere. *)
LEMMA Copied ==
  ASSUME TypeOK, Shaped, [Next]_vars, NEW t \in Tickets, NEW a \in Known'[t]
  PROVE  VerdictFrom(t, a) /\ RefFrom(t, a)
<1>1. CASE a \in Known[t]
  BY <1>1 DEF VerdictFrom, RefFrom
<1>2. ASSUME NEW p \in Procs, Steps(p)
      PROVE  VerdictFrom(t, a) /\ RefFrom(t, a)
  <2>1. \A q \in Procs \ {p} : proc'[q] = proc[q]
    BY <1>2, StepMoves DEF Moved
  <2>2. CASE t \in proc'[p].held /\ a = proc'[p].fresh
    <3>1. a \in Known[t]
      BY <1>2, <2>2, HeldCopies, KnownIs
    <3> QED BY <1>1, <3>1
  <2> QED BY <1>1, <1>2, <2>1, <2>2, KnownAfter, StoreCopies, SnapCopies
<1>3. ASSUME NEW u \in Tickets, File(u)
      PROVE  VerdictFrom(t, a) /\ RefFrom(t, a)
  <2>1. acts'[t].ref = acts[t].ref /\ acts'[t].ver = acts[t].ver /\ acts'[t].verAt = acts[t].verAt /\ UNCHANGED proc
    BY <1>3 DEF File, TypeOK, Action
  <2>2. a \in Known[t] \/ a = acts'[t]
    BY <2>1, KnownNext, KnownIs
  <2>3. acts[t] \in Known[t]
    BY KnownIs
  <2> QED BY <1>1, <2>1, <2>2, <2>3 DEF VerdictFrom, RefFrom
<1>4. CASE UNCHANGED <<acts, proc>>
  BY <1>1, <1>4 DEF Known
<1>5. ASSUME NEW u \in Tickets, Close(u) \/ Reopen(u)
      PROVE  UNCHANGED <<acts, proc>>
  BY <1>5 DEF Close, Reopen
<1> QED BY <1>2, <1>3, <1>4, <1>5 DEF Next, vars

-----------------------------------------------------------------------------
(* Times, and the disagreement that is earned.                             *)

(* The clock is ahead of every event. *)
Dated ==
  /\ \A t \in Tickets : \A a \in Known[t] : a.verAt <= clock /\ a.ref.synced <= clock
  /\ \A p \in Procs : proc[p].now <= clock

(* Where no re-scan has found the issue after the close, every copy of a   *)
(* "still present" is older than every copy of the close.                  *)
Flagged ==
  "overlap" \notin mishaps => \A t \in Tickets :
    /\ \A b \in Known[t] : (b.ref.resolved => t \in closed) /\ (b.ref.csp => t \in relapsed)
    /\ t \notin relapsed => \A a \in Known[t] : a.ver = "still_present" =>
         /\ tracker[t].done /\ tracker[t].at # 0 => a.verAt < tracker[t].at
         /\ \A b \in Known[t] : b.ref.resolved => a.verAt < b.ref.resolvedAt
    /\ \A p \in Procs : proc[p].pc = "read" => \A a \in Known[t] : a.verAt < proc[p].now

LEMMA KnownTypes ==
  ASSUME TypeOK, NEW t \in Tickets, NEW a \in Known[t]
  PROVE  /\ a.verAt \in Int /\ a.ref.synced \in Int /\ a.ref.resolvedAt \in Int
         /\ a.ref.resolved \in BOOLEAN /\ a.ref.csp \in BOOLEAN
<1>1. a = Unfiled \/ a = acts[t] \/ (\E p \in Procs : a = proc[p].snap[t]) \/ \E p \in Procs : a = proc[p].fresh
  BY DEF Known
<1>2. a \in Action
  BY <1>1, CopyTypes, PlainTypes DEF TypeOK
<1> QED BY <1>2, TicketAssumption DEF Action, Ref, Time

LEMMA NextLeaves ==
  ASSUME TypeOK, Shaped, [Next]_vars
  PROVE  /\ mishaps \subseteq mishaps' /\ relapsed \subseteq relapsed' /\ closed \subseteq closed'
         /\ clock \in Int /\ clock' \in Int /\ clock <= clock'
         /\ \A t \in Tickets : tracker'[t].done =>
              tracker'[t] = tracker[t] \/ (clock' = clock + 1 /\ tracker'[t].at \in {0, clock'})
<1>1. clock \in Time /\ clock <= clock /\ clock \in Int
  BY TicketAssumption DEF TypeOK, Time
<1>2. ASSUME NEW p \in Procs, Steps(p)
      PROVE  UNCHANGED <<tracker, closed>> /\ mishaps \subseteq mishaps' /\ relapsed \subseteq relapsed' /\ clock' \in Int /\ clock <= clock'
  BY <1>2, StepLeaves, TicketAssumption DEF Time
<1>3. ASSUME NEW t \in Tickets, File(t)
      PROVE  UNCHANGED <<tracker, closed, mishaps, relapsed, clock>>
  BY <1>3 DEF File
<1>4. ASSUME NEW t \in Tickets, Close(t)
      PROVE  /\ UNCHANGED <<mishaps, relapsed>> /\ closed \subseteq closed' /\ clock' = clock + 1
             /\ \A u \in Tickets : tracker'[u] = tracker[u] \/ tracker'[u].at \in {0, clock'}
  BY <1>4 DEF Close, Tick, TypeOK
<1>5. ASSUME NEW t \in Tickets, Reopen(t)
      PROVE  /\ UNCHANGED <<mishaps, relapsed, closed, clock>>
             /\ \A u \in Tickets : tracker'[u] = tracker[u] \/ ~tracker'[u].done
  BY <1>5 DEF Reopen, TypeOK
<1>6. CASE \E p \in Procs : Steps(p)
  BY <1>1, <1>2, <1>6
<1>7. CASE \E t \in Tickets : File(t)
  BY <1>1, <1>3, <1>7
<1>8. CASE \E t \in Tickets : Close(t)
  BY <1>1, <1>4, <1>8
<1>9. CASE \E t \in Tickets : Reopen(t)
  BY <1>1, <1>5, <1>9
<1>10. CASE UNCHANGED vars
  BY <1>1, <1>10 DEF vars
<1> QED BY <1>6, <1>7, <1>8, <1>9, <1>10 DEF Next

(* A goroutine that reads works from a list it took before, or just now. *)
LEMMA ReaderIs ==
  ASSUME TypeOK, Shaped, [Next]_vars, NEW q \in Procs
  PROVE  /\ proc'[q].now \in {0, proc[q].now} \/ (clock' = clock + 1 /\ proc'[q].now = clock')
         /\ proc'[q].pc = "read" => \/ proc[q].pc = "read" /\ proc'[q].now = proc[q].now
                                    \/ clock' = clock + 1 /\ proc'[q].now = clock'
<1>1. CASE proc'[q] = proc[q]
  BY <1>1
<1>2. CASE RetestList(q)
  BY <1>2, RetestListIs DEF Shaped
<1>3. CASE SyncList(q)
  BY <1>3, SyncListIs, IdleShape
<1>4. ASSUME NEW t \in Tickets, RetestPut(q, t)
      PROVE  proc'[q].now \in {0, proc[q].now} /\ proc'[q].pc # "read"
  BY <1>4, RetestPutIs, IdleShape
<1>5. ASSUME NEW t \in Tickets, NEW ref \in Ref, proc[q].pc = "read", Handled(q, t, ref)
      PROVE  proc'[q].now = proc[q].now
  BY <1>5, HandledIs
<1>6. ASSUME NEW t \in Tickets, Read(q, t) \/ ReadFails(q, t)
      PROVE  proc[q].pc = "read" /\ proc'[q].now = proc[q].now
  <2>1. proc[q].snap[t].ref \in Ref
    BY CopyTypes DEF Action
  <2> QED BY <1>5, <1>6, <2>1, ReadIs DEF ReadFails
<1>7. ASSUME NEW t \in Tickets, PersistGet(q, t) \/ PersistPut(q, t) \/ PersistFails(q, t)
      PROVE  proc'[q].now \in {0, proc[q].now} /\ proc'[q].pc # "read"
  BY <1>7, PersistGetIs, PersistedIs, IdleShape DEF PersistPut, PersistFails
<1>8. CASE Steps(q)
  BY <1>2, <1>3, <1>4, <1>6, <1>7, <1>8 DEF Steps
<1>9. ASSUME NEW p \in Procs, Steps(p), p # q
      PROVE  proc'[q] = proc[q]
  BY <1>9, StepMoves DEF Moved
<1>10. ASSUME NEW t \in Tickets, File(t) \/ Close(t) \/ Reopen(t)
       PROVE  proc'[q] = proc[q]
  BY <1>10 DEF File, Close, Reopen
<1> QED BY <1>1, <1>8, <1>9, <1>10 DEF Next, vars

LEMMA DatedStep ==
  ASSUME TypeOK, Shaped, Dated, [Next]_vars
  PROVE  Dated'
<1>1. clock \in Int /\ clock' \in Int /\ clock <= clock' /\ 0 <= clock /\ \A p \in Procs : proc[p].now \in Int
  BY NextLeaves, CopyTypes, TicketAssumption DEF TypeOK, Time, Proc
<1>2. \A p \in Procs : proc'[p].now <= clock'
  BY <1>1, ReaderIs DEF Dated
<1>3. ASSUME NEW t \in Tickets, NEW a \in Known'[t]
      PROVE  a.verAt <= clock' /\ a.ref.synced <= clock'
  <2>1. VerdictFrom(t, a) /\ RefFrom(t, a)
    BY <1>3, Copied
  <2>2. \A b \in Known[t] : b.verAt \in Int /\ b.verAt <= clock /\ b.ref.synced \in Int /\ b.ref.synced <= clock
    BY KnownTypes DEF Dated
  <2>3. a.verAt <= clock'
    BY <1>1, <2>1, <2>2 DEF VerdictFrom
  <2>4. a.ref.synced <= clock'
    BY <1>1, <2>1, <2>2 DEF RefFrom, Viewed, Dated
  <2> QED BY <2>3, <2>4
<1> QED BY <1>2, <1>3 DEF Dated

LEMMA FlaggedStep ==
  ASSUME TypeOK, Shaped, Single, Dated, Flagged, [Next]_vars
  PROVE  Flagged'
<1> SUFFICES ASSUME "overlap" \notin mishaps', NEW t \in Tickets
             PROVE  /\ \A b \in Known'[t] : (b.ref.resolved => t \in closed') /\ (b.ref.csp => t \in relapsed')
                    /\ t \notin relapsed' => \A a \in Known'[t] : a.ver = "still_present" =>
                         /\ tracker'[t].done /\ tracker'[t].at # 0 => a.verAt < tracker'[t].at
                         /\ \A b \in Known'[t] : b.ref.resolved => a.verAt < b.ref.resolvedAt
                    /\ \A p \in Procs : proc'[p].pc = "read" => \A a \in Known'[t] : a.verAt < proc'[p].now
  BY DEF Flagged
<1>1. /\ "overlap" \notin mishaps /\ relapsed \subseteq relapsed' /\ closed \subseteq closed'
      /\ clock \in Int /\ clock' \in Int /\ clock <= clock'
  BY NextLeaves
<1>2. \A a \in Known'[t] : VerdictFrom(t, a) /\ RefFrom(t, a)
  BY Copied
<1>3. /\ \A b \in Known[t] : (b.ref.resolved => t \in closed) /\ (b.ref.csp => t \in relapsed)
      /\ t \notin relapsed => \A a \in Known[t] : a.ver = "still_present" =>
           /\ tracker[t].done /\ tracker[t].at # 0 => a.verAt < tracker[t].at
           /\ \A b \in Known[t] : b.ref.resolved => a.verAt < b.ref.resolvedAt
      /\ \A p \in Procs : proc[p].pc = "read" => \A a \in Known[t] : a.verAt < proc[p].now
  BY <1>1 DEF Flagged
<1>4. \A a \in Known[t] : a.verAt \in Int /\ a.verAt <= clock
  BY KnownTypes DEF Dated
<1>5. (tracker[t].done => t \in closed) /\ \A p \in Procs : proc[p].snap[t] \in Known[t]
  BY KnownIs DEF Shaped
<1>6. \A b \in Known'[t] : b.ref.resolved => t \in closed
  BY <1>2, <1>3, <1>5 DEF RefFrom, Viewed
<1>7. ASSUME t \notin relapsed, NEW p \in Procs, proc[p].pc = "read", NEW r, Viewed(p, t, r), r.resolved,
             NEW a \in Known[t], a.ver = "still_present"
      PROVE  a.verAt < r.resolvedAt
  BY <1>3, <1>5, <1>7 DEF Viewed
<1>8. \A b \in Known'[t] : b.ref.csp => t \in relapsed'
  <2> SUFFICES ASSUME NEW p \in Procs, proc[p].pc = "read", NEW r, Viewed(p, t, r), r.csp, t \notin relapsed
               PROVE  FALSE
    BY <1>1, <1>2, <1>3 DEF RefFrom
  <2>1. r.resolved /\ proc[p].snap[t].ver = "still_present" /\ proc[p].snap[t].verAt >= r.resolvedAt
    BY DEF Viewed
  <2>2. proc[p].snap[t].verAt < r.resolvedAt
    BY <1>5, <1>7, <2>1
  <2>3. r.resolvedAt \in Int
    <3>1. tracker[t].at \in Int /\ proc[p].now \in Int
      BY CopyTypes, TicketAssumption DEF TypeOK, Time, Proc
    <3>2. proc[p].snap[t].ref.resolvedAt \in Int
      BY <1>5, KnownTypes
    <3> QED BY <2>1, <3>1, <3>2 DEF Viewed
  <2> QED BY <1>4, <1>5, <2>1, <2>2, <2>3
<1>9. ASSUME t \notin relapsed', NEW a \in Known'[t], a.ver = "still_present"
      PROVE  /\ tracker'[t].done /\ tracker'[t].at # 0 => a.verAt < tracker'[t].at
             /\ \A b \in Known'[t] : b.ref.resolved => a.verAt < b.ref.resolvedAt
  <2>1. CASE \E p \in Procs : RetestList(p) /\ a.verAt = clock' /\ (a.ver = "still_present" /\ t \in closed => t \in relapsed')
    <3>1. t \notin closed
      BY <1>9, <2>1
    <3>2. tracker' = tracker
      BY <2>1 DEF RetestList
    <3> QED BY <1>5, <1>6, <3>1, <3>2
  <2>2. CASE \E o \in Known[t] : a.ver = o.ver /\ a.verAt = o.verAt
    <3>1. PICK o \in Known[t] : a.ver = o.ver /\ a.verAt = o.verAt
      BY <2>2
    <3>2. tracker'[t].done /\ tracker'[t].at # 0 => a.verAt < tracker'[t].at
      BY <1>1, <1>3, <1>4, <1>9, <3>1, NextLeaves
    <3>3. ASSUME NEW b \in Known'[t], b.ref.resolved
          PROVE  a.verAt < b.ref.resolvedAt
      <4>1. t \notin relapsed /\ o.ver = "still_present"
        BY <1>1, <1>9, <3>1
      <4>2. CASE \E c \in Known[t] : b.ref = c.ref
        BY <1>3, <3>1, <3>3, <4>1, <4>2
      <4>3. CASE \E p \in Procs : proc[p].pc = "read" /\ Viewed(p, t, b.ref)
        BY <1>7, <3>1, <3>3, <4>1, <4>3
      <4> QED BY <1>2, <4>2, <4>3 DEF RefFrom
    <3> QED BY <3>2, <3>3
  <2> QED BY <1>2, <2>1, <2>2 DEF VerdictFrom
<1>10. ASSUME NEW q \in Procs, proc'[q].pc = "read", NEW a \in Known'[t]
       PROVE  a.verAt < proc'[q].now
  <2>1. CASE \E p \in Procs : RetestList(p)
    <3>1. PICK p \in Procs : RetestList(p)
      BY <2>1
    <3>2. proc'[p].pc # "read"
      BY <3>1, RetestListIs DEF Shaped
    <3>3. \A r \in Procs \ {p} : proc'[r].pc = "idle"
      BY <3>1, AloneNow DEF Steps
    <3> QED BY <1>10, <3>2, <3>3
  <2>2. CASE \E o \in Known[t] : a.ver = o.ver /\ a.verAt = o.verAt
    BY <1>1, <1>3, <1>4, <1>10, <2>2, ReaderIs
  <2> QED BY <1>2, <2>1, <2>2 DEF VerdictFrom
<1> QED BY <1>1, <1>6, <1>8, <1>9, <1>10

LEMMA FirstCopies ==
  ASSUME Init, NEW t \in Tickets
  PROVE  Known[t] = {Unfiled}
<1>1. acts[t] = Unfiled /\ \A p \in Procs : proc[p].snap[t] = Unfiled /\ proc[p].held = {}
  BY PlainTypes, IdleShape DEF Init
<1> QED BY <1>1 DEF Known

LEMMA DatedInit ==
  ASSUME Init
  PROVE  Dated
<1>1. 0 <= 0
  OBVIOUS
<1> QED BY <1>1, FirstCopies, PlainTypes, IdleShape DEF Dated, Init

(* A ticket recorded as closed with the issue still there was closed, and  *)
(* a re-scan after that found the issue: closedStillPresent counts no      *)
(* verdict from before the close, whatever is reopened, undated, fails to  *)
(* be read or fails to be put, as long as two syncs do not overlap.        *)
THEOREM DisagreementIsEarned == Spec => []FlagIsEarned
<1> DEFINE Inv == TypeOK /\ Shaped /\ Single /\ Dated /\ Flagged
<1>1. Init => Inv
  <2> SUFFICES ASSUME Init
               PROVE  Inv
    OBVIOUS
  <2>1. Flagged
    BY FirstCopies, PlainTypes, IdleShape DEF Flagged, Init
  <2> QED BY <2>1, DatedInit, ShapeInit
<1>2. Inv /\ [Next]_vars => Inv'
  BY ShapeStep, DatedStep, FlaggedStep
<1>3. Inv => FlagIsEarned
  BY KnownIs DEF Flagged, FlagIsEarned
<1> QED BY <1>1, <1>2, <1>3, PTL DEF Spec

-----------------------------------------------------------------------------
(* Verdicts are kept.                                                      *)

(* The verdict that a put replaces is no newer than the one it writes.     *)
Firm ==
  "torn" \notin mishaps => \A p \in Procs :
    /\ \A t \in proc[p].held : proc[p].fresh.verAt = acts[t].verAt
    /\ proc[p].pc = "retest" => \A t \in proc[p].todo : acts[t].verAt < proc[p].snap[t].verAt

(* One full pass at a time works on a customer's actions. *)
OnePass == \A p, q \in Passes : p = q

LEMMA PutsNewer ==
  ASSUME TypeOK, Shaped, Firm, NEW p \in Procs, Steps(p), "torn" \notin mishaps', NEW t \in Tickets
  PROVE  \/ acts'[t].verAt = acts[t].verAt
         \/ /\ RetestPut(p, t) /\ proc[p].pc = "retest" /\ acts[t].verAt < acts'[t].verAt
            /\ \A q \in Procs \ {p} : t \notin proc[q].held
<1>1. "torn" \notin mishaps
  BY StepLeaves
<1>2. CASE RetestPut(p, t) /\ mishaps' = mishaps \cup Torn(p, t) /\ acts'[t] = proc[p].snap[t]
  <2>1. proc[p].pc = "retest" /\ t \in proc[p].todo
    BY <1>2 DEF RetestPut
  <2>2. \A q \in Procs \ {p} : t \notin proc[q].held
    BY <1>2 DEF Torn
  <2> QED BY <1>1, <1>2, <2>1, <2>2 DEF Firm
<1>3. CASE PersistPut(p, t) /\ acts'[t] = Replaced(p, t)
  <2>1. t \in proc[p].held
    BY <1>3 DEF PersistPut
  <2> QED BY <1>1, <1>3, <2>1, ReplacedIs DEF Firm
<1>4. CASE acts'[t] = acts[t]
  BY <1>4
<1>5. \/ acts'[t] = acts[t]
      \/ RetestPut(p, t) /\ mishaps' = mishaps \cup Torn(p, t) /\ acts'[t] = proc[p].snap[t]
      \/ PersistPut(p, t) /\ acts'[t] = Replaced(p, t)
  BY StepPuts
<1> QED BY <1>2, <1>3, <1>4, <1>5

LEMMA NewPutsAreFirm ==
  ASSUME TypeOK, Shaped, Dated, Firm, NEW p \in Procs, Steps(p), "torn" \notin mishaps'
  PROVE  /\ \A t \in proc'[p].held : proc'[p].fresh.verAt = acts'[t].verAt
         /\ proc'[p].pc = "retest" => \A t \in proc'[p].todo : acts'[t].verAt < proc'[p].snap[t].verAt
<1>1. "torn" \notin mishaps /\ proc'[p].held \subseteq Tickets /\ proc'[p].todo \subseteq Tickets
  BY StepLeaves, StepMoves DEF Moved, Proc
<1>2. ASSUME NEW t \in proc'[p].held
      PROVE  proc'[p].fresh.verAt = acts'[t].verAt
  <2>1. PersistGet(p, t) /\ proc'[p].fresh = acts[t]
    BY <1>1, <1>2, HeldCopies
  <2> QED BY <2>1 DEF PersistGet
<1>3. ASSUME proc'[p].pc = "retest", NEW t \in proc'[p].todo
      PROVE  acts'[t].verAt < proc'[p].snap[t].verAt
  <2>1. CASE RetestList(p)
    <3>1. clock' = clock + 1 /\ proc'[p].snap[t].verAt = clock'
      BY <1>3, <2>1, RetestListIs DEF Shaped
    <3>2. UNCHANGED acts
      BY <2>1 DEF RetestList
    <3>3. acts[t].verAt \in Int /\ acts[t].verAt <= clock /\ clock \in Int
      BY <1>1, KnownIs, KnownTypes, NextLeaves DEF Dated, Next
    <3> QED BY <3>1, <3>2, <3>3
  <2>2. CASE SyncList(p)
    BY <1>3, <2>2, SyncListIs, IdleShape
  <2>3. ASSUME NEW u \in Tickets, RetestPut(p, u)
        PROVE  acts'[t].verAt < proc'[p].snap[t].verAt
    <3>1. proc[p].pc = "retest" /\ proc'[p].todo = proc[p].todo \ {u} /\ proc'[p].snap = proc[p].snap
      BY <1>3, <2>3, RetestPutIs, IdleShape
    <3>2. acts'[t] = acts[t]
      BY <1>1, <1>3, <2>3, <3>1 DEF RetestPut, TypeOK
    <3> QED BY <1>1, <1>3, <3>1, <3>2 DEF Firm
  <2>4. ASSUME NEW u \in Tickets, NEW ref \in Ref, proc[p].pc = "read", Handled(p, u, ref)
        PROVE  FALSE
    BY <1>3, <2>4, HandledIs
  <2>5. ASSUME NEW u \in Tickets, Read(p, u) \/ ReadFails(p, u)
        PROVE  FALSE
    <3>1. proc[p].snap[u].ref \in Ref
      BY CopyTypes DEF Action
    <3> QED BY <2>4, <2>5, <3>1, ReadIs DEF ReadFails
  <2>6. ASSUME NEW u \in Tickets, PersistGet(p, u) \/ PersistPut(p, u) \/ PersistFails(p, u)
        PROVE  FALSE
    BY <1>3, <2>6, PersistGetIs, PersistedIs, IdleShape DEF PersistPut, PersistFails
  <2> QED BY <2>1, <2>2, <2>3, <2>5, <2>6 DEF Steps
<1> QED BY <1>2, <1>3

LEMMA FirmStep ==
  ASSUME OnePass, TypeOK, Shaped, Dated, Firm, [Next]_vars
  PROVE  Firm' /\ ("torn" \notin mishaps' => \A t \in Tickets : acts'[t].verAt >= acts[t].verAt)
<1>0. \A t \in Tickets : acts[t].verAt \in Int
  BY KnownIs, KnownTypes
<1>1. SUFFICES ASSUME "torn" \notin mishaps'
               PROVE  /\ \A q \in Procs :
                           /\ \A t \in proc'[q].held : proc'[q].fresh.verAt = acts'[t].verAt
                           /\ proc'[q].pc = "retest" => \A t \in proc'[q].todo : acts'[t].verAt < proc'[q].snap[t].verAt
                      /\ \A t \in Tickets : acts'[t].verAt >= acts[t].verAt
  BY DEF Firm
<1>2. "torn" \notin mishaps /\ \A q \in Procs : proc[q].held \subseteq Tickets /\ proc[q].todo \subseteq Tickets
  <2>1. \A q \in Procs : proc[q] \in Proc
    BY DEF TypeOK
  <2>2. \A q \in Procs : proc[q].held \subseteq Tickets /\ proc[q].todo \subseteq Tickets
    BY <2>1 DEF Proc
  <2> QED BY <1>1, <2>2, NextLeaves
<1>3. /\ \A q \in Procs : \A t \in proc[q].held : proc[q].fresh.verAt = acts[t].verAt
      /\ \A q \in Procs : proc[q].pc = "retest" => \A t \in proc[q].todo : acts[t].verAt < proc[q].snap[t].verAt
  BY <1>2 DEF Firm
<1>4. ASSUME UNCHANGED proc, \A t \in Tickets : acts'[t].verAt = acts[t].verAt
      PROVE  /\ \A q \in Procs :
                  /\ \A t \in proc'[q].held : proc'[q].fresh.verAt = acts'[t].verAt
                  /\ proc'[q].pc = "retest" => \A t \in proc'[q].todo : acts'[t].verAt < proc'[q].snap[t].verAt
             /\ \A t \in Tickets : acts'[t].verAt >= acts[t].verAt
  BY <1>0, <1>2, <1>3, <1>4
<1>5. ASSUME NEW p \in Procs, Steps(p)
      PROVE  /\ \A q \in Procs :
                  /\ \A t \in proc'[q].held : proc'[q].fresh.verAt = acts'[t].verAt
                  /\ proc'[q].pc = "retest" => \A t \in proc'[q].todo : acts'[t].verAt < proc'[q].snap[t].verAt
             /\ \A t \in Tickets : acts'[t].verAt >= acts[t].verAt
  <2>1. \A t \in Tickets :
          \/ acts'[t].verAt = acts[t].verAt
          \/ /\ RetestPut(p, t) /\ proc[p].pc = "retest" /\ acts[t].verAt < acts'[t].verAt
             /\ \A q \in Procs \ {p} : t \notin proc[q].held
    BY <1>1, <1>5, PutsNewer
  <2>2. \A t \in Tickets : acts'[t].verAt \in Int
    <3>1. acts' \in [Tickets -> Action]
      BY <1>5, StepPuts
    <3> QED BY <3>1, TicketAssumption DEF Action, Time
  <2>3. \A t \in Tickets : acts'[t].verAt >= acts[t].verAt
    BY <1>0, <2>1, <2>2
  <2>4. ASSUME NEW q \in Procs \ {p}
        PROVE  /\ \A t \in proc'[q].held : proc'[q].fresh.verAt = acts'[t].verAt
               /\ proc'[q].pc = "retest" => \A t \in proc'[q].todo : acts'[t].verAt < proc'[q].snap[t].verAt
    <3>1. proc'[q] = proc[q]
      BY <1>5, <2>4, StepMoves DEF Moved
    <3>2. \A t \in proc[q].held : acts'[t].verAt = acts[t].verAt
      BY <1>2, <2>1, <2>4
    <3>3. proc[q].pc = "retest" => proc[p].pc # "retest"
      BY <2>4 DEF Shaped, OnePass
    <3> QED BY <1>2, <1>3, <2>1, <2>4, <3>1, <3>2, <3>3
  <2> QED BY <1>1, <1>5, <2>3, <2>4, NewPutsAreFirm
<1>6. ASSUME NEW u \in Tickets, File(u)
      PROVE  UNCHANGED proc /\ \A t \in Tickets : acts'[t].verAt = acts[t].verAt
  BY <1>6 DEF File, TypeOK, Action
<1>7. ASSUME NEW u \in Tickets, Close(u) \/ Reopen(u)
      PROVE  UNCHANGED <<acts, proc>>
  BY <1>7 DEF Close, Reopen
<1>8. CASE UNCHANGED vars
  BY <1>4, <1>8 DEF vars
<1> QED BY <1>4, <1>5, <1>6, <1>7, <1>8 DEF Next

(* Writing a ticket back never undoes a verification: putSynced re-reads   *)
(* the action, and only another put between the two can lose a verdict.    *)
(* The full passes of a customer must not overlap.                         *)
THEOREM VerdictsAreKept == ASSUME OnePass PROVE Spec => VerdictKept
<1> DEFINE Inv == TypeOK /\ Shaped /\ Single /\ Dated /\ Firm
           Step == \A t \in Tickets : "torn" \notin mishaps' => acts'[t].verAt >= acts[t].verAt
<1>1. Init => Inv
  <2> SUFFICES ASSUME Init
               PROVE  Inv
    OBVIOUS
  <2>1. Firm
    BY IdleShape DEF Firm, Init
  <2> QED BY <2>1, DatedInit, ShapeInit
<1>2. Inv /\ [Next]_vars => Inv' /\ Step
  BY ShapeStep, DatedStep, FirmStep
<1>3. [][Step]_vars => VerdictKept
  BY DEF VerdictKept
<1> QED BY <1>1, <1>2, <1>3, PTL DEF Spec

-----------------------------------------------------------------------------
(* Nothing is said twice.                                                  *)

(* What was last said on the ticket is what this copy of it records.       *)
Says(said, done, r) ==
  /\ said = "fixed" => r.notified = "fixed"
  /\ said = "still_present" => done /\ r.resolved /\ r.notified = "still_present"

(* The newest copy is the goroutine's until it has put it back.            *)
Told ==
  /\ repeated = {}
  /\ mishaps = {} => \A t \in Tickets :
       /\ (\A p \in Procs : t \notin proc[p].got) => Says(spoken[t], tracker[t].done, acts[t].ref)
       /\ \A p \in Procs : t \in proc[p].got => Says(spoken[t], tracker[t].done, proc[p].snap[t].ref)

LEMMA WordIsNew ==
  ASSUME TypeOK, Shaped, Single, Told, NEW p \in Procs, NEW t \in Tickets, Read(p, t), mishaps = {}
  PROVE  /\ repeated' = {} /\ \A u \in Tickets \ {t} : spoken'[u] = spoken[u]
         /\ mishaps' = {} => Says(spoken'[t], tracker[t].done, proc'[p].snap[t].ref)
<1>1. proc[p].pc = "read" /\ t \in proc[p].todo
  BY ReadIs
<1>2. PICK ref \in Ref : Handled(p, t, ref) /\ Viewed(p, t, ref) /\ Spoke(p, t, ref)
  BY ReadIs
<1>3. proc'[p].snap[t].ref = ref
  BY <1>1, <1>2, HandledIs
<1>4. "overlap" \notin mishaps
  OBVIOUS
<1>5. proc[p].snap[t].ref = acts[t].ref
  BY <1>1, <1>4 DEF Single
<1>6. \A q \in Procs : t \notin proc[q].got
  <2>1. t \notin proc[p].got
    BY <1>1 DEF Shaped
  <2>2. ASSUME NEW q \in Procs, q # p
        PROVE  t \notin proc[q].got
    <3>1. proc[q].pc = "idle"
      BY <1>1, <1>4, <2>2 DEF Single
    <3> QED BY <3>1 DEF Shaped
  <2> QED BY <2>1, <2>2
<1>7. Says(spoken[t], tracker[t].done, acts[t].ref) /\ repeated = {}
  BY <1>6 DEF Told
<1>8. spoken[t] = "fixed" => Heard(p, t) = "fixed"
  BY <1>5, <1>7 DEF Says, Heard
<1>9. spoken[t] = "still_present" => tracker[t].done /\ Heard(p, t) = "still_present"
  BY <1>5, <1>7 DEF Says, Heard
<1>10. ref.resolved = tracker[t].done
  BY <1>2 DEF Viewed
<1>11. CASE ref.notified = Heard(p, t) /\ UNCHANGED <<spoken, repeated, mishaps>>
  BY <1>3, <1>7, <1>8, <1>9, <1>10, <1>11 DEF Says
<1>12. CASE mishaps' = mishaps \cup {"comment"} /\ UNCHANGED <<spoken, repeated>>
  BY <1>7, <1>12
<1>13. ASSUME NEW o \in {"fixed", "still_present"}, Heard(p, t) # o, o = "still_present" => tracker[t].done, Posted(t, o),
              (ref.notified = o /\ UNCHANGED mishaps) \/ mishaps' = mishaps \cup {"comment"}
       PROVE  /\ repeated' = {} /\ \A u \in Tickets \ {t} : spoken'[u] = spoken[u]
              /\ mishaps' = {} => Says(spoken'[t], tracker[t].done, proc'[p].snap[t].ref)
  <2>1. spoken'[t] = o /\ \A u \in Tickets \ {t} : spoken'[u] = spoken[u]
    BY <1>13 DEF Posted, TypeOK
  <2>2. spoken[t] # o
    BY <1>8, <1>9, <1>13
  <2>3. repeated' = {}
    BY <1>7, <1>13, <2>2 DEF Posted
  <2>4. mishaps' = {} => ref.notified = o
    BY <1>13
  <2> QED BY <1>3, <1>10, <1>13, <2>1, <2>3, <2>4 DEF Says
<1> QED BY <1>2, <1>11, <1>12, <1>13 DEF Spoke

LEMMA OthersRepeatNothing ==
  ASSUME TypeOK, Told, NEW p \in Procs, Steps(p), mishaps # {} \/ \A t \in Tickets : ~Read(p, t)
  PROVE  repeated' = {} /\ (mishaps = {} => UNCHANGED spoken)
<1>1. repeated = {}
  BY DEF Told
<1>2. CASE \A t \in Tickets : ~Read(p, t)
  <2>1. UNCHANGED <<spoken, repeated>>
    BY <1>2 DEF Steps, RetestList, SyncList, RetestPut, ReadFails, PersistGet, PersistPut, PersistFails
  <2> QED BY <1>1, <2>1
<1>3. ASSUME mishaps # {}, NEW t \in Tickets, Read(p, t)
      PROVE  repeated' = {}
  <2>1. PICK ref \in Ref : Spoke(p, t, ref)
    BY <1>3, ReadIs
  <2> QED BY <1>1, <1>3, <2>1 DEF Spoke, Posted
<1>4. CASE \E t \in Tickets : Read(p, t)
  BY <1>3, <1>4
<1> QED BY <1>2, <1>4

LEMMA ToldStepBy ==
  ASSUME TypeOK, Shaped, Single, Told, NEW p \in Procs, Steps(p)
  PROVE  Told'
<1>1. repeated' = {}
  <2>1. CASE mishaps = {} /\ \E t \in Tickets : Read(p, t)
    BY <2>1, WordIsNew
  <2> QED BY <2>1, OthersRepeatNothing
<1> SUFFICES ASSUME mishaps' = {}, NEW t \in Tickets
             PROVE  /\ (\A q \in Procs : t \notin proc'[q].got) => Says(spoken'[t], tracker'[t].done, acts'[t].ref)
                    /\ \A q \in Procs : t \in proc'[q].got => Says(spoken'[t], tracker'[t].done, proc'[q].snap[t].ref)
  BY <1>1 DEF Told
<1>2. mishaps = {} /\ tracker' = tracker
  BY StepLeaves
<1>3. \A q \in Procs \ {p} : proc[q].pc = "idle" /\ proc'[q] = proc[q] /\ proc[q].got = {}
  BY <1>2, AloneNow DEF Shaped
<1>4. /\ t \notin proc[p].got => Says(spoken[t], tracker[t].done, acts[t].ref)
      /\ t \in proc[p].got => Says(spoken[t], tracker[t].done, proc[p].snap[t].ref)
  BY <1>2, <1>3 DEF Told
<1>5. SUFFICES /\ t \notin proc'[p].got => Says(spoken'[t], tracker[t].done, acts'[t].ref)
               /\ t \in proc'[p].got => Says(spoken'[t], tracker[t].done, proc'[p].snap[t].ref)
  BY <1>2, <1>3
<1>6. CASE RetestList(p) \/ SyncList(p)
  <2>1. UNCHANGED <<acts, spoken>>
    BY <1>6 DEF RetestList, SyncList
  <2>2. proc[p].got = {} /\ proc'[p].got = {}
    BY <1>6, RetestListIs, SyncListIs, IdleShape DEF Shaped
  <2> QED BY <1>4, <2>1, <2>2
<1>7. ASSUME NEW u \in Tickets, RetestPut(p, u)
      PROVE  /\ t \notin proc'[p].got => Says(spoken'[t], tracker[t].done, acts'[t].ref)
             /\ t \in proc'[p].got => Says(spoken'[t], tracker[t].done, proc'[p].snap[t].ref)
  <2>1. proc[p].pc = "retest" /\ u \in proc[p].todo /\ proc[p].got = {} /\ proc'[p].got = {}
    BY <1>7, RetestPutIs, IdleShape DEF Shaped
  <2>2. UNCHANGED spoken /\ (acts'[t] = acts[t] \/ (t = u /\ acts'[t] = proc[p].snap[u]))
    BY <1>7 DEF RetestPut, TypeOK
  <2>3. acts'[t].ref = acts[t].ref
    BY <1>2, <2>1, <2>2 DEF Single
  <2> QED BY <1>4, <2>1, <2>2, <2>3
<1>8. ASSUME NEW u \in Tickets, Read(p, u)
      PROVE  /\ t \notin proc'[p].got => Says(spoken'[t], tracker[t].done, acts'[t].ref)
             /\ t \in proc'[p].got => Says(spoken'[t], tracker[t].done, proc'[p].snap[t].ref)
  <2>1. PICK ref \in Ref : Handled(p, u, ref)
    BY <1>8, ReadIs
  <2>2. proc[p].pc = "read" /\ UNCHANGED acts
    BY <1>8 DEF Read
  <2>3. proc'[p].got = proc[p].got \cup {u} /\ \A v \in Tickets \ {u} : proc'[p].snap[v] = proc[p].snap[v]
    BY <2>1, <2>2, HandledIs
  <2>4. CASE t = u
    <3>1. t \in proc'[p].got
      BY <2>3, <2>4
    <3> QED BY <1>2, <1>8, <2>4, <3>1, WordIsNew
  <2>5. CASE t # u
    <3>1. spoken'[t] = spoken[t]
      BY <1>2, <1>8, <2>5, WordIsNew
    <3> QED BY <1>4, <2>2, <2>3, <2>5, <3>1
  <2> QED BY <2>4, <2>5
<1>9. ASSUME NEW u \in Tickets, ReadFails(p, u) \/ PersistFails(p, u)
      PROVE  FALSE
  <2>1. mishaps' # {}
    BY <1>9 DEF ReadFails, PersistFails, Mishap
  <2> QED BY <2>1
<1>10. ASSUME NEW u \in Tickets, PersistGet(p, u)
       PROVE  /\ t \notin proc'[p].got => Says(spoken'[t], tracker[t].done, acts'[t].ref)
              /\ t \in proc'[p].got => Says(spoken'[t], tracker[t].done, proc'[p].snap[t].ref)
  <2>1. UNCHANGED <<acts, spoken>>
    BY <1>10 DEF PersistGet
  <2> QED BY <1>4, <1>10, <2>1, PersistGetIs
<1>11. ASSUME NEW u \in Tickets, PersistPut(p, u)
       PROVE  /\ t \notin proc'[p].got => Says(spoken'[t], tracker[t].done, acts'[t].ref)
              /\ t \in proc'[p].got => Says(spoken'[t], tracker[t].done, proc'[p].snap[t].ref)
  <2>1. UNCHANGED spoken /\ Persisted(p, u) /\ u \in proc[p].got
    BY <1>11 DEF PersistPut, Shaped
  <2>2. acts'[u].ref = proc[p].snap[u].ref /\ (t # u => acts'[t] = acts[t])
    BY <1>11, ReplacedIs DEF PersistPut, TypeOK
  <2>3. /\ proc'[p].got = proc[p].got \ {u}
        /\ t # u /\ t \in proc'[p].got => proc'[p].snap[t] = proc[p].snap[t]
    BY <2>1, PersistedIs, IdleShape
  <2> QED BY <1>4, <2>1, <2>2, <2>3
<1> QED BY <1>6, <1>7, <1>8, <1>9, <1>10, <1>11 DEF Steps

LEMMA ToldStep ==
  ASSUME TypeOK, Shaped, Single, Told, [Next]_vars
  PROVE  Told'
<1>1. CASE UNCHANGED vars
  BY <1>1 DEF vars, Told
<1>2. ASSUME NEW u \in Tickets, File(u)
      PROVE  Told'
  <2>1. \A t \in Tickets : acts'[t].ref = acts[t].ref
    BY <1>2 DEF File, TypeOK, Action
  <2> QED BY <1>2, <2>1 DEF File, Told
<1>3. ASSUME NEW u \in Tickets, Close(u)
      PROVE  Told'
  <2>1. \A t \in Tickets : tracker[t].done => tracker'[t].done
    BY <1>3 DEF Close, TypeOK
  <2>2. UNCHANGED <<acts, proc, mishaps, spoken, repeated>>
    BY <1>3 DEF Close
  <2> QED BY <2>1, <2>2 DEF Told, Says
<1>4. ASSUME NEW u \in Tickets, Reopen(u)
      PROVE  Told'
  <2>1. /\ spoken'[u] # "still_present" /\ spoken'[u] \in {spoken[u], "none"}
        /\ \A t \in Tickets \ {u} : spoken'[t] = spoken[t] /\ tracker'[t] = tracker[t]
    BY <1>4 DEF Reopen, TypeOK
  <2>2. UNCHANGED <<acts, proc, mishaps, repeated>>
    BY <1>4 DEF Reopen
  <2> QED BY <2>1, <2>2 DEF Told, Says
<1> QED BY <1>1, <1>2, <1>3, <1>4, ToldStepBy DEF Next

(* A ticket is not told twice in a row the same thing about the same       *)
(* close: CommentFor compares with what the store holds, which is what was *)
(* last posted while no sync overlaps and nothing fails.                   *)
THEOREM NothingSaidTwice == Spec => []PostedOnce
<1> DEFINE Inv == TypeOK /\ Shaped /\ Single /\ Told
<1>1. Init => Inv
  <2> SUFFICES ASSUME Init
               PROVE  Inv
    OBVIOUS
  <2>1. repeated = {} /\ \A t \in Tickets : spoken[t] = "none"
    BY DEF Init
  <2>2. Told
    BY <2>1 DEF Told, Says
  <2> QED BY <2>2, ShapeInit
<1>2. Inv /\ [Next]_vars => Inv'
  BY ShapeStep, ToldStep
<1>3. Inv => PostedOnce
  BY DEF Told, PostedOnce
<1> QED BY <1>1, <1>2, <1>3, PTL DEF Spec

-----------------------------------------------------------------------------
(* Every ticket gets its turn.                                             *)

(* The tickets that are being read; those read, or being read, since t was. *)
Syncing == {u \in Tickets : \E p \in Procs : proc[p].pc \in {"read", "persist"} /\ u \in proc[p].todo \cup proc[p].got}
Ahead == [t \in Tickets |-> {u \in Tickets : acts[u].ref.synced > acts[t].ref.synced} \cup Syncing]

(* Each time t was passed over, MaxReads others went ahead of it for good. *)
Overtaken ==
  /\ \A p \in Procs : \A t \in proc[p].got : proc[p].snap[t].ref.synced = proc[p].now
  /\ \A t \in Tickets : waits[t] > 0 =>
       /\ t \notin Syncing
       /\ \A p \in Procs : proc[p].pc \in {"read", "persist"} => acts[t].ref.synced < proc[p].now
       /\ waits[t] * MaxReads <= Cardinality(Ahead[t])

Turns == (mishaps \subseteq {"comment"} => Overtaken) /\ TurnComes

LEMMA AheadIsSmall ==
  ASSUME NEW t \in Tickets, NEW S \in SUBSET (Tickets \ {t})
  PROVE  /\ IsFiniteSet(S) /\ Cardinality(S) \in Nat /\ Cardinality(S) <= Cardinality(Tickets) - 1
         /\ Cardinality(Tickets) \in Nat /\ 0 <= Cardinality(Tickets) - 1
<1>1. IsFiniteSet(Tickets) /\ Cardinality(Tickets) \in Nat
  BY TicketAssumption, FS_CardinalityType
<1>2. IsFiniteSet(Tickets \ {t}) /\ Cardinality(Tickets \ {t}) = Cardinality(Tickets) - 1
  BY <1>1, FS_RemoveElement
<1>3. IsFiniteSet(S) /\ Cardinality(S) <= Cardinality(Tickets \ {t})
  BY <1>2, FS_Subset
<1>4. Cardinality(S) \in Nat /\ Cardinality(Tickets \ {t}) \in Nat
  BY <1>2, <1>3, FS_CardinalityType
<1> QED BY <1>1, <1>2, <1>3, <1>4

LEMMA AheadIsOthers ==
  ASSUME TypeOK, NEW t \in Tickets, t \notin Syncing
  PROVE  Ahead[t] \in SUBSET (Tickets \ {t}) /\ acts[t].ref.synced \in Int
<1>1. acts[t].ref.synced \in Int
  BY KnownIs, KnownTypes
<1>2. t \notin {u \in Tickets : acts[u].ref.synced > acts[t].ref.synced}
  BY <1>1
<1> QED BY <1>1, <1>2 DEF Ahead, Syncing

(* Overtaken stays when nothing is listed and nobody falls back. *)
LEMMA OvertakenStays ==
  ASSUME TypeOK, TypeOK', Overtaken, waits' = waits,
         \A p \in Procs : \A t \in proc'[p].got : proc'[p].snap[t].ref.synced = proc'[p].now,
         Syncing' \subseteq Syncing,
         \A p \in Procs : proc'[p].pc \in {"read", "persist"} => proc[p].pc \in {"read", "persist"} /\ proc'[p].now = proc[p].now,
         \A t \in Tickets \ Syncing : acts'[t].ref.synced = acts[t].ref.synced,
         \A t \in Tickets \ Syncing : waits[t] > 0 => Ahead[t] \subseteq Ahead'[t]
  PROVE  Overtaken'
<1> SUFFICES ASSUME NEW t \in Tickets, waits[t] > 0
             PROVE  /\ t \notin Syncing'
                    /\ \A p \in Procs : proc'[p].pc \in {"read", "persist"} => acts'[t].ref.synced < proc'[p].now
                    /\ waits[t] * MaxReads <= Cardinality(Ahead'[t])
  BY DEF Overtaken
<1>1. t \notin Syncing /\ t \notin Syncing' /\ acts'[t].ref.synced = acts[t].ref.synced
  BY DEF Overtaken
<1>2. \A p \in Procs : proc'[p].pc \in {"read", "persist"} => acts'[t].ref.synced < proc'[p].now
  BY <1>1 DEF Overtaken
<1>3. Ahead'[t] \in SUBSET (Tickets \ {t})
  <2>1. acts'[t].ref.synced \in Int
    BY <1>1, AheadIsOthers
  <2>2. t \notin {u \in Tickets : acts'[u].ref.synced > acts'[t].ref.synced}
    BY <2>1
  <2> QED BY <1>1, <2>2 DEF Ahead, Syncing
<1>4. Ahead[t] \subseteq Ahead'[t] /\ IsFiniteSet(Ahead'[t]) /\ Cardinality(Ahead'[t]) \in Nat
  BY <1>1, <1>3, AheadIsSmall
<1>5. Cardinality(Ahead[t]) <= Cardinality(Ahead'[t]) /\ Cardinality(Ahead[t]) \in Nat
  BY <1>4, FS_Subset, FS_CardinalityType
<1>6. waits[t] * MaxReads <= Cardinality(Ahead[t])
  BY DEF Overtaken
<1>7. waits[t] * MaxReads \in Nat
  BY TicketAssumption DEF TypeOK
<1> QED BY <1>1, <1>2, <1>4, <1>5, <1>6, <1>7

LEMMA NobodySyncing ==
  ASSUME TypeOK, Shaped, Single, NEW p \in Procs, Steps(p), "overlap" \notin mishaps', proc[p].pc \in {"idle", "sync", "retest"}
  PROVE  Syncing = {}
<1>1. \A q \in Procs : proc[q].pc \notin {"read", "persist"}
  BY AloneNow
<1> QED BY <1>1 DEF Syncing

LEMMA ListedInTurn ==
  ASSUME TypeOK, TypeOK', Shaped, Single, Dated, mishaps \subseteq {"comment"} => Overtaken,
         NEW p \in Procs, SyncList(p), mishaps' \subseteq {"comment"}
  PROVE  Overtaken'
<1> DEFINE batch == proc'[p].todo
<1>1. Steps(p) /\ "overlap" \notin mishaps' /\ mishaps \subseteq mishaps' /\ UNCHANGED acts /\ Serial
  BY StepLeaves DEF Steps, SyncList, Serial
<1>2. Overtaken /\ \A q \in Procs \ {p} : proc[q].pc = "idle" /\ proc'[q] = proc[q]
  BY <1>1, AloneNow
<1>3. /\ proc[p].pc \in {"idle", "sync"} /\ clock' = clock + 1
      /\ Selected(acts, batch)
      /\ waits' = [t \in Tickets |-> IF Serial /\ t \in Due(acts) \ batch THEN waits[t] + 1 ELSE 0]
      /\ \/ proc'[p] = Idle
         \/ proc'[p].pc = "read" /\ proc'[p].got = {} /\ proc'[p].now = clock'
  BY SyncListIs
<1>4. Syncing = {}
  BY <1>1, <1>3, NobodySyncing
<1>5. Syncing' = batch /\ batch \subseteq Tickets
  <2>1. batch \subseteq Tickets
    BY <1>3 DEF Selected, Due
  <2>2. \A q \in Procs \ {p} : proc'[q].pc \notin {"read", "persist"}
    BY <1>2
  <2>3. \A u \in Tickets : u \in batch <=> proc'[p].pc \in {"read", "persist"} /\ u \in proc'[p].todo \cup proc'[p].got
    BY <1>3, IdleShape
  <2> QED BY <2>1, <2>2, <2>3 DEF Syncing
<1>6. \A q \in Procs : proc'[q].got = {}
  BY <1>2, <1>3, IdleShape DEF Shaped
<1> HIDE DEF batch
<1>7. ASSUME NEW t \in Tickets, waits'[t] > 0
      PROVE  /\ t \notin Syncing'
             /\ \A q \in Procs : proc'[q].pc \in {"read", "persist"} => acts'[t].ref.synced < proc'[q].now
             /\ waits'[t] * MaxReads <= Cardinality(Ahead'[t])
  <2>1. t \in Due(acts) \ batch /\ waits'[t] = waits[t] + 1
    BY <1>1, <1>3, <1>7
  <2>2. t \notin Syncing'
    BY <1>5, <2>1
  <2>3. acts[t].ref.synced <= clock /\ acts[t].ref.synced \in Int /\ clock \in Int
    BY <1>1, KnownIs, KnownTypes, NextLeaves DEF Dated, Next
  <2>4. \A q \in Procs : proc'[q].pc \in {"read", "persist"} => acts'[t].ref.synced < proc'[q].now
    BY <1>1, <1>2, <1>3, <2>3, IdleShape
  <2>5. Cardinality(batch) = MaxReads
    BY <1>3, <2>1 DEF Selected
  <2>6. Ahead'[t] = Ahead[t] \cup batch
    BY <1>1, <1>4, <1>5 DEF Ahead
  <2>7. Ahead[t] \in SUBSET (Tickets \ {t}) /\ batch \in SUBSET (Tickets \ {t}) /\ Ahead'[t] \in SUBSET (Tickets \ {t})
    BY <1>4, <1>5, <2>1, <2>6, AheadIsOthers
  <2>8. /\ IsFiniteSet(Ahead[t]) /\ IsFiniteSet(batch) /\ IsFiniteSet(Ahead'[t])
        /\ Cardinality(Ahead[t]) \in Nat /\ Cardinality(Ahead'[t]) \in Nat
    BY <2>7, AheadIsSmall
  <2>9. Ahead[t] \cap batch = {}
    <3>1. \A u \in batch : acts[u].ref.synced <= acts[t].ref.synced /\ u \in Tickets
      BY <1>3, <1>5, <2>1 DEF Selected
    <3>2. \A u \in batch : acts[u].ref.synced \in Int
      BY <3>1, KnownIs, KnownTypes
    <3> QED BY <1>4, <2>3, <3>1, <3>2 DEF Ahead
  <2>10. Cardinality(Ahead'[t]) = Cardinality(Ahead[t]) + MaxReads
    <3>1. Cardinality(Ahead[t] \cup batch) = Cardinality(Ahead[t]) + Cardinality(batch) - Cardinality(Ahead[t] \cap batch)
      BY <2>8, FS_Union
    <3>2. Cardinality(Ahead[t] \cap batch) = 0
      BY <2>9, FS_EmptySet
    <3> QED BY <2>5, <2>6, <2>8, <3>1, <3>2, TicketAssumption
  <2>11. waits[t] \in Nat /\ MaxReads \in Nat
    BY TicketAssumption DEF TypeOK
  <2>12. waits[t] * MaxReads <= Cardinality(Ahead[t])
    <3>1. CASE waits[t] = 0
      <4>1. waits[t] * MaxReads = 0
        BY <2>11, <3>1
      <4> QED BY <2>8, <4>1
    <3>2. CASE waits[t] > 0
      BY <1>2, <3>2 DEF Overtaken
    <3> QED BY <2>11, <3>1, <3>2
  <2>13. waits'[t] * MaxReads = waits[t] * MaxReads + MaxReads
    BY <2>1, <2>11
  <2>14. waits[t] * MaxReads \in Nat
    BY <2>11
  <2> QED BY <2>2, <2>4, <2>8, <2>10, <2>11, <2>12, <2>13, <2>14
<1> QED BY <1>6, <1>7 DEF Overtaken

LEMMA TurnsStepBy ==
  ASSUME TypeOK, TypeOK', Shaped, Single, Overtaken, NEW p \in Procs, Steps(p), ~SyncList(p), mishaps' \subseteq {"comment"}
  PROVE  Overtaken'
<1>1. /\ waits' = waits /\ \A u \in Tickets : ~ReadFails(p, u) /\ ~PersistFails(p, u)
  <2>1. \A u \in Tickets : ~ReadFails(p, u) /\ ~PersistFails(p, u)
    BY DEF ReadFails, PersistFails, Mishap
  <2> QED BY <2>1 DEF Steps, RetestList, RetestPut, Read, PersistGet, PersistPut
<1>2. "overlap" \notin mishaps /\ \A q \in Procs \ {p} : proc[q].pc = "idle" /\ proc'[q] = proc[q] /\ proc[q].got = {}
  BY AloneNow DEF Shaped
<1>3. \A q \in Procs : \A t \in proc[q].got : proc[q].snap[t].ref.synced = proc[q].now
  BY DEF Overtaken
<1>4. \A q \in Procs : proc[q] \in Proc /\ proc[q].got \subseteq Tickets /\ proc[q].todo \subseteq Tickets
  BY DEF TypeOK, Proc
<1>5. ASSUME \A t \in Tickets : acts'[t].ref = acts[t].ref, Syncing' = Syncing,
             proc'[p].pc \in {"read", "persist"} => proc[p].pc \in {"read", "persist"} /\ proc'[p].now = proc[p].now,
             \A t \in proc'[p].got : proc'[p].snap[t].ref.synced = proc'[p].now
      PROVE  Overtaken'
  <2>1. Ahead' = Ahead
    BY <1>5 DEF Ahead
  <2>2. \A q \in Procs : \A t \in proc'[q].got : proc'[q].snap[t].ref.synced = proc'[q].now
    BY <1>2, <1>5
  <2>3. \A q \in Procs : proc'[q].pc \in {"read", "persist"} => proc[q].pc \in {"read", "persist"} /\ proc'[q].now = proc[q].now
    BY <1>2, <1>5
  <2> QED BY <1>1, <1>5, <2>1, <2>2, <2>3, OvertakenStays
<1>6. ASSUME proc[p].pc \in {"idle", "sync", "retest"}, proc'[p].pc \in {"idle", "sync", "retest"}, proc'[p].got = {},
             \A t \in Tickets : acts'[t].ref = acts[t].ref
      PROVE  Overtaken'
  <2>1. Syncing = {}
    BY <1>2, <1>6 DEF Syncing
  <2>2. Syncing' = {}
    <3>1. \A q \in Procs : proc'[q].pc \notin {"read", "persist"}
      BY <1>2, <1>6
    <3> QED BY <3>1 DEF Syncing
  <2> QED BY <1>5, <1>6, <2>1, <2>2
<1>7. CASE RetestList(p)
  <2>1. UNCHANGED acts
    BY <1>7 DEF RetestList
  <2>2. proc[p].pc = "idle" /\ proc'[p].pc \in {"sync", "retest"} /\ proc'[p].got = {}
    BY <1>7, RetestListIs DEF Shaped
  <2> QED BY <1>6, <2>1, <2>2
<1>8. ASSUME NEW u \in Tickets, RetestPut(p, u)
      PROVE  Overtaken'
  <2>1. proc[p].pc = "retest" /\ u \in proc[p].todo /\ proc'[p].pc \in {"sync", "retest"} /\ proc'[p].got = {}
    BY <1>8, RetestPutIs, IdleShape DEF Shaped
  <2>2. \A t \in Tickets : acts'[t] = acts[t] \/ (t = u /\ acts'[t] = proc[p].snap[u])
    BY <1>8 DEF RetestPut, TypeOK
  <2>3. \A t \in Tickets : acts'[t].ref = acts[t].ref
    BY <1>2, <2>1, <2>2 DEF Single
  <2> QED BY <1>6, <2>1, <2>3
<1>9. ASSUME NEW u \in Tickets, Read(p, u)
      PROVE  Overtaken'
  <2>1. PICK ref \in Ref : Handled(p, u, ref) /\ Viewed(p, u, ref)
    BY <1>9, ReadIs
  <2>2. proc[p].pc = "read" /\ u \in proc[p].todo /\ UNCHANGED acts
    BY <1>9 DEF Read
  <2>3. /\ proc'[p].todo = proc[p].todo \ {u} /\ proc'[p].got = proc[p].got \cup {u} /\ proc'[p].now = proc[p].now
        /\ proc'[p].pc \in {"read", "persist"} /\ proc'[p].snap[u].ref = ref
        /\ \A v \in Tickets \ {u} : proc'[p].snap[v] = proc[p].snap[v]
    BY <2>1, <2>2, HandledIs
  <2>4. Syncing' = Syncing
    <3>1. proc'[p].todo \cup proc'[p].got = proc[p].todo \cup proc[p].got
      BY <2>2, <2>3
    <3>2. Syncing = proc[p].todo \cup proc[p].got
      BY <1>2, <1>4, <2>2 DEF Syncing
    <3>3. Syncing' = proc'[p].todo \cup proc'[p].got
      BY <1>2, <1>4, <2>3, <3>1 DEF Syncing
    <3> QED BY <3>1, <3>2, <3>3
  <2>5. \A t \in proc'[p].got : proc'[p].snap[t].ref.synced = proc'[p].now
    <3>1. ref.synced = proc[p].now
      BY <2>1 DEF Viewed
    <3> QED BY <1>3, <1>4, <2>3, <3>1
  <2> QED BY <1>5, <2>2, <2>3, <2>4, <2>5
<1>10. ASSUME NEW u \in Tickets, PersistGet(p, u)
       PROVE  Overtaken'
  <2>1. UNCHANGED acts
    BY <1>10 DEF PersistGet
  <2>2. /\ proc[p].pc = "persist" /\ proc'[p].pc = "persist" /\ proc'[p].todo = proc[p].todo /\ proc'[p].got = proc[p].got
        /\ proc'[p].snap = proc[p].snap /\ proc'[p].now = proc[p].now
    BY <1>10, PersistGetIs
  <2>3. Syncing' = Syncing
    <3>1. \A q \in Procs : proc'[q].pc = proc[q].pc /\ proc'[q].todo = proc[q].todo /\ proc'[q].got = proc[q].got
      BY <1>2, <2>2
    <3> QED BY <3>1 DEF Syncing
  <2> QED BY <1>3, <1>5, <2>1, <2>2, <2>3
<1>11. ASSUME NEW u \in Tickets, PersistPut(p, u)
       PROVE  Overtaken'
  <2>1. proc[p].pc = "persist" /\ u \in proc[p].got /\ proc[p].todo = {} /\ Persisted(p, u)
    BY <1>11 DEF PersistPut, Shaped
  <2>2. acts'[u].ref = proc[p].snap[u].ref /\ \A t \in Tickets \ {u} : acts'[t] = acts[t]
    BY <1>11, ReplacedIs DEF PersistPut, TypeOK
  <2>3. acts'[u].ref.synced = proc[p].now
    BY <1>3, <2>1, <2>2
  <2>4. /\ proc'[p].pc \in {"read", "persist"} => proc'[p].now = proc[p].now
        /\ proc'[p].got = proc[p].got \ {u} /\ proc'[p].todo = {}
        /\ \A t \in proc'[p].got : proc'[p].snap[t] = proc[p].snap[t] /\ proc'[p].now = proc[p].now
        /\ proc'[p].got # {} => proc'[p].pc = "persist"
    BY <1>4, <2>1, PersistedIs, IdleShape
  <2>5. Syncing = proc[p].got
    BY <1>2, <1>4, <2>1 DEF Syncing
  <2>6. Syncing' = proc[p].got \ {u}
    <3>1. \A v \in Tickets : (proc'[p].pc \in {"read", "persist"} /\ v \in proc'[p].todo \cup proc'[p].got) <=> v \in proc[p].got \ {u}
      BY <2>4
    <3>2. \A q \in Procs \ {p} : proc'[q].pc \notin {"read", "persist"}
      BY <1>2
    <3> QED BY <1>4, <3>1, <3>2 DEF Syncing
  <2>7. ASSUME NEW t \in Tickets \ Syncing, waits[t] > 0
        PROVE  Ahead[t] \subseteq Ahead'[t]
    <3>1. acts'[t] = acts[t] /\ acts[t].ref.synced < proc[p].now
      BY <2>1, <2>2, <2>5, <2>7 DEF Overtaken
    <3>2. u \in Ahead'[t]
      <4>1. acts'[u].ref.synced > acts'[t].ref.synced
        <5>1. acts[t].ref.synced \in Int /\ proc[p].now \in Int
          BY <1>4, KnownIs, KnownTypes, TicketAssumption DEF Proc, Time
        <5> QED BY <2>3, <3>1, <5>1
      <4> QED BY <4>1 DEF Ahead
    <3>3. ASSUME NEW v \in Tickets \ {u}, v \in Ahead[t]
          PROVE  v \in Ahead'[t]
      BY <2>2, <2>5, <2>6, <3>1, <3>3 DEF Ahead
    <3>4. Ahead[t] \subseteq Tickets
      BY DEF Ahead, Syncing
    <3> QED BY <3>2, <3>3, <3>4
  <2>8. \A t \in Tickets \ Syncing : acts'[t].ref.synced = acts[t].ref.synced
    BY <2>1, <2>2, <2>5
  <2>9. \A q \in Procs : \A t \in proc'[q].got : proc'[q].snap[t].ref.synced = proc'[q].now
    BY <1>2, <1>3, <2>4
  <2>10. \A q \in Procs : proc'[q].pc \in {"read", "persist"} => proc[q].pc \in {"read", "persist"} /\ proc'[q].now = proc[q].now
    BY <1>2, <2>1, <2>4
  <2> QED BY <1>1, <2>5, <2>6, <2>7, <2>8, <2>9, <2>10, OvertakenStays
<1> QED BY <1>1, <1>7, <1>8, <1>9, <1>10, <1>11 DEF Steps

LEMMA OvertakenStep ==
  ASSUME TypeOK, TypeOK', Shaped, Single, Dated, mishaps \subseteq {"comment"} => Overtaken, [Next]_vars
  PROVE  mishaps' \subseteq {"comment"} => Overtaken'
<1> SUFFICES ASSUME mishaps' \subseteq {"comment"}
             PROVE  Overtaken'
  OBVIOUS
<1>1. Overtaken
  BY NextLeaves
<1>2. ASSUME UNCHANGED <<proc, waits>>, \A t \in Tickets : acts'[t].ref = acts[t].ref
      PROVE  Overtaken'
  <2>1. Syncing' = Syncing
    BY <1>2 DEF Syncing
  <2>2. Ahead' = Ahead
    BY <1>2, <2>1 DEF Ahead
  <2> QED BY <1>1, <1>2, <2>1, <2>2, OvertakenStays DEF Overtaken
<1>3. ASSUME NEW u \in Tickets, File(u)
      PROVE  UNCHANGED <<proc, waits>> /\ \A t \in Tickets : acts'[t].ref = acts[t].ref
  BY <1>3 DEF File, TypeOK, Action
<1>4. ASSUME NEW u \in Tickets, Close(u) \/ Reopen(u)
      PROVE  UNCHANGED <<acts, proc, waits>>
  BY <1>4 DEF Close, Reopen
<1>5. CASE UNCHANGED vars
  BY <1>2, <1>5 DEF vars
<1>6. ASSUME NEW p \in Procs, Steps(p)
      PROVE  Overtaken'
  BY <1>1, <1>6, ListedInTurn, TurnsStepBy
<1> QED BY <1>2, <1>3, <1>4, <1>5, <1>6 DEF Next

LEMMA TurnsStep ==
  ASSUME TypeOK, TypeOK', Shaped, Single, Dated, Turns, [Next]_vars
  PROVE  Turns'
<1>1. mishaps' \subseteq {"comment"} => Overtaken'
  BY OvertakenStep DEF Turns
<1>2. SUFFICES ASSUME "read" \notin mishaps', NEW t \in Tickets
               PROVE  waits'[t] * MaxReads <= Cardinality(Tickets) - 1
  BY <1>1 DEF Turns, TurnComes
<1>3. waits' \in [Tickets -> Nat] /\ waits \in [Tickets -> Nat] /\ MaxReads \in Nat
  BY TicketAssumption DEF TypeOK
<1>4. CASE waits'[t] = 0
  <2>1. {} \in SUBSET (Tickets \ {t}) /\ waits'[t] * MaxReads = 0
    BY <1>3, <1>4
  <2>2. 0 <= Cardinality(Tickets) - 1
    BY <2>1, AheadIsSmall
  <2> QED BY <2>1, <2>2
<1>5. CASE mishaps' \subseteq {"comment"} /\ waits'[t] > 0
  <2>1. Overtaken'
    BY <1>1, <1>5
  <2>2. t \notin Syncing' /\ waits'[t] * MaxReads <= Cardinality(Ahead'[t])
    BY <1>5, <2>1 DEF Overtaken
  <2>3. Ahead'[t] \in SUBSET (Tickets \ {t})
    <3>1. (TypeOK /\ t \notin Syncing)' => (Ahead[t] \in SUBSET (Tickets \ {t}))'
      BY AheadIsOthers, PTL
    <3> QED BY <2>2, <3>1
  <2>4. Cardinality(Ahead'[t]) \in Nat /\ Cardinality(Ahead'[t]) <= Cardinality(Tickets) - 1 /\ Cardinality(Tickets) \in Nat
    BY <2>3, AheadIsSmall
  <2>5. waits'[t] * MaxReads \in Nat
    BY <1>3
  <2> QED BY <2>2, <2>4, <2>5
<1>6. CASE waits'[t] = waits[t]
  <2>1. "read" \notin mishaps
    BY <1>2, NextLeaves
  <2> QED BY <1>6, <2>1 DEF Turns, TurnComes
<1>7. waits'[t] = waits[t] \/ waits'[t] = 0 \/ mishaps' \subseteq {"comment"}
  <2>1. ASSUME NEW p \in Procs, SyncList(p)
        PROVE  waits'[t] = 0 \/ Serial
    BY <2>1, SyncListIs
  <2>2. Serial => mishaps' \subseteq {"comment"}
    BY <1>2 DEF Serial
  <2>3. ASSUME NEW p \in Procs, Steps(p), ~SyncList(p)
        PROVE  UNCHANGED waits
    BY <2>3 DEF Steps, RetestList, RetestPut, Read, ReadFails, PersistGet, PersistPut, PersistFails
  <2>4. ASSUME NEW u \in Tickets, File(u) \/ Close(u) \/ Reopen(u)
        PROVE  UNCHANGED waits
    BY <2>4 DEF File, Close, Reopen
  <2> QED BY <2>1, <2>2, <2>3, <2>4 DEF Next, vars
<1> QED BY <1>3, <1>4, <1>5, <1>6, <1>7

(* A bounded sync reaches every ticket: Sync sorts the oldest-read ticket  *)
(* first, so while reads and puts succeed and syncs do not overlap a       *)
(* ticket is passed over at most as often as the others fill a batch.      *)
THEOREM EveryTicketHasItsTurn == Spec => []TurnComes
<1> DEFINE Inv == TypeOK /\ Shaped /\ Single /\ Dated /\ Turns
<1>1. Init => Inv
  <2> SUFFICES ASSUME Init
               PROVE  Inv
    OBVIOUS
  <2>3. Dated
    BY DatedInit
  <2>4. \A t \in Tickets : waits[t] = 0 /\ ~(waits[t] > 0)
    BY DEF Init
  <2>5. Overtaken
    BY <2>4, IdleShape DEF Overtaken, Init
  <2>6. TurnComes
    <3>1. ASSUME NEW t \in Tickets
          PROVE  waits[t] * MaxReads <= Cardinality(Tickets) - 1
      <4>1. {} \in SUBSET (Tickets \ {t}) /\ waits[t] * MaxReads = 0
        BY <2>4, TicketAssumption
      <4> QED BY <4>1, AheadIsSmall
    <3> QED BY <3>1 DEF TurnComes
  <2> QED BY <2>3, <2>5, <2>6, ShapeInit DEF Turns
<1>2. Inv /\ [Next]_vars => Inv'
  BY ShapeStep, DatedStep, TurnsStep
<1>3. Inv => TurnComes
  BY DEF Turns
<1> QED BY <1>1, <1>2, <1>3, PTL DEF Spec
=============================================================================
