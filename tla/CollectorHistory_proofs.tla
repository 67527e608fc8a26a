------------------------ MODULE CollectorHistory_proofs ------------------------
(***************************************************************************)
(* What TLAPS proves of the collector, for every registry, every set of      *)
(* alerts, every choice of horizons and intervals and every deployment:      *)
(*   - program and history keep their types (CollectorTypes);                *)
(*   - of the registry a worker stages its own lane only (WorkersStageOwn);  *)
(* and of a collector that works alone, by one invariant, SweepInv:          *)
(*   - alerts age by when they were last seen (AlertsAgeBySighting);         *)
(*   - a recorded hash stands for stored alerts (HashesStandForStored);      *)
(*   - a dead source is left alone for the interval (DeadSourcesRest).       *)
(***************************************************************************)
EXTENDS CollectorHistory, TLAPS

-----------------------------------------------------------------------------
(* The operators on the table of alerts                                      *)

LEMMA NoAlert == Gone \in Rows /\ Empty \in Tables
  BY DEF Gone, Rows, Statuses, Empty, Tables

LEMMA StatusTyped == ASSUME NEW n \in Int PROVE StatusAtAge(n) \in Statuses \ {"active", "filtered"}
  BY LifecycleTyped DEF StatusAtAge, Statuses

LEMMA BatchTyped ==
  ASSUME NEW fetched, NEW t \in Nat PROVE Batch(fetched, t) \in Tables
<1>1. [status |-> "active", first |-> t, last |-> t] \in Rows
  BY DEF Rows, Statuses
<1> QED BY <1>1, NoAlert DEF Batch, Tables

LEMMA SightedTyped ==
  ASSUME NEW a \in Alerts, NEW row \in Rows, NEW prev \in Rows, NEW t \in Nat
  PROVE  Sighted(a, row, prev, t) \in Rows
  BY DEF Sighted, Rows, Statuses

LEMMA MissingTyped ==
  ASSUME NEW a \in Alerts, NEW prev \in Rows, NEW t \in Nat
  PROVE  Missing(a, prev, t) \in Rows
<1> DEFINE status == StatusAtAge(t - prev.last)
<1>1. t - prev.last \in Int
  BY DEF Rows
<1>2. status \in Statuses
  BY <1>1, StatusTyped
<1>3. [prev EXCEPT !.status = status] \in Rows
  BY <1>2 DEF Rows
<1> QED BY <1>3, NoAlert DEF Missing

LEMMA ReconcileTyped ==
  ASSUME NEW batch \in Tables, NEW prev \in Tables, NEW t \in Nat
  PROVE  Reconcile(batch, prev, t) \in Tables
  BY SightedTyped, MissingTyped DEF Reconcile, Tables

LEMMA PurgedTyped ==
  ASSUME NEW old \in Tables, NEW kept PROVE Purged(old, kept) \in Tables
  BY NoAlert DEF Purged, Tables

LEMMA VisibleTyped ==
  ASSUME NEW full \in Tables PROVE Visible(full) \in Tables
  BY NoAlert DEF Visible, Tables

LEMMA SnapshotTyped ==
  ASSUME NEW batch \in Tables, NEW prev \in Tables PROVE Snapshot(batch, prev) \in Tables
<1> DEFINE carried == {a \in Alerts : Owner[a] \notin Owners(batch) /\ prev[a].status # "filtered"}
           row(a)  == CASE a \in Weak -> Gone
                        [] a \notin Weak /\ batch[a] # Gone -> batch[a]
                        [] a \notin Weak /\ batch[a] = Gone /\ a \in carried -> prev[a]
                        [] OTHER -> Gone
<1>1. ASSUME NEW a \in Alerts PROVE row(a) \in Rows
  <2>1. batch[a] \in Rows /\ prev[a] \in Rows
    BY DEF Tables
  <2> HIDE DEF carried
  <2> QED BY <2>1, NoAlert
<1>2. Snapshot(batch, prev) = [a \in Alerts |-> row(a)]
  BY DEF Snapshot
<1> HIDE DEF row
<1> QED BY <1>1, <1>2 DEF Tables

LEMMA OverTyped ==
  ASSUME NEW first \in Tables, NEW second \in Tables PROVE Over(first, second) \in Tables
  BY DEF Over, Tables

\* An alert that Reconcile keeps was fetched or known.
LEMMA KeptWasKnown ==
  ASSUME NEW batch, NEW prev, NEW t, NEW a \in Alerts,
         Reconcile(batch, prev, t)[a] # Gone, batch[a] = Gone
  PROVE  prev[a] # Gone
  BY DEF Reconcile, Missing

-----------------------------------------------------------------------------
(* Watermarks and processes                                                  *)

LEMMA DeploymentTyped ==
  ASSUME ProgramTypeOK
  PROVE  /\ deployment.roles \subseteq Roles /\ deployment.registry \subseteq Sources
         /\ deployment.streams \subseteq Alerts /\ deployment.orphans \subseteq Alerts
         /\ deployment.failures \in Nat
  BY CollectorTyped DEF ProgramTypeOK

LEMMA MarkTyped ==
  ASSUME ProgramTypeOK, NEW s \in Sources, NEW ok \in BOOLEAN, NEW version \in Nat,
         NEW hash \in SUBSET Alerts, NEW http2xx \in BOOLEAN
  PROVE  Mark(s, ok, version, hash, http2xx) \in Marks
<1>1. (IF ok \/ http2xx THEN clock ELSE mark[s].success) \in Nat
  BY DEF ProgramTypeOK, Marks
<1> QED BY <1>1, Zenon DEF Mark, Marks

LEMMA NotRunTyped ==
  ASSUME ProgramTypeOK, NEW s \in Sources PROVE NotRun(s) \in Marks
  BY MarkTyped DEF NotRun

LEMMA NoMarkTyped ==
  NoMark \in Marks /\ NoMarks \in [Sources -> Marks] /\ NoLetters \in [Sources -> Nat]
  BY DEF NoMark, NoMarks, NoLetters, Marks, Never

LEMMA IdleTyped == Idle \in Procs
  BY NoAlert, NoMarkTyped DEF Idle, Procs, Workers, Never

\* What is left of a mark once it was to be recorded in place.
MarkStep(s, m) ==
    \/ InPlace(s) /\ mark' = [mark EXCEPT ![s] = m]
    \/ InPlace(s) /\ mark' = mark /\ failures' # failures
    \/ ~InPlace(s) /\ mark' = mark

LEMMA MarkStepTyped ==
  ASSUME ProgramTypeOK, NEW s \in Sources, NEW m \in Marks, MarkStep(s, m)
  PROVE  mark' \in [Sources -> Marks]
  BY DEF MarkStep, ProgramTypeOK

LEMMA MarkNowSteps ==
  ASSUME ProgramTypeOK, NEW s, NEW m, NEW written \in BOOLEAN, MarkNow(s, m, written),
         ~written => failures' = failures + 1
  PROVE  MarkStep(s, m)
<1>1. failures \in Nat
  BY DeploymentTyped DEF ProgramTypeOK
<1> QED BY <1>1 DEF MarkNow, MarkStep

LEMMA DoneTyped ==
  ASSUME ProgramTypeOK, NEW p \in Roles, NEW s \in Sources, NEW m \in Marks
  PROVE  Done(p, s, m) \in Procs /\ Done(p, s, m).batch = proc[p].batch
<1>1. proc[p] \in Procs
  BY DEF ProgramTypeOK
<1>2. CASE InPlace(s)
  BY <1>1, <1>2 DEF Done, Procs
<1>3. CASE ~InPlace(s)
  BY <1>1, <1>3 DEF Done, Procs
<1> QED BY <1>2, <1>3

LEMMA SpendsTyped ==
  ASSUME ProgramTypeOK, NEW done \in Tries, Spends(done)
  PROVE  failures' \in 0 .. deployment.failures
<1>1. failures \in Nat /\ deployment.failures \in Nat /\ failures <= deployment.failures
  BY DeploymentTyped DEF ProgramTypeOK
<1>2. CASE failures < deployment.failures
  BY <1>1, <1>2 DEF Spends
<1>3. CASE ~(failures < deployment.failures)
  BY <1>1, <1>3 DEF Spends, Tries
<1> QED BY <1>2, <1>3

LEMMA LosesTyped ==
  ASSUME ProgramTypeOK, NEW things, NEW lost \in Losing(things), Spends(lost = {})
  PROVE  failures' \in 0 .. deployment.failures
<1>1. (lost = {}) \in Tries
  BY DEF Losing, Tries
<1> QED BY <1>1, SpendsTyped

\* The letters are written, or the file stays, or it is cut short.
LEMMA LettersTyped ==
  ASSUME ProgramTypeOK, NEW p \in Roles, WriteLetters(p)
  PROVE  /\ dead' \in {proc[p].dlq, dead, NoLetters} /\ dead' \in [Sources -> Nat]
         /\ failures' \in 0 .. deployment.failures
<1>1. PICK done \in Tries :
        Spends(done) /\ dead' \in IF done THEN {proc[p].dlq} ELSE {dead, NoLetters}
  BY DEF WriteLetters
<1>2. dead' \in {proc[p].dlq, dead, NoLetters}
  BY <1>1
<1>3. dead \in [Sources -> Nat] /\ proc[p].dlq \in [Sources -> Nat]
  BY DEF ProgramTypeOK, Procs
<1>4. failures' \in 0 .. deployment.failures
  BY <1>1, SpendsTyped
<1> QED BY <1>2, <1>3, <1>4, NoMarkTyped

LEMMA JoinedTyped ==
  ASSUME ProgramTypeOK, NEW p \in Roles, NEW items \in SUBSET Alerts
  PROVE  /\ Joined(items, p) \in Tables
         /\ \A a \in Alerts : Joined(items, p)[a] # Gone <=> a \in items \/ proc[p].batch[a] # Gone
<1>1. proc[p].batch \in Tables /\ proc[p].start \in Nat
  BY DEF ProgramTypeOK, Procs
<1>2. Batch(items, proc[p].start) \in Tables
  BY <1>1, BatchTyped
<1>3. Joined(items, p) \in Tables
  BY <1>1, <1>2 DEF Joined, Tables
<1>4. \A a \in items : Batch(items, proc[p].start)[a] # Gone
  BY DEF Batch, Gone
<1>5. \A a \in Alerts : Joined(items, p)[a] # Gone <=> a \in items \/ proc[p].batch[a] # Gone
  BY <1>4 DEF Joined
<1> QED BY <1>3, <1>5

LEMMA ReconciledTyped ==
  ASSUME ProgramTypeOK, NEW p \in Roles PROVE Reconciled(p) \in Tables
<1>1. proc[p].batch \in Tables /\ proc[p].prev \in Tables /\ proc[p].start \in Nat
  BY DEF ProgramTypeOK, Procs
<1>2. Purged(proc[p].prev, Mine(p) \cup Owners(proc[p].batch)) \in Tables
  BY <1>1, PurgedTyped
<1> QED BY <1>1, <1>2, ReconcileTyped DEF Reconciled

-----------------------------------------------------------------------------
(* Types: one lemma per kind of step                                         *)

LEMMA InitTyped == CycleInit => ProgramTypeOK
<1> SUFFICES ASSUME CycleInit PROVE ProgramTypeOK
  OBVIOUS
<1>1. deployment \in Deployments /\ deployment.failures \in Nat
  BY CollectorTyped DEF CycleInit
<1>2. feed \in [Sources -> [items : SUBSET Alerts, edition : Nat]]
  BY DEF CycleInit, Items
<1>3. table \in Tables
  BY BatchTyped DEF CycleInit
<1>4. staged \in [Workers -> Tables] /\ mark \in [Sources -> Marks] /\ proc \in [Roles -> Procs]
  BY NoAlert, NoMarkTyped, IdleTyped DEF CycleInit
<1>5. clock \in Nat /\ dead \in [Sources -> Nat] /\ failures \in 0 .. deployment.failures
  BY <1>1, NoMarkTyped DEF CycleInit
<1> QED BY <1>1, <1>2, <1>3, <1>4, <1>5 DEF ProgramTypeOK

LEMMA WorldTyped == ASSUME ProgramTypeOK, World PROVE ProgramTypeOK'
<1>1. CASE Tick
  BY <1>1 DEF Tick, ProgramTypeOK
<1>2. ASSUME NEW s \in deployment.registry, Publish(s) PROVE ProgramTypeOK'
  <2>1. feed' \in [Sources -> [items : SUBSET Alerts, edition : Nat]]
    <3>1. PICK items \in SUBSET Items(s) :
            feed' = [feed EXCEPT ![s] = [items |-> items, edition |-> @.edition + 1]]
      BY <1>2 DEF Publish
    <3>2. s \in Sources /\ items \in SUBSET Alerts
      BY DeploymentTyped DEF Items
    <3>3. feed \in [Sources -> [items : SUBSET Alerts, edition : Nat]]
      BY DEF ProgramTypeOK
    <3> QED BY <3>1, <3>2, <3>3
  <2> QED BY <1>2, <2>1 DEF Publish, ProgramTypeOK
<1> QED BY <1>1, <1>2 DEF World

LEMMA SnapshotStepTyped ==
  ASSUME ProgramTypeOK, NEW p \in Roles, NEW batch \in Tables, NEW written,
         SnapshotNow(p, batch, written) \/ UNCHANGED table
  PROVE  table' \in Tables
<1>1. Snapshot(batch, proc[p].prev) \in Tables /\ table \in Tables
  BY SnapshotTyped DEF ProgramTypeOK, Procs
<1> QED BY <1>1 DEF SnapshotNow

\* The process that begins a sweep.
Opening(p, prev, dlq, marks) ==
    [Idle EXCEPT !.pc = "sweep", !.start = clock, !.todo = Mine(p), !.batch = Batch(Static, clock),
                 !.prev = prev, !.dlq = dlq, !.marks = marks]

LEMMA BeginOpens ==
  ASSUME ProgramTypeOK, NEW p \in Roles, Begin(p)
  PROVE  \E prev \in {table, Empty} : \E dlq \in {dead, NoLetters} : \E marks \in {mark, NoMarks} :
            /\ proc' = [proc EXCEPT ![p] = Opening(p, prev, dlq, marks)]
            /\ failures' \in 0 .. deployment.failures
<1>1. PICK lost \in Losing({"alerts", "letters", "marks"}) :
        /\ Spends(lost = {})
        /\ proc' = [proc EXCEPT ![p] =
              [Idle EXCEPT !.pc = "sweep", !.start = clock, !.todo = Mine(p),
                           !.batch = Batch(Static, clock),
                           !.prev  = IF "alerts" \in lost THEN Empty ELSE table,
                           !.dlq   = IF "letters" \in lost THEN NoLetters ELSE dead,
                           !.marks = IF "marks" \in lost THEN NoMarks ELSE mark]]
  BY DEF Begin
<1> DEFINE prev  == IF "alerts" \in lost THEN Empty ELSE table
           dlq   == IF "letters" \in lost THEN NoLetters ELSE dead
           marks == IF "marks" \in lost THEN NoMarks ELSE mark
<1>2. proc' = [proc EXCEPT ![p] = Opening(p, prev, dlq, marks)]
  BY <1>1 DEF Opening
<1>3. prev \in {table, Empty} /\ dlq \in {dead, NoLetters} /\ marks \in {mark, NoMarks}
  OBVIOUS
<1>4. failures' \in 0 .. deployment.failures
  BY <1>1, LosesTyped
<1> HIDE DEF prev, dlq, marks
<1> QED BY <1>2, <1>3, <1>4

LEMMA OpeningFields ==
  ASSUME ProgramTypeOK, NEW p \in Roles, NEW prev, NEW dlq, NEW marks
  PROVE  LET q == Opening(p, prev, dlq, marks) IN
         /\ q.pc = "sweep" /\ q.lane = "fast" /\ q.start = clock /\ q.todo = Mine(p)
         /\ q.batch = Batch(Static, clock) /\ q.prev = prev /\ q.dlq = dlq /\ q.marks = marks
         /\ q.recording = {} /\ q.record = NoMarks
  BY DEF Opening, Idle

LEMMA BeginTyped == ASSUME ProgramTypeOK, NEW p \in Roles, Begin(p) PROVE ProgramTypeOK'
<1>1. PICK prev \in {table, Empty}, dlq \in {dead, NoLetters}, marks \in {mark, NoMarks} :
        /\ proc' = [proc EXCEPT ![p] = Opening(p, prev, dlq, marks)]
        /\ failures' \in 0 .. deployment.failures
  BY BeginOpens
<1>2. Mine(p) \subseteq Sources
  BY DeploymentTyped DEF Mine
<1>3. Batch(Static, clock) \in Tables /\ clock \in Nat
  BY BatchTyped DEF ProgramTypeOK
<1>4. prev \in Tables /\ dlq \in [Sources -> Nat] /\ marks \in [Sources -> Marks]
  BY NoAlert, NoMarkTyped DEF ProgramTypeOK
<1>5. Opening(p, prev, dlq, marks) \in Procs
  BY <1>2, <1>3, <1>4, NoMarkTyped DEF Opening, Idle, Procs, Workers
<1>6. proc' \in [Roles -> Procs]
  BY <1>1, <1>5 DEF ProgramTypeOK
<1> QED BY <1>1, <1>6 DEF Begin, ProgramTypeOK

LEMMA PassMarks ==
  ASSUME ProgramTypeOK, NEW p \in Roles, NEW s \in Sources, NEW m \in Marks, Pass(p, s, m)
  PROVE  MarkStep(s, m) /\ failures' \in 0 .. deployment.failures
<1>1. PICK done \in Tries : Spends(done) /\ MarkNow(s, m, done)
  BY DEF Pass
<1>2. done \in BOOLEAN /\ (~done => failures' = failures + 1)
  BY <1>1 DEF Tries, Spends
<1> QED BY <1>1, <1>2, SpendsTyped, MarkNowSteps

LEMMA PassTyped ==
  ASSUME ProgramTypeOK, NEW p \in Roles, NEW s \in Sources, NEW m \in Marks, Pass(p, s, m)
  PROVE  ProgramTypeOK'
<1>1. mark' \in [Sources -> Marks] /\ failures' \in 0 .. deployment.failures
  BY PassMarks, MarkStepTyped
<1>2. proc' \in [Roles -> Procs]
  BY DoneTyped DEF Pass, ProgramTypeOK
<1> QED BY <1>1, <1>2 DEF Pass, ProgramTypeOK

LEMMA CollectSteps ==
  ASSUME ProgramTypeOK, NEW p \in Roles, NEW s \in Sources, NEW items \in SUBSET Alerts,
         NEW m \in Marks, NEW attempt, Collect(p, s, items, m, attempt)
  PROVE  MarkStep(s, m) /\ table' \in Tables /\ failures' \in 0 .. deployment.failures
<1>1. PICK lost \in Losing({"record", "snapshot"}) :
        /\ Spends(lost = {})
        /\ MarkNow(s, m, "record" \notin lost)
        /\ IF SnapshotDue(p, s) THEN SnapshotNow(p, Joined(items, p), "snapshot" \notin lost)
           ELSE UNCHANGED table
  BY DEF Collect
<1> DEFINE recorded == "record" \notin lost
           written  == "snapshot" \notin lost
<1>2. recorded \in BOOLEAN /\ (~recorded => failures' = failures + 1)
  BY <1>1 DEF Spends
<1>3. MarkNow(s, m, recorded) /\ (SnapshotNow(p, Joined(items, p), written) \/ UNCHANGED table)
  BY <1>1
<1>4. failures' \in 0 .. deployment.failures
  BY <1>1, LosesTyped
<1> HIDE DEF recorded, written
<1>5. MarkStep(s, m)
  BY <1>2, <1>3, MarkNowSteps
<1>6. table' \in Tables
  BY <1>3, JoinedTyped, SnapshotStepTyped
<1> QED BY <1>4, <1>5, <1>6

\* The process after the section under the mutex.
CollectedBy(p, s, items, m, attempt, q) ==
    /\ proc' = [proc EXCEPT ![p] = q]
    /\ q.batch = Joined(items, p) /\ q.pc \in {"sweep", "flush"}
    /\ q.lane = proc[p].lane /\ q.start = proc[p].start /\ q.prev = proc[p].prev
    /\ q.dlq = [proc[p].dlq EXCEPT ![s] = attempt] /\ q.todo = proc[p].todo \ {s}
    /\ q.recording = (IF InPlace(s) THEN proc[p].recording ELSE proc[p].recording \cup {s})
    /\ q.record = IF InPlace(s) THEN proc[p].record ELSE [proc[p].record EXCEPT ![s] = m]

LEMMA CollectRuns ==
  ASSUME ProgramTypeOK, NEW p \in Roles, NEW s \in Sources, NEW items \in SUBSET Alerts,
         NEW m \in Marks, NEW attempt \in Nat, Collect(p, s, items, m, attempt)
  PROVE  \E q \in Procs : CollectedBy(p, s, items, m, attempt, q)
<1> DEFINE d  == Done(p, s, m)
           pc == IF SnapshotDue(p, s) THEN "flush" ELSE "sweep"
           joined == Joined(items, p)
           r  == [d EXCEPT !.batch = joined, !.dlq[s] = attempt, !.pc = pc]
<1>1. d \in Procs
  BY DoneTyped
<1>2. proc[p] \in Procs
  BY DEF ProgramTypeOK
<1>3. /\ d.lane = proc[p].lane /\ d.start = proc[p].start /\ d.prev = proc[p].prev
      /\ d.dlq = proc[p].dlq /\ d.todo = proc[p].todo \ {s}
      /\ d.recording = (IF InPlace(s) THEN proc[p].recording ELSE proc[p].recording \cup {s})
      /\ d.record = IF InPlace(s) THEN proc[p].record ELSE [proc[p].record EXCEPT ![s] = m]
  BY <1>2 DEF Done, Procs
<1>4. pc \in {"sweep", "flush"} /\ joined \in Tables
  BY JoinedTyped
<1>5. proc' = [proc EXCEPT ![p] = r]
  BY DEF Collect
<1> HIDE DEF d, pc, joined
<1>6. [d.dlq EXCEPT ![s] = attempt] \in [Sources -> Nat]
  BY <1>1 DEF Procs
<1>7. r \in Procs
  BY <1>1, <1>4, <1>6 DEF Procs
<1>8. /\ r.batch = joined /\ r.pc = pc /\ r.lane = d.lane /\ r.start = d.start /\ r.prev = d.prev
      /\ r.dlq = [d.dlq EXCEPT ![s] = attempt] /\ r.todo = d.todo
      /\ r.recording = d.recording /\ r.record = d.record
  BY <1>1 DEF Procs
<1> HIDE DEF r
<1>9. CollectedBy(p, s, items, m, attempt, r)
  BY <1>3, <1>4, <1>5, <1>8 DEF CollectedBy, joined
<1> QED BY <1>7, <1>9

LEMMA CollectTyped ==
  ASSUME ProgramTypeOK, NEW p \in Roles, NEW s \in Sources, NEW items \in SUBSET Alerts,
         NEW m \in Marks, NEW attempt \in Nat, Collect(p, s, items, m, attempt)
  PROVE  ProgramTypeOK'
<1>1. MarkStep(s, m) /\ table' \in Tables /\ failures' \in 0 .. deployment.failures
  BY CollectSteps
<1>2. PICK q \in Procs : CollectedBy(p, s, items, m, attempt, q)
  BY CollectRuns
<1>3. proc' \in [Roles -> Procs] /\ mark' \in [Sources -> Marks]
  BY <1>1, <1>2, MarkStepTyped DEF ProgramTypeOK, CollectedBy
<1>4. UNCHANGED <<deployment, clock, feed, staged, dead>>
  BY DEF Collect
<1> QED BY <1>1, <1>3, <1>4 DEF ProgramTypeOK

LEMMA FetchTyped ==
  ASSUME ProgramTypeOK, NEW p \in Roles, NEW s \in Sources,
         FetchFull(p, s) \/ FetchUnchanged(p, s) \/ FetchFails(p, s)
  PROVE  ProgramTypeOK'
<1>t. /\ feed[s].items \in SUBSET Alerts /\ feed[s].edition \in Nat /\ clock \in Nat
      /\ proc[p].start \in Nat /\ proc[p].dlq[s] \in Nat /\ proc[p].marks[s].version \in Nat
  BY DEF ProgramTypeOK, Procs, Marks
<1>1. CASE FetchFull(p, s)
  <2> DEFINE items   == IF SameHash(p, s) THEN {} ELSE feed[s].items
             version == IF s \in Versioned THEN feed[s].edition ELSE 0
  <2>1. items \in SUBSET Alerts /\ version \in Nat
    BY <1>t
  <2>2. Collect(p, s, items, Mark(s, TRUE, version, items, TRUE), Never)
    BY <1>1 DEF FetchFull
  <2> HIDE DEF items, version
  <2>3. Mark(s, TRUE, version, items, TRUE) \in Marks
    BY <2>1, MarkTyped
  <2> QED BY <2>1, <2>2, <2>3, CollectTyped DEF Never
<1>2. CASE FetchUnchanged(p, s)
  <2>1. Collect(p, s, {}, Mark(s, TRUE, proc[p].marks[s].version, {}, TRUE), Never)
    BY <1>2 DEF FetchUnchanged
  <2>2. Mark(s, TRUE, proc[p].marks[s].version, {}, TRUE) \in Marks
    BY <1>t, MarkTyped
  <2> QED BY <2>1, <2>2, CollectTyped DEF Never
<1>3. CASE FetchFails(p, s)
  <2>1. PICK attempt \in Nat : Collect(p, s, {}, NotRun(s), attempt)
    BY <1>3, <1>t DEF FetchFails, Never
  <2> QED BY <2>1, NotRunTyped, CollectTyped
<1> QED BY <1>1, <1>2, <1>3

LEMMA PassesTyped ==
  ASSUME ProgramTypeOK, NEW p \in Roles, NEW s \in Sources, Skip(p, s) \/ Pace(p, s)
  PROVE  ProgramTypeOK'
<1>1. Mark(s, FALSE, 0, {}, TRUE) \in Marks
  BY MarkTyped
<1> QED BY <1>1, NotRunTyped, PassTyped DEF Skip, Pace

LEMMA RecordSteps ==
  ASSUME ProgramTypeOK, NEW p \in Roles, NEW s \in Sources, Record(p, s)
  PROVE  /\ \/ mark' = [mark EXCEPT ![s] = proc[p].record[s]]
            \/ mark' = mark /\ failures' # failures
         /\ failures' \in 0 .. deployment.failures
<1>1. PICK done \in Tries :
        Spends(done) /\ mark' = IF done THEN [mark EXCEPT ![s] = proc[p].record[s]] ELSE mark
  BY DEF Record
<1>2. failures \in Nat
  BY DeploymentTyped DEF ProgramTypeOK
<1>3. ~done => failures' # failures
  BY <1>1, <1>2 DEF Spends
<1> QED BY <1>1, <1>3, SpendsTyped

LEMMA RecordTyped ==
  ASSUME ProgramTypeOK, NEW p \in Roles, NEW s \in Sources, Record(p, s) PROVE ProgramTypeOK'
<1> DEFINE q == [proc[p] EXCEPT !.recording = @ \ {s}, !.record[s] = NoMark]
<1>1. proc[p] \in Procs /\ proc[p].record \in [Sources -> Marks]
  BY DEF ProgramTypeOK, Procs
<1>2. [proc[p].record EXCEPT ![s] = NoMark] \in [Sources -> Marks]
  BY <1>1, NoMarkTyped
<1>3. q \in Procs
  BY <1>1, <1>2 DEF Procs
<1>4. proc' = [proc EXCEPT ![p] = q]
  BY DEF Record
<1>5. mark' \in [Sources -> Marks] /\ failures' \in 0 .. deployment.failures
  BY <1>1, RecordSteps DEF ProgramTypeOK
<1> HIDE DEF q
<1>6. proc' \in [Roles -> Procs]
  BY <1>3, <1>4 DEF ProgramTypeOK
<1> QED BY <1>5, <1>6 DEF Record, ProgramTypeOK

LEMMA DeferSteps ==
  ASSUME ProgramTypeOK, NEW p \in Roles, Defer(p)
  PROVE  /\ \A s \in Sources : mark'[s] = IF s \in Current(p) /\ mark'[s] # mark[s] THEN NotRun(s)
                                          ELSE mark[s]
         /\ \A s \in Current(p) : mark'[s] = NotRun(s) \/ failures' # failures
         /\ mark' \in [Sources -> Marks] /\ failures' \in 0 .. deployment.failures
<1>1. PICK lost \in Losing(Current(p)) :
        /\ Spends(lost = {})
        /\ mark' = [s \in Sources |-> IF s \in Current(p) \ lost THEN NotRun(s) ELSE mark[s]]
  BY DEF Defer
<1>2. mark' \in [Sources -> Marks]
  BY <1>1, NotRunTyped DEF ProgramTypeOK
<1>3. failures' \in 0 .. deployment.failures
  BY <1>1, LosesTyped
<1>4. failures \in Nat /\ (lost # {} => failures' # failures)
  <2>1. failures \in Nat
    BY DeploymentTyped DEF ProgramTypeOK
  <2> QED BY <1>1, <2>1 DEF Spends
<1>5. Current(p) \subseteq Sources
  BY DeploymentTyped DEF Current, Mine
<1> QED BY <1>1, <1>2, <1>3, <1>4, <1>5

LEMMA DeferTyped == ASSUME ProgramTypeOK, NEW p \in Roles, Defer(p) PROVE ProgramTypeOK'
<1>1. mark' \in [Sources -> Marks] /\ failures' \in 0 .. deployment.failures
  BY DeferSteps
<1>2. proc' \in [Roles -> Procs]
  <2>1. [proc[p] EXCEPT !.todo = {}] \in Procs
    BY ZenonT(60) DEF ProgramTypeOK, Procs
  <2> QED BY <2>1 DEF Defer, ProgramTypeOK
<1> QED BY <1>1, <1>2 DEF Defer, ProgramTypeOK

LEMMA LaneEndTyped == ASSUME ProgramTypeOK, NEW p \in Roles, LaneEnd(p) PROVE ProgramTypeOK'
<1>1. proc' \in [Roles -> Procs]
  <2>1. (IF proc[p].lane = "fast" THEN "api" ELSE "browser") \in Workers
    BY DEF Workers
  <2>2. [proc[p] EXCEPT !.lane = IF @ = "fast" THEN "api" ELSE "browser"] \in Procs
    <3> DEFINE lane == IF proc[p].lane = "fast" THEN "api" ELSE "browser"
    <3> HIDE DEF lane
    <3>1. [proc[p] EXCEPT !.lane = lane] \in Procs
      BY ZenonT(60), <2>1 DEF ProgramTypeOK, Procs, lane
    <3> QED BY <3>1 DEF lane
  <2> QED BY <2>2 DEF LaneEnd, ProgramTypeOK
<1>2. CASE UNCHANGED <<table, failures>>
  BY <1>1, <1>2 DEF LaneEnd, ProgramTypeOK
<1>3. CASE \E done \in Tries : Spends(done) /\ SnapshotNow(p, proc[p].batch, done)
  <2>1. PICK done \in Tries : Spends(done) /\ SnapshotNow(p, proc[p].batch, done)
    BY <1>3
  <2>2. proc[p].batch \in Tables
    BY DEF ProgramTypeOK, Procs
  <2>3. table' \in Tables /\ failures' \in 0 .. deployment.failures
    BY <2>1, <2>2, SnapshotStepTyped, SpendsTyped
  <2> QED BY <1>1, <2>3 DEF LaneEnd, ProgramTypeOK
<1>4. \/ UNCHANGED <<table, failures>>
      \/ \E done \in Tries : Spends(done) /\ SnapshotNow(p, proc[p].batch, done)
  BY Zenon DEF LaneEnd
<1> QED BY <1>2, <1>3, <1>4

LEMMA FlushTyped == ASSUME ProgramTypeOK, NEW p \in Roles, Flush(p) PROVE ProgramTypeOK'
<1>1. dead' \in [Sources -> Nat] /\ failures' \in 0 .. deployment.failures
  BY LettersTyped DEF Flush
<1>2. [proc[p] EXCEPT !.pc = "sweep"] \in Procs
  BY ZenonT(60) DEF ProgramTypeOK, Procs
<1>3. proc' \in [Roles -> Procs]
  BY <1>2 DEF Flush, ProgramTypeOK
<1> QED BY <1>1, <1>3 DEF Flush, ProgramTypeOK

\* The process that has asked the topics, unless it gives up.
Ready(p, batch) == [proc[p] EXCEPT !.pc = "save", !.batch = batch]

LEMMA FinishSteps ==
  ASSUME ProgramTypeOK, NEW p \in Roles, Finish(p)
  PROVE  \/ proc' = [proc EXCEPT ![p] = Idle]
         \/ \E brought \in SUBSET deployment.streams :
               proc' = [proc EXCEPT ![p] = Ready(p, Joined(brought, p))]
<1>1. PICK brought \in SUBSET deployment.streams :
        proc' = [proc EXCEPT ![p] =
                   IF Gap(Joined(brought, p)) THEN Idle
                   ELSE [@ EXCEPT !.pc = "save", !.batch = Joined(brought, p)]]
  BY DEF Finish
<1>2. CASE Gap(Joined(brought, p))
  BY <1>1, <1>2
<1>3. CASE ~Gap(Joined(brought, p))
  <2>1. proc' = [proc EXCEPT ![p] = [@ EXCEPT !.pc = "save", !.batch = Joined(brought, p)]]
    BY <1>1, <1>3
  <2>2. proc' = [proc EXCEPT ![p] = Ready(p, Joined(brought, p))]
    BY <2>1 DEF Ready, ProgramTypeOK
  <2> QED BY <2>2
<1> QED BY <1>2, <1>3

LEMMA ReadyFields ==
  ASSUME ProgramTypeOK, NEW p \in Roles, NEW batch \in Tables
  PROVE  LET q == Ready(p, batch) IN
         /\ q \in Procs /\ q.pc = "save" /\ q.batch = batch
         /\ q.lane = proc[p].lane /\ q.start = proc[p].start /\ q.prev = proc[p].prev
         /\ q.dlq = proc[p].dlq /\ q.todo = proc[p].todo
         /\ q.recording = proc[p].recording /\ q.record = proc[p].record
<1>1. proc[p] \in Procs
  BY DEF ProgramTypeOK
<1> QED BY <1>1 DEF Ready, Procs

LEMMA FinishTyped == ASSUME ProgramTypeOK, NEW p \in Roles, Finish(p) PROVE ProgramTypeOK'
<1>1. dead' \in [Sources -> Nat] /\ failures' \in 0 .. deployment.failures
  BY LettersTyped DEF Finish
<1>2. ASSUME NEW brought \in SUBSET deployment.streams PROVE Ready(p, Joined(brought, p)) \in Procs
  <2>1. Joined(brought, p) \in Tables
    BY DeploymentTyped, JoinedTyped
  <2> QED BY <2>1, ReadyFields
<1>3. proc' \in [Roles -> Procs]
  BY <1>2, FinishSteps, IdleTyped DEF ProgramTypeOK
<1> QED BY <1>1, <1>3 DEF Finish, ProgramTypeOK

LEMMA SaveTyped ==
  ASSUME ProgramTypeOK, NEW p \in Roles, Save(p) \/ Stage(p) PROVE ProgramTypeOK'
<1>1. proc' \in [Roles -> Procs]
  BY IdleTyped DEF Save, Stage, ProgramTypeOK
<1>2. CASE Save(p)
  <2>1. PICK done \in Tries : Spends(done) /\ table' = IF done THEN Reconciled(p) ELSE table
    BY <1>2 DEF Save
  <2>2. table' \in Tables /\ failures' \in 0 .. deployment.failures
    BY <2>1, ReconciledTyped, SpendsTyped DEF ProgramTypeOK
  <2> QED BY <1>1, <1>2, <2>2 DEF Save, ProgramTypeOK
<1>3. CASE Stage(p)
  <2>1. PICK done \in Tries :
          /\ Spends(done)
          /\ staged' = IF done THEN [staged EXCEPT ![p] = Visible(Reconciled(p))] ELSE staged
    BY <1>3 DEF Stage
  <2>2. Visible(Reconciled(p)) \in Tables
    BY ReconciledTyped, VisibleTyped
  <2>3. staged' \in [Workers -> Tables] /\ failures' \in 0 .. deployment.failures
    BY <2>1, <2>2, SpendsTyped DEF ProgramTypeOK
  <2> QED BY <1>1, <1>3, <2>3 DEF Stage, ProgramTypeOK
<1> QED BY <1>2, <1>3

LEMMA MergesTyped == ASSUME ProgramTypeOK, Merges PROVE ProgramTypeOK'
<1>m. "merge" \in Roles /\ proc["merge"] \in Procs
  BY DEF Roles, ProgramTypeOK
<1>1. CASE MergeLoad
  <2> DEFINE q(batch, prev) == [Idle EXCEPT !.pc = "save", !.start = clock, !.batch = batch,
                                            !.prev = prev]
  <2>1. PICK u \in Workers, v \in Workers, w \in Workers : \E done \in Tries :
          /\ Spends(done)
          /\ proc' = [proc EXCEPT !["merge"] =
                        q(Over(staged[u], Over(staged[v], staged[w])),
                          IF done THEN table ELSE Empty)]
    BY <1>1 DEF MergeLoad
  <2> DEFINE batch == Over(staged[u], Over(staged[v], staged[w]))
  <2>2. PICK done \in Tries :
          /\ Spends(done)
          /\ proc' = [proc EXCEPT !["merge"] = q(batch, IF done THEN table ELSE Empty)]
    BY <2>1
  <2>3. batch \in Tables
    BY OverTyped DEF ProgramTypeOK
  <2> HIDE DEF batch
  <2>4. ASSUME NEW prev \in Tables PROVE q(batch, prev) \in Procs
    BY <2>3, IdleTyped DEF ProgramTypeOK, Procs
  <2>5. (IF done THEN table ELSE Empty) \in Tables
    BY NoAlert DEF ProgramTypeOK
  <2>6. q(batch, IF done THEN table ELSE Empty) \in Procs
    BY <2>4, <2>5
  <2> HIDE DEF q
  <2>7. proc' \in [Roles -> Procs] /\ failures' \in 0 .. deployment.failures
    BY <1>m, <2>2, <2>6, SpendsTyped DEF ProgramTypeOK
  <2>8. UNCHANGED <<deployment, clock, feed, table, staged, mark, dead>>
    BY <1>1 DEF MergeLoad
  <2> QED BY <2>7, <2>8 DEF ProgramTypeOK
<1>2. CASE MergeSave
  <2>1. PICK done \in Tries :
          /\ Spends(done)
          /\ table' = IF done THEN Reconcile(proc["merge"].batch, proc["merge"].prev,
                                              proc["merge"].start)
                       ELSE table
    BY <1>2 DEF MergeSave
  <2>2. Reconcile(proc["merge"].batch, proc["merge"].prev, proc["merge"].start) \in Tables
    BY <1>m, ReconcileTyped DEF Procs
  <2>3. table' \in Tables /\ failures' \in 0 .. deployment.failures
    BY <2>1, <2>2, SpendsTyped DEF ProgramTypeOK
  <2>4. proc' \in [Roles -> Procs]
    BY <1>2, IdleTyped DEF MergeSave, ProgramTypeOK
  <2> QED BY <1>2, <2>3, <2>4 DEF MergeSave, ProgramTypeOK
<1> QED BY <1>1, <1>2 DEF Merges

LEMMA CrashTyped == ASSUME ProgramTypeOK, NEW p \in Roles, Crash(p) PROVE ProgramTypeOK'
<1>1. failures' \in 0 .. deployment.failures
  BY DeploymentTyped DEF Crash, ProgramTypeOK
<1>2. dead' \in [Sources -> Nat]
  BY NoMarkTyped DEF Crash, ProgramTypeOK
<1> QED BY <1>1, <1>2, IdleTyped DEF Crash, ProgramTypeOK

\* A step of the history is a step of the program.
LEMMA StepTyped == ASSUME ProgramTypeOK, [HistoryNext]_historyVars PROVE ProgramTypeOK'
<1>1. CASE UNCHANGED historyVars
  BY <1>1 DEF historyVars, cycleVars, ProgramTypeOK
<1>2. ASSUME NEW p \in deployment.roles, HistoryOfSweep(p) PROVE ProgramTypeOK'
  <2>1. p \in Roles
    BY DeploymentTyped
  <2>2. \/ Begin(p) \/ Save(p) \/ Finish(p) \/ Flush(p) \/ Crash(p) \/ Defer(p) \/ LaneEnd(p)
        \/ Stage(p)
    BY <1>2 DEF HistoryOfSweep
  <2> QED BY <2>1, <2>2, BeginTyped, SaveTyped, FlushTyped, FinishTyped, CrashTyped, DeferTyped,
             LaneEndTyped
<1>3. ASSUME NEW p \in deployment.roles, NEW s \in Sources, HistoryOfSource(p, s)
      PROVE  ProgramTypeOK'
  <2>1. p \in Roles
    BY DeploymentTyped
  <2>2. \/ Skip(p, s) \/ Pace(p, s) \/ Record(p, s)
        \/ FetchFull(p, s) \/ FetchUnchanged(p, s) \/ FetchFails(p, s)
    BY <1>3 DEF HistoryOfSource
  <2> QED BY <2>1, <2>2, PassesTyped, RecordTyped, FetchTyped
<1> QED BY <1>1, <1>2, <1>3, WorldTyped, MergesTyped DEF HistoryNext

-----------------------------------------------------------------------------
(* The history                                                               *)

LEMMA NothingTyped == Nothing \in [Alerts -> Nat] /\ Never \in Nat
  BY DEF Nothing, Never

LEMMA BrokenTyped == ASSUME NEW h \in Past PROVE Broken(h) \in Past
  BY NothingTyped DEF Broken, Past

LEMMA KeptTyped ==
  ASSUME ProgramTypeOK, past \in Past, NEW p \in Roles PROVE Kept(p) \in Past
<1> DEFINE seen == [a \in Alerts |-> IF proc[p].batch[a] # Gone THEN proc[p].start ELSE past.seen[a]]
           latest == {a \in Alerts : proc[p].batch[a] # Gone}
<1>1. proc[p].start \in Nat
  BY DEF ProgramTypeOK, Procs
<1>2. seen \in [Alerts -> Nat] /\ latest \in SUBSET Alerts
  BY <1>1 DEF Past
<1>3. Kept(p) = [past EXCEPT !.saved = proc[p].start, !.latest = latest, !.seen = seen]
  BY DEF Kept
<1> HIDE DEF seen, latest
<1> QED BY <1>1, <1>2, <1>3 DEF Past

LEMMA ToldTyped == ASSUME past \in Past, NEW p PROVE Told(p) \in [Sources -> Nat]
<1>1. past.failed \in [Sources -> Nat] /\ past.known \in [Sources -> Nat]
  BY DEF Past
<1> QED BY <1>1, NoMarkTyped DEF Told

LEMMA UnrecordedTyped ==
  ASSUME past \in Past, NEW written \in SUBSET Sources PROVE Unrecorded(written) \in SUBSET Sources
<1>1. past.lost \in SUBSET Sources
  BY DEF Past
<1> QED BY <1>1 DEF Unrecorded

LEMMA SweepHistoryTyped ==
  ASSUME ProgramTypeOK, past \in Past, NEW p \in Roles, HistoryOfSweep(p) PROVE past' \in Past
<1>1. ASSUME NEW h \in Past, NEW failed \in [Sources -> Nat], NEW known \in [Sources -> Nat]
      PROVE  /\ [h EXCEPT !.failed = failed, !.known = known] \in Past
             /\ [h EXCEPT !.known = known, !.failed = failed] \in Past
             /\ [h EXCEPT !.known = known] \in Past
  BY <1>1 DEF Past
<1>2. Broken(past) \in Past /\ Kept(p) \in Past
  BY KeptTyped, BrokenTyped
<1>3. Told(p) \in [Sources -> Nat] /\ past.known \in [Sources -> Nat] /\ NoLetters \in [Sources -> Nat]
  BY ToldTyped, NoMarkTyped DEF Past
<1>4. CASE Begin(p) /\ past' = Opened(p)
  <2>1. (IF proc'[p].prev = table THEN past ELSE Broken(past)) \in Past
    BY <1>2
  <2>2. Opened(p) \in Past
    BY <1>1, <1>3, <2>1 DEF Opened
  <2> QED BY <1>4, <2>2
<1>5. CASE past' = IF failures' = failures /\ past.intact THEN Kept(p) ELSE Broken(past)
  BY <1>2, <1>5
<1>6. CASE past' = [(IF proc'[p].pc = "idle" THEN Broken(past) ELSE past)
                      EXCEPT !.known = Told(p), !.failed = Told(p)]
  <2> DEFINE h == IF proc'[p].pc = "idle" THEN Broken(past) ELSE past
  <2>1. h \in Past
    BY <1>2
  <2> HIDE DEF h
  <2>2. [h EXCEPT !.known = Told(p), !.failed = Told(p)] \in Past
    BY <1>1, <1>3, <2>1
  <2> QED BY <1>6, <2>2 DEF h
<1>7. CASE past' = [past EXCEPT !.known = Told(p)]
  BY <1>1, <1>3, <1>7
<1>8. CASE past' = [Broken(past) EXCEPT !.failed = IF dead' = dead THEN past.known ELSE NoLetters,
                                         !.known = IF dead' = dead THEN past.known ELSE NoLetters]
  <2>1. (IF dead' = dead THEN past.known ELSE NoLetters) \in [Sources -> Nat]
    BY <1>3
  <2> QED BY <1>1, <1>2, <1>8, <2>1
<1>9. CASE past' = [past EXCEPT !.lost = Unrecorded(Current(p))]
  <2>1. Current(p) \in SUBSET Sources
    BY DeploymentTyped DEF Current, Mine
  <2>2. Unrecorded(Current(p)) \in SUBSET Sources
    BY <2>1, UnrecordedTyped
  <2> QED BY <1>9, <2>2 DEF Past
<1>10. CASE UNCHANGED past
  BY <1>10
<1>11. \/ Begin(p) /\ past' = Opened(p)
       \/ past' = IF failures' = failures /\ past.intact THEN Kept(p) ELSE Broken(past)
       \/ past' = [(IF proc'[p].pc = "idle" THEN Broken(past) ELSE past)
                      EXCEPT !.known = Told(p), !.failed = Told(p)]
       \/ past' = [past EXCEPT !.known = Told(p)]
       \/ past' = [Broken(past) EXCEPT !.failed = IF dead' = dead THEN past.known ELSE NoLetters,
                                       !.known = IF dead' = dead THEN past.known ELSE NoLetters]
       \/ past' = [past EXCEPT !.lost = Unrecorded(Current(p))]
       \/ UNCHANGED past
  BY DEF HistoryOfSweep
<1> QED BY <1>4, <1>5, <1>6, <1>7, <1>8, <1>9, <1>10, <1>11

LEMMA SourceHistoryTyped ==
  ASSUME ProgramTypeOK, past \in Past, NEW p \in Roles, NEW s \in Sources, HistoryOfSource(p, s)
  PROVE  past' \in Past
<1>1. past.failed \in [Sources -> Nat] /\ past.scraped \in [Sources -> Nat]
  BY DEF Past
<1>2. Unrecorded({s}) \in SUBSET Sources /\ Unrecorded(Here(s)) \in SUBSET Sources
  <2>1. {s} \in SUBSET Sources /\ Here(s) \in SUBSET Sources
    BY DEF Here
  <2> QED BY <2>1, UnrecordedTyped
<1>3. ASSUME NEW written \in SUBSET Sources, NEW n \in Nat
      PROVE  /\ [past EXCEPT !.lost = written] \in Past
             /\ [past EXCEPT !.failed[s] = n, !.lost = written] \in Past
             /\ [past EXCEPT !.scraped[s] = clock, !.failed[s] = n, !.lost = written] \in Past
  <2>1. [past.failed EXCEPT ![s] = n] \in [Sources -> Nat]
    BY <1>1
  <2>2. [past.scraped EXCEPT ![s] = clock] \in [Sources -> Nat]
    BY <1>1 DEF ProgramTypeOK
  <2> QED BY <2>1, <2>2 DEF Past
<1>4. CASE \/ past' = [past EXCEPT !.lost = Unrecorded({s})]
           \/ past' = [past EXCEPT !.lost = Unrecorded(Here(s))]
  BY <1>2, <1>3, <1>4, NothingTyped
<1>5. CASE past' = [past EXCEPT !.scraped[s] = clock, !.failed[s] = Never,
                                !.lost = Unrecorded(Here(s))]
  BY <1>2, <1>3, <1>5, NothingTyped
<1>6. CASE past' = [past EXCEPT !.failed[s] = Never, !.lost = Unrecorded(Here(s))]
  BY <1>2, <1>3, <1>6, NothingTyped
<1>7. CASE past' = [past EXCEPT !.failed[s] =
                       IF proc'[p].dlq[s] = Never THEN Never ELSE proc[p].start,
                               !.lost = Unrecorded(Here(s))]
  <2> DEFINE n == IF proc'[p].dlq[s] = Never THEN Never ELSE proc[p].start
  <2>1. n \in Nat
    BY NothingTyped DEF ProgramTypeOK, Procs
  <2> HIDE DEF n
  <2>2. [past EXCEPT !.failed[s] = n, !.lost = Unrecorded(Here(s))] \in Past
    BY <1>2, <1>3, <2>1
  <2> QED BY <1>7, <2>2 DEF n
<1> QED BY <1>4, <1>5, <1>6, <1>7 DEF HistoryOfSource

\* Whatever feeds, failures and deaths do, the collector's state has its types: Reconcile
\* writes no status but those of the lifecycle, over any horizons, and snapshots, staging
\* and merging write tables of alerts.
THEOREM CollectorTypes == HistorySpec => []CycleTypeOK
<1>1. HistoryInit => CycleTypeOK
  <2> SUFFICES ASSUME HistoryInit PROVE past \in Past
    BY InitTyped DEF HistoryInit, CycleTypeOK
  <2> QED BY NothingTyped, NoMarkTyped DEF HistoryInit, Past
<1>2. CycleTypeOK /\ [HistoryNext]_historyVars => CycleTypeOK'
  <2> SUFFICES ASSUME CycleTypeOK, [HistoryNext]_historyVars PROVE CycleTypeOK'
    OBVIOUS
  <2>t. ProgramTypeOK /\ past \in Past
    BY DEF CycleTypeOK
  <2>1. past' \in Past
    <3>1. CASE UNCHANGED past
      BY <2>t, <3>1
    <3>2. ASSUME NEW p \in deployment.roles, HistoryOfSweep(p) PROVE past' \in Past
      BY <2>t, <3>2, DeploymentTyped, SweepHistoryTyped
    <3>3. ASSUME NEW p \in deployment.roles, NEW s \in Sources, HistoryOfSource(p, s)
          PROVE  past' \in Past
      BY <2>t, <3>3, DeploymentTyped, SourceHistoryTyped
    <3> QED BY <3>1, <3>2, <3>3 DEF HistoryNext, historyVars
  <2> QED BY <2>t, <2>1, StepTyped DEF CycleTypeOK
<1> QED BY <1>1, <1>2, PTL DEF HistorySpec

-----------------------------------------------------------------------------
(* Workers                                                                   *)

\* Only the world changes feeds, and nothing changes the deployment.
LEMMA StepFrame ==
  ASSUME [HistoryNext]_historyVars
  PROVE  UNCHANGED deployment /\ (World \/ UNCHANGED feed)
<1>1. CASE UNCHANGED historyVars
  BY <1>1 DEF historyVars, cycleVars
<1>2. CASE World
  BY SMTT(60), <1>2 DEF World, Tick, Publish
<1>3. ASSUME NEW p \in deployment.roles, HistoryOfSweep(p) PROVE UNCHANGED <<deployment, feed>>
  BY <1>3 DEF HistoryOfSweep, Begin, Defer, Flush, LaneEnd, Finish, Save, Stage, Crash
<1>4. ASSUME NEW p \in deployment.roles, NEW s \in Sources, HistoryOfSource(p, s)
      PROVE  UNCHANGED <<deployment, feed>>
  BY <1>4 DEF HistoryOfSource, Skip, Pace, Pass, Record, FetchFull, FetchUnchanged, FetchFails,
              Collect
<1>5. CASE Merges
  BY <1>5 DEF Merges, MergeLoad, MergeSave
<1> QED BY <1>1, <1>2, <1>3, <1>4, <1>5 DEF HistoryNext

FeedsServeOwn == \A s \in Sources : feed[s].items \subseteq Items(s)
\* An alert that a worker may hold.
Own(w, a) == \/ Owner[a] \in deployment.registry /\ Lane[Owner[a]] = w
             \/ Owner[a] \in Outside
BatchIsOwn == \A w \in Workers : \A a \in Alerts : proc[w].batch[a] # Gone => Own(w, a)
OwnInv == FeedsServeOwn /\ BatchIsOwn /\ StagedAreOwn

GainsFrom(items, s) ==
  \A w \in Workers : \A a \in Alerts :
     proc'[w].batch[a] # Gone =>
        proc[w].batch[a] # Gone \/ (a \in items /\ s \in deployment.registry /\ Lane[s] = w)

\* What a batch gains comes from a source of the process's own lane.
LEMMA CollectFrom ==
  ASSUME ProgramTypeOK, NEW p \in Roles, NEW s \in Sources, NEW items \in SUBSET Alerts,
         NEW m \in Marks, NEW attempt \in Nat, Collect(p, s, items, m, attempt)
  PROVE  GainsFrom(items, s)
<1> SUFFICES ASSUME NEW w \in Workers, NEW a \in Alerts, proc'[w].batch[a] # Gone
             PROVE  \/ proc[w].batch[a] # Gone
                    \/ a \in items /\ s \in deployment.registry /\ Lane[s] = w
  BY DEF GainsFrom
<1>0. PICK q \in Procs : CollectedBy(p, s, items, m, attempt, q)
  BY CollectRuns
<1>1. proc' = [proc EXCEPT ![p] = q]
  BY <1>0 DEF CollectedBy
<1>2. q.batch = Joined(items, p)
  BY <1>0 DEF CollectedBy
<1>3. w \in Roles
  BY DEF Roles
<1>4. CASE w # p
  BY <1>1, <1>3, <1>4 DEF ProgramTypeOK
<1>5. CASE w = p
  <2>1. proc'[w] = q
    BY <1>1, <1>5 DEF ProgramTypeOK
  <2>2. a \in items \/ proc[w].batch[a] # Gone
    BY <1>2, <1>5, <2>1, JoinedTyped
  <2>3. s \in deployment.registry /\ Lane[s] = w
    BY <1>5 DEF Collect, Takes, Current, Mine, Workers
  <2> QED BY <2>2, <2>3
<1> QED BY <1>4, <1>5

LEMMA FetchFrom ==
  ASSUME ProgramTypeOK, NEW p \in Roles, NEW s \in Sources,
         FetchFull(p, s) \/ FetchUnchanged(p, s) \/ FetchFails(p, s)
  PROVE  GainsFrom(feed[s].items, s)
<1>t. /\ feed[s].items \in SUBSET Alerts /\ feed[s].edition \in Nat /\ clock \in Nat
      /\ proc[p].start \in Nat /\ proc[p].dlq[s] \in Nat /\ proc[p].marks[s].version \in Nat
  BY DEF ProgramTypeOK, Procs, Marks
<1>1. CASE FetchFull(p, s)
  <2> DEFINE items   == IF SameHash(p, s) THEN {} ELSE feed[s].items
             version == IF s \in Versioned THEN feed[s].edition ELSE 0
  <2>1. items \in SUBSET Alerts /\ items \subseteq feed[s].items /\ version \in Nat
    BY <1>t
  <2>2. Collect(p, s, items, Mark(s, TRUE, version, items, TRUE), Never)
    BY <1>1 DEF FetchFull
  <2> HIDE DEF items, version
  <2>3. Mark(s, TRUE, version, items, TRUE) \in Marks
    BY <2>1, MarkTyped
  <2>4. GainsFrom(items, s)
    BY <2>1, <2>2, <2>3, CollectFrom DEF Never
  <2> QED BY <2>1, <2>4 DEF GainsFrom
<1>2. CASE FetchUnchanged(p, s)
  <2>1. Collect(p, s, {}, Mark(s, TRUE, proc[p].marks[s].version, {}, TRUE), Never)
    BY <1>2 DEF FetchUnchanged
  <2>2. Mark(s, TRUE, proc[p].marks[s].version, {}, TRUE) \in Marks
    BY <1>t, MarkTyped
  <2>3. GainsFrom({}, s)
    BY <2>1, <2>2, CollectFrom DEF Never
  <2> QED BY <2>3 DEF GainsFrom
<1>3. CASE FetchFails(p, s)
  <2>1. PICK attempt \in Nat : Collect(p, s, {}, NotRun(s), attempt)
    BY <1>3, <1>t DEF FetchFails, Never
  <2>2. GainsFrom({}, s)
    BY <2>1, NotRunTyped, CollectFrom
  <2> QED BY <2>2 DEF GainsFrom
<1> QED BY <1>1, <1>2, <1>3

LEMMA RecordFrom ==
  ASSUME NEW p \in Roles, NEW s \in Sources, Record(p, s)
  PROVE  proc' = [proc EXCEPT ![p] = [proc[p] EXCEPT !.recording = @ \ {s}, !.record[s] = NoMark]]
  BY DEF Record

\* Every other step of a sweep keeps the batches, drops one or brings alerts from outside.
LEMMA SweepFrom ==
  ASSUME ProgramTypeOK, NEW p \in Roles,
         \/ Begin(p) \/ Defer(p) \/ Flush(p) \/ LaneEnd(p) \/ Finish(p) \/ Save(p) \/ Stage(p)
         \/ Crash(p) \/ \E s \in Sources : Skip(p, s) \/ Pace(p, s) \/ Record(p, s),
         NEW w \in Roles, NEW a \in Alerts, proc'[w].batch[a] # Gone
  PROVE  proc[w].batch[a] # Gone \/ Owner[a] \in Outside
<1>t. proc \in [Roles -> Procs] /\ proc[p] \in Procs
  BY DEF ProgramTypeOK
<1> DEFINE Gains(q) == q.batch[a] # Gone => proc[p].batch[a] # Gone \/ Owner[a] \in Outside
<1> SUFFICES \E q : proc' = [proc EXCEPT ![p] = q] /\ Gains(q)
  BY <1>t
<1>i. Gains(Idle)
  BY DEF Idle, Empty
<1>k. ASSUME NEW q, q.batch = proc[p].batch PROVE Gains(q)
  BY <1>k
<1>1. CASE Begin(p)
  <2>1. PICK prev, dlq, marks : proc' = [proc EXCEPT ![p] = Opening(p, prev, dlq, marks)]
    BY <1>1, BeginOpens
  <2> DEFINE q == Opening(p, prev, dlq, marks)
  <2>2. q.batch = Batch(Static, clock)
    BY OpeningFields
  <2> HIDE DEF q
  <2>3. Gains(q)
    BY <2>2 DEF Batch, Outside
  <2> QED BY <2>1, <2>3 DEF q
<1>2. CASE Defer(p)
  <2>1. [proc[p] EXCEPT !.todo = {}].batch = proc[p].batch
    BY <1>t DEF Procs
  <2> QED BY <1>2, <2>1 DEF Defer
<1>3. CASE Flush(p)
  <2>1. [proc[p] EXCEPT !.pc = "sweep"].batch = proc[p].batch
    BY <1>t DEF Procs
  <2> QED BY <1>3, <2>1 DEF Flush
<1>4. CASE LaneEnd(p)
  <2> DEFINE lane == IF proc[p].lane = "fast" THEN "api" ELSE "browser"
  <2> HIDE DEF lane
  <2>1. [proc[p] EXCEPT !.lane = lane].batch = proc[p].batch
    BY <1>t DEF Procs
  <2> QED BY <1>4, <2>1 DEF LaneEnd, lane
<1>5. CASE Finish(p)
  <2>1. CASE proc' = [proc EXCEPT ![p] = Idle]
    BY <1>i, <2>1
  <2>2. ASSUME NEW brought \in SUBSET deployment.streams,
               proc' = [proc EXCEPT ![p] = Ready(p, Joined(brought, p))]
        PROVE  \E q : proc' = [proc EXCEPT ![p] = q] /\ Gains(q)
    <3> DEFINE q == Ready(p, Joined(brought, p))
    <3>1. q.batch = Joined(brought, p)
      BY DeploymentTyped, JoinedTyped, ReadyFields
    <3>2. Joined(brought, p)[a] # Gone => a \in brought \/ proc[p].batch[a] # Gone
      BY DeploymentTyped, JoinedTyped
    <3>3. a \in brought => Owner[a] \in Outside
      BY DEF Outside
    <3> HIDE DEF q
    <3>4. Gains(q)
      BY <3>1, <3>2, <3>3
    <3> QED BY <2>2, <3>4 DEF q
  <2> QED BY <1>5, <2>1, <2>2, FinishSteps
<1>6. CASE Save(p) \/ Stage(p) \/ Crash(p)
  BY <1>i, <1>6 DEF Save, Stage, Crash
<1>7. CASE \E s \in Sources : Skip(p, s) \/ Pace(p, s)
  <2>1. PICK s \in Sources : Skip(p, s) \/ Pace(p, s)
    BY <1>7
  <2>2. PICK m \in Marks : Pass(p, s, m)
    BY <2>1, NotRunTyped, MarkTyped DEF Skip, Pace
  <2>3. proc' = [proc EXCEPT ![p] = Done(p, s, m)] /\ Done(p, s, m).batch = proc[p].batch
    BY <2>2, DoneTyped DEF Pass
  <2> QED BY <1>k, <2>3
<1>8. CASE \E s \in Sources : Record(p, s)
  <2>1. PICK s \in Sources : Record(p, s)
    BY <1>8
  <2> DEFINE q == [proc[p] EXCEPT !.recording = @ \ {s}, !.record[s] = NoMark]
  <2>2. proc' = [proc EXCEPT ![p] = q]
    BY <2>1, RecordFrom
  <2>3. q.batch = proc[p].batch
    BY <1>t DEF Procs
  <2> QED BY <2>2, <2>3
<1> QED BY <1>1, <1>2, <1>3, <1>4, <1>5, <1>6, <1>7, <1>8

LEMMA WorldFrom ==
  ASSUME ProgramTypeOK, FeedsServeOwn, World PROVE FeedsServeOwn' /\ UNCHANGED <<proc, staged>>
<1>1. CASE Tick
  BY <1>1 DEF Tick, FeedsServeOwn
<1>2. ASSUME NEW s \in deployment.registry, Publish(s)
      PROVE  FeedsServeOwn' /\ UNCHANGED <<proc, staged>>
  <2>1. PICK items \in SUBSET Items(s) :
          feed' = [feed EXCEPT ![s] = [items |-> items, edition |-> @.edition + 1]]
    BY <1>2 DEF Publish
  <2>2. feed \in [Sources -> [items : SUBSET Alerts, edition : Nat]]
    BY DEF ProgramTypeOK
  <2> QED BY <1>2, <2>1, <2>2 DEF Publish, FeedsServeOwn
<1> QED BY <1>1, <1>2 DEF World

LEMMA FeedsInit == ASSUME CycleInit PROVE FeedsServeOwn
<1>1. PICK serving \in SUBSET deployment.registry :
        feed = [s \in Sources |-> [items |-> IF s \in serving THEN Items(s) ELSE {},
                                   edition |-> 1]]
  BY DEF CycleInit
<1> QED BY <1>1 DEF FeedsServeOwn

LEMMA MergesFrom ==
  ASSUME ProgramTypeOK, Merges, NEW w \in Workers
  PROVE  proc'[w] = proc[w]
<1>1. w # "merge" /\ w \in Roles
  BY DEF Workers, Roles
<1> QED BY <1>1 DEF Merges, MergeLoad, MergeSave, ProgramTypeOK

\* What is staged at the end of a sweep was fetched by the worker, or known and of its own lane.
LEMMA StageFrom ==
  ASSUME ProgramTypeOK, BatchIsOwn, StagedAreOwn, NEW p \in Roles, Stage(p)
  PROVE  StagedAreOwn'
<1>d. UNCHANGED deployment
  BY DEF Stage
<1> SUFFICES ASSUME NEW w \in Workers, NEW a \in Alerts, staged'[w][a] # Gone PROVE Own(w, a)
  BY <1>d DEF StagedAreOwn, Own, Outside
<1>1. CASE staged'[w][a] = staged[w][a]
  BY <1>1 DEF StagedAreOwn, Own
<1>2. CASE staged'[w][a] # staged[w][a]
  <2>1. p = w /\ staged'[w] = Visible(Reconciled(w))
    BY <1>2 DEF Stage, ProgramTypeOK
  <2>2. Reconciled(w)[a] # Gone
    BY <2>1 DEF Visible
  <2>3. CASE proc[w].batch[a] # Gone
    BY <2>3 DEF BatchIsOwn
  <2>4. CASE proc[w].batch[a] = Gone
    <3>1. Purged(proc[w].prev, Mine(w) \cup Owners(proc[w].batch))[a] # Gone
      BY <2>2, <2>4, KeptWasKnown DEF Reconciled
    <3>2. Owner[a] \in Mine(w) \cup Owners(proc[w].batch)
      BY <3>1 DEF Purged
    <3>3. CASE Owner[a] \in Mine(w)
      BY <3>3 DEF Mine, Workers, Own
    <3>4. CASE Owner[a] \in Owners(proc[w].batch)
      <4>1. PICK b \in Alerts : proc[w].batch[b] # Gone /\ Owner[b] = Owner[a]
        BY <3>4 DEF Owners
      <4>2. Own(w, b)
        BY <4>1 DEF BatchIsOwn
      <4> QED BY <4>1, <4>2 DEF Own
    <3> QED BY <3>2, <3>3, <3>4
  <2> QED BY <2>3, <2>4
<1> QED BY <1>1, <1>2

\* Of the registry a worker stages alerts of its own lane only, whatever the shared table, the
\* snapshots of other roles and the alerts of removed sources put into what it read: Reconcile
\* keeps what purgeOrphanAlerts leaves, and that is of the worker's own sources or of sources
\* its batch brings from outside the registry, the static entry and the topics.
THEOREM WorkersStageOwn == HistorySpec => []StagedAreOwn
<1>1. HistoryInit => OwnInv
  <2> SUFFICES ASSUME HistoryInit PROVE OwnInv
    OBVIOUS
  <2>1. FeedsServeOwn
    BY FeedsInit DEF HistoryInit
  <2>2. BatchIsOwn
    BY DEF HistoryInit, CycleInit, BatchIsOwn, Idle, Empty, Roles
  <2>3. StagedAreOwn
    BY DEF HistoryInit, CycleInit, StagedAreOwn, Empty
  <2> QED BY <2>1, <2>2, <2>3 DEF OwnInv
<1>2. CycleTypeOK /\ OwnInv /\ [HistoryNext]_historyVars => OwnInv'
  <2> SUFFICES ASSUME ProgramTypeOK, OwnInv, [HistoryNext]_historyVars PROVE OwnInv'
    BY DEF CycleTypeOK
  <2>o. FeedsServeOwn /\ BatchIsOwn /\ StagedAreOwn
    BY DEF OwnInv
  <2>w. Workers \subseteq Roles /\ deployment.roles \subseteq Roles
    BY DeploymentTyped DEF Roles
  <2>d. UNCHANGED deployment
    BY StepFrame
  <2>e. \A w \in Workers : \A a \in Alerts : Own(w, a)' <=> Own(w, a)
    BY <2>d DEF Own, Outside
  <2>s. UNCHANGED staged => StagedAreOwn'
    BY <2>o, <2>d DEF StagedAreOwn, Outside
  <2>k. ASSUME UNCHANGED feed, StagedAreOwn',
               \A w \in Workers : \A a \in Alerts :
                  proc'[w].batch[a] # Gone => proc[w].batch[a] # Gone \/ Own(w, a)
        PROVE  OwnInv'
    <3>1. FeedsServeOwn'
      BY <2>k, <2>o DEF FeedsServeOwn
    <3>2. BatchIsOwn'
      BY <2>k, <2>o, <2>e DEF BatchIsOwn
    <3> QED BY <2>k, <3>1, <3>2 DEF OwnInv
  <2>1. CASE UNCHANGED historyVars
    <3>1. UNCHANGED <<feed, proc, staged>>
      BY <2>1 DEF historyVars, cycleVars
    <3> QED BY <2>k, <2>s, <3>1
  <2>2. CASE World
    <3>1. FeedsServeOwn' /\ UNCHANGED <<proc, staged>>
      BY <2>2, <2>o, WorldFrom
    <3>2. BatchIsOwn'
      BY <2>o, <2>e, <3>1 DEF BatchIsOwn
    <3> QED BY <2>s, <3>1, <3>2 DEF OwnInv
  <2>3. CASE Merges
    <3>1. UNCHANGED <<feed, staged>>
      BY <2>3 DEF Merges, MergeLoad, MergeSave
    <3>2. \A w \in Workers : proc'[w] = proc[w]
      BY <2>3, MergesFrom
    <3> QED BY <2>k, <2>s, <3>1, <3>2
  <2>4. ASSUME NEW p \in deployment.roles, HistoryOfSweep(p) PROVE OwnInv'
    <3>a. /\ p \in Roles
          /\ \/ Begin(p) \/ Defer(p) \/ Flush(p) \/ LaneEnd(p) \/ Finish(p) \/ Save(p) \/ Stage(p)
             \/ Crash(p)
      BY <2>w, <2>4 DEF HistoryOfSweep
    <3>1. \A w \in Workers : \A a \in Alerts :
             proc'[w].batch[a] # Gone => proc[w].batch[a] # Gone \/ Owner[a] \in Outside
      BY <2>w, <3>a, SweepFrom
    <3>2. UNCHANGED feed
      BY <3>a DEF Begin, Defer, Flush, LaneEnd, Finish, Save, Stage, Crash
    <3>3. StagedAreOwn'
      <4>1. CASE Stage(p)
        BY <3>a, <2>o, <4>1, StageFrom
      <4>2. CASE ~Stage(p)
        <5>1. UNCHANGED staged
          BY <3>a, <4>2 DEF Begin, Defer, Flush, LaneEnd, Finish, Save, Crash
        <5> QED BY <5>1, <2>s
      <4> QED BY <4>1, <4>2
    <3> QED BY <2>k, <3>1, <3>2, <3>3 DEF Own
  <2>5. ASSUME NEW p \in deployment.roles, NEW s \in Sources, HistoryOfSource(p, s) PROVE OwnInv'
    <3>a. /\ p \in Roles
          /\ \/ Skip(p, s) \/ Pace(p, s) \/ Record(p, s)
             \/ FetchFull(p, s) \/ FetchUnchanged(p, s) \/ FetchFails(p, s)
      BY <2>w, <2>5 DEF HistoryOfSource
    <3>1. UNCHANGED <<feed, staged>>
      BY <3>a DEF Skip, Pace, Pass, Record, FetchFull, FetchUnchanged, FetchFails, Collect
    <3>2. StagedAreOwn'
      BY <3>1, <2>s
    <3>3. CASE Skip(p, s) \/ Pace(p, s) \/ Record(p, s)
      <4>1. \A w \in Workers : \A a \in Alerts :
               proc'[w].batch[a] # Gone => proc[w].batch[a] # Gone \/ Owner[a] \in Outside
        BY <2>w, <3>a, <3>3, SweepFrom
      <4> QED BY <2>k, <3>1, <3>2, <4>1 DEF Own
    <3>4. CASE FetchFull(p, s) \/ FetchUnchanged(p, s) \/ FetchFails(p, s)
      <4>1. GainsFrom(feed[s].items, s)
        BY <3>a, <3>4, FetchFrom
      <4>2. \A a \in feed[s].items : Owner[a] = s
        BY <2>o DEF FeedsServeOwn, Items
      <4>3. \A w \in Workers : \A a \in Alerts :
               proc'[w].batch[a] # Gone => proc[w].batch[a] # Gone \/ Own(w, a)
        BY <4>1, <4>2 DEF GainsFrom, Own
      <4> QED BY <2>k, <3>1, <3>2, <4>3
    <3> QED BY <3>a, <3>3, <3>4
  <2> QED BY <2>1, <2>2, <2>3, <2>4, <2>5 DEF HistoryNext
<1>3. OwnInv => StagedAreOwn
  BY DEF OwnInv
<1> QED BY <1>1, <1>2, <1>3, CollectorTypes, PTL DEF HistorySpec

-----------------------------------------------------------------------------
(* One collector alone: the invariant                                        *)

P       == proc["all"]
Fetched == {a \in Alerts : P.batch[a] # Gone}

StatusBySighting(a) ==
    IF a \in past.latest \/ (Owner[a] \in Accumulating /\ a \notin Weak)
    THEN IF a \in Weak THEN "filtered" ELSE "active"
    ELSE StatusAtAge(past.saved - past.seen[a])
FaithfulRow(row, a) ==
    /\ a \in past.latest =>
          row.last = past.saved /\ row.status = IF a \in Weak THEN "filtered" ELSE "active"
    /\ Owner[a] \notin Outside =>
          IF past.seen[a] = Never
          THEN row = Gone \/ (past.saved = Never /\ Owner[a] \notin deployment.registry)
          ELSE (row # Gone => row.last = past.seen[a]) /\ row.status = StatusBySighting(a)
Faithful(T) == \A a \in Alerts : FaithfulRow(T[a], a)

\* A sweep begins after the last saved one.
Clocks == /\ 1 <= clock /\ past.saved <= clock
          /\ P.pc # "idle" => 1 <= P.start /\ past.saved <= P.start /\ P.start <= clock

\* What is fetched is of the registry or from outside, and what was fetched last was seen last.
Sightings ==
    /\ \A a \in Alerts : P.batch[a] # Gone => Owner[a] \in deployment.registry \cup Outside
    /\ \A a \in Alerts : past.seen[a] # Never => Owner[a] \in deployment.registry \cup Outside
    /\ \A a \in past.latest : past.seen[a] = past.saved /\ past.saved # Never

\* Between sweeps the table, and in a sweep what it has read of it, follows the sightings.
Aged == past.intact => IF P.pc = "idle" THEN Faithful(table) ELSE Faithful(P.prev)

\* A source waits for its mark in its own lane, and nowhere once the sweep is over.
Lanes ==
    /\ P.todo \subseteq deployment.registry /\ P.recording \subseteq deployment.registry
    /\ \A s \in P.recording : Lane[s] = P.lane /\ Lane[s] # "browser"
    /\ P.pc \in {"idle", "save"} => P.todo = {} /\ P.recording = {}
    /\ P.pc = "idle" => P.batch = Empty

\* A hash stands for alerts that some saved sweep has seen or that are in the batch; and where
\* no run record was lost, for alerts of the batch while a sweep runs, of the last saved one
\* between sweeps.
Hashes ==
    /\ \A s \in Sources : mark[s].ok => s \in deployment.registry
    /\ past.intact =>
          \A s \in Sources : mark[s].ok =>
             \A a \in mark[s].hash : past.seen[a] # Never \/ P.batch[a] # Gone
    /\ P.pc # "idle" =>
          /\ \A s \in deployment.registry \ (P.todo \cup P.recording) :
                mark[s].ok /\ s \notin past.lost => mark[s].hash \subseteq Fetched
          /\ \A s \in P.recording : P.record[s].ok => P.record[s].hash \subseteq Fetched
    /\ P.pc = "idle" /\ past.intact =>
          \A s \in Sources : mark[s].ok /\ s \notin past.lost => mark[s].hash \subseteq past.latest

\* The dead letters are never older than the failures they stand for, and the file tells no more
\* than what has failed.
Letters ==
    /\ \A s \in Sources : past.known[s] <= dead[s]
    /\ P.pc \in {"idle", "save"} => past.failed = past.known
    /\ P.pc \in {"sweep", "flush"} =>
          /\ \A s \in Sources : past.failed[s] <= P.dlq[s]
          /\ \A s \in P.todo : past.known[s] <= past.failed[s]

SweepInv == Clocks /\ Sightings /\ Aged /\ Lanes /\ Hashes /\ Letters

Story == <<past.seen, past.saved, past.latest, past.intact>>

LEMMA AllTyped ==
  ASSUME ProgramTypeOK
  PROVE  /\ "all" \in Roles /\ P \in Procs /\ Mine("all") = deployment.registry
         /\ P.start \in Nat /\ P.batch \in Tables /\ P.prev \in Tables /\ P.dlq \in [Sources -> Nat]
         /\ P.record \in [Sources -> Marks] /\ P.todo \subseteq Sources
         /\ P.recording \subseteq Sources
<1>1. "all" \in Roles
  BY DEF Roles
<1>2. P \in Procs
  BY <1>1 DEF ProgramTypeOK, P
<1> QED BY <1>1, <1>2 DEF Procs, Mine

\* A process that has ended its sweep holds nothing.
LEMMA Ended ==
  ASSUME ProgramTypeOK, proc' = [proc EXCEPT !["all"] = Idle]
  PROVE  /\ P'.pc = "idle" /\ P'.todo = {} /\ P'.recording = {} /\ P'.batch = Empty
<1>1. P' = Idle
  BY AllTyped DEF P, ProgramTypeOK
<1> QED BY <1>1 DEF Idle

-----------------------------------------------------------------------------
\* The parts that a step in the middle of a sweep cannot disturb.
Goes == /\ P.pc # "idle" /\ P'.pc # "idle" /\ P'.start = P.start /\ P'.prev = P.prev
        /\ UNCHANGED <<deployment, clock, Story>>

LEMMA GoesOn ==
  ASSUME Clocks, Aged, Sightings, Goes,
         \A a \in Alerts : P'.batch[a] # Gone =>
                              P.batch[a] # Gone \/ Owner[a] \in deployment.registry \cup Outside
  PROVE  Clocks' /\ Aged' /\ Sightings'
<1>1. /\ past'.seen = past.seen /\ past'.saved = past.saved /\ past'.latest = past.latest
      /\ past'.intact = past.intact /\ UNCHANGED <<deployment, clock>> /\ Outside' = Outside
  BY DEF Goes, Story, Outside
<1>2. Clocks'
  BY <1>1 DEF Goes, Clocks
<1>3. Aged'
  <2>2. past'.intact => Faithful(P.prev)
    BY <1>1 DEF Goes, Aged
  <2>3. ASSUME NEW a \in Alerts, FaithfulRow(P.prev[a], a) PROVE FaithfulRow(P.prev[a], a)'
    <3>1. P'.prev = P.prev /\ StatusBySighting(a)' = StatusBySighting(a)
      BY <1>1 DEF Goes, StatusBySighting
    <3> QED BY <1>1, <2>3, <3>1 DEF FaithfulRow
  <2> QED BY <2>2, <2>3 DEF Goes, Aged, Faithful
<1>4. Sightings'
  BY <1>1 DEF Goes, Sightings
<1> QED BY <1>2, <1>3, <1>4

\* A sweep that is lost leaves a history that says nothing.
LEMMA Lost ==
  ASSUME ProgramTypeOK, past \in Past, Clocks, Sightings, Lanes, Hashes, UNCHANGED <<deployment, clock, mark>>,
         proc' = [proc EXCEPT !["all"] = Idle],
         past'.seen = Nothing, past'.saved = Never, past'.latest = {}, past'.intact = FALSE
  PROVE  Clocks' /\ Sightings' /\ Aged' /\ Lanes' /\ Hashes'
<1>1. Clocks'
  BY Ended DEF Clocks, ProgramTypeOK, Never
<1>2. Sightings'
  BY Ended DEF Sightings, Nothing, Empty
<1>3. Aged' /\ Lanes' /\ Hashes'
  BY Ended DEF Aged, Lanes, Hashes
<1> QED BY <1>1, <1>2, <1>3

LEMMA WorldKeeps ==
  ASSUME ProgramTypeOK, past \in Past, SweepInv, World, UNCHANGED past PROVE SweepInv'
<1>1. UNCHANGED <<deployment, table, mark, dead, proc>> /\ clock' \in {clock, clock + 1}
  BY DEF World, Tick, Publish
<1>2. P' = P /\ Outside' = Outside
  BY <1>1 DEF P, Outside
<1>3. Clocks'
  BY <1>1, <1>2, AllTyped DEF SweepInv, Clocks, ProgramTypeOK, Past
<1>4. Sightings' /\ Lanes'
  BY <1>1, <1>2 DEF SweepInv, Sightings, Lanes
<1>5. Aged'
  BY <1>1, <1>2 DEF SweepInv, Aged, Faithful, FaithfulRow, StatusBySighting
<1>6. Hashes' /\ Letters'
  BY <1>1, <1>2 DEF SweepInv, Hashes, Letters, Fetched
<1> QED BY <1>3, <1>4, <1>5, <1>6 DEF SweepInv

LEMMA BeginKeeps ==
  ASSUME ProgramTypeOK, past \in Past, SweepInv, Begin("all"), past' = Opened("all")
  PROVE  SweepInv'
<1>1. PICK prev \in {table, Empty}, dlq \in {dead, NoLetters}, marks \in {mark, NoMarks} :
        proc' = [proc EXCEPT !["all"] = Opening("all", prev, dlq, marks)]
  BY AllTyped, BeginOpens
<1>2. P' = Opening("all", prev, dlq, marks)
  BY <1>1, AllTyped DEF P, ProgramTypeOK
<1>3. /\ P'.pc = "sweep" /\ P'.start = clock /\ P'.todo = deployment.registry /\ P'.dlq = dlq
      /\ P'.recording = {} /\ P'.batch = Batch(Static, clock) /\ P'.prev = prev
  BY <1>2, AllTyped, OpeningFields
<1>4. P.pc = "idle" /\ UNCHANGED <<deployment, clock, table, mark, dead>> /\ Outside' = Outside
  BY DEF Begin, P, Outside
<1>5. proc'["all"].prev = prev /\ proc'["all"].dlq = dlq
  BY <1>3 DEF P
<1> DEFINE h == IF prev = table THEN past ELSE Broken(past)
<1>6. past' = IF dlq = dead THEN h ELSE [h EXCEPT !.failed = NoLetters, !.known = NoLetters]
  BY <1>5 DEF Opened
<1>7. h \in Past
  BY BrokenTyped
<1>8. /\ h.failed = past.failed /\ h.known = past.known /\ h.lost = past.lost
      /\ h.intact => h = past /\ prev = table
      /\ h = past \/ (h.seen = Nothing /\ h.saved = Never /\ h.latest = {})
  BY DEF Broken, Past
<1> HIDE DEF h
<1>9. /\ past'.seen = h.seen /\ past'.saved = h.saved /\ past'.latest = h.latest
      /\ past'.intact = h.intact /\ past'.lost = h.lost
      /\ IF dlq = dead THEN past'.failed = h.failed /\ past'.known = h.known
         ELSE past'.failed = NoLetters /\ past'.known = NoLetters
  BY <1>6, <1>7 DEF Past
<1>10. Clocks'
  BY <1>3, <1>4, <1>8, <1>9 DEF SweepInv, Clocks, Never, ProgramTypeOK
<1>11. Sightings'
  <2>1. \A a \in Alerts : P'.batch[a] # Gone => Owner[a] \in Outside
    BY <1>3 DEF Batch, Outside
  <2>2. \A a \in Alerts : past'.seen[a] # Never => Owner[a] \in deployment.registry \cup Outside
    BY <1>8, <1>9 DEF SweepInv, Sightings, Nothing
  <2>3. \A a \in past'.latest : past'.seen[a] = past'.saved /\ past'.saved # Never
    BY <1>8, <1>9 DEF SweepInv, Sightings
  <2>4. deployment' = deployment /\ Outside' = Outside
    BY <1>4
  <2>5. /\ \A a \in Alerts : P'.batch[a] # Gone => Owner[a] \in deployment'.registry \cup Outside'
        /\ \A a \in Alerts : past'.seen[a] # Never =>
              Owner[a] \in deployment'.registry \cup Outside'
    BY ONLY <2>1, <2>2, <2>4
  <2> QED BY ONLY <2>3, <2>5 DEF Sightings, Never
<1>12. Aged'
  <2>1. past'.intact => /\ past.intact /\ P'.prev = table
                        /\ past'.seen = past.seen /\ past'.saved = past.saved
                        /\ past'.latest = past.latest
    BY <1>3, <1>8, <1>9
  <2>2. deployment' = deployment /\ Outside' = Outside /\ P.pc = "idle" /\ P'.pc # "idle"
    BY <1>3, <1>4
  <2>3. past.intact => Faithful(table)
    BY <2>2 DEF SweepInv, Aged
  <2>4. past'.intact => (\A a \in Alerts : FaithfulRow(P.prev[a], a))'
    BY ONLY <2>1, <2>2, <2>3 DEF Faithful, FaithfulRow, StatusBySighting
  <2> QED BY ONLY <2>2, <2>4 DEF Aged, Faithful
<1>13. Lanes'
  BY <1>3, <1>4 DEF SweepInv, Lanes
<1>14. Hashes'
  <2>1. past'.intact => past.intact /\ past'.seen = past.seen
    BY <1>8, <1>9
  <2>2. P.pc = "idle" => P.batch = Empty
    BY DEF SweepInv, Lanes
  <2>3. ASSUME past.intact, NEW s \in Sources, mark[s].ok, NEW a \in mark[s].hash
        PROVE  past.seen[a] # Never
    <3>1. a \in Alerts
      BY DEF ProgramTypeOK, Marks
    <3>2. P.batch[a] = Gone
      BY <1>4, <2>2, <3>1 DEF Empty
    <3> QED BY <2>3, <3>2 DEF SweepInv, Hashes
  <2> QED BY <1>3, <1>4, <2>1, <2>3 DEF SweepInv, Hashes
<1>15. Letters'
  <2>1. past.failed = past.known /\ \A s \in Sources : past.known[s] <= dead[s]
    BY <1>4 DEF SweepInv, Letters
  <2>2. P'.pc \notin {"idle", "save"}
    BY <1>3
  <2>3. P'.todo \subseteq Sources
    BY <1>3, DeploymentTyped
  <2>4. CASE dlq = dead
    BY <1>3, <1>4, <1>8, <1>9, <2>1, <2>2, <2>3, <2>4 DEF Letters, Past
  <2>5. CASE dlq # dead
    <3>1. past'.failed = NoLetters /\ past'.known = NoLetters /\ dlq = NoLetters
      BY <1>9, <2>5
    <3>2. dead \in [Sources -> Nat]
      BY DEF ProgramTypeOK
    <3> QED BY <1>3, <1>4, <2>2, <2>3, <3>1, <3>2 DEF Letters, NoLetters, Never
  <2> QED BY <2>4, <2>5
<1> QED BY <1>10, <1>11, <1>12, <1>13, <1>14, <1>15 DEF SweepInv

\* A source that is passed over leaves the sweep, and its mark no longer holds.
LEMMA MarkTold ==
  ASSUME ProgramTypeOK, past \in Past, NEW s \in Sources, NEW m \in Marks, MarkStep(s, m),
         past'.lost = Unrecorded(Here(s))
  PROVE  /\ \A r \in Sources \ {s} : mark'[r] = mark[r] /\ (r \in past'.lost <=> r \in past.lost)
         /\ mark'[s] \in {m, mark[s]}
         /\ InPlace(s) => mark'[s] = m \/ s \in past'.lost
         /\ ~InPlace(s) => mark' = mark /\ past'.lost = past.lost
<1>t. mark \in [Sources -> Marks]
  BY DEF ProgramTypeOK
<1>1. CASE InPlace(s)
  <2>1. past'.lost = (past.lost \ {s}) \cup {r \in {s} : mark'[r] = mark[r] /\ failures' # failures}
    BY <1>1 DEF Unrecorded, Here
  <2> QED BY <1>t, <1>1, <2>1 DEF MarkStep
<1>2. CASE ~InPlace(s)
  <2>1. past'.lost = past.lost
    BY <1>2 DEF Unrecorded, Here
  <2> QED BY <1>t, <1>2, <2>1 DEF MarkStep
<1> QED BY <1>1, <1>2

\* What taking a source off the list leaves of the hashes.
LEMMA HashesStep ==
  ASSUME ProgramTypeOK, past \in Past, Hashes, NEW s \in Sources, s \in deployment.registry,
         NEW items \in SUBSET Alerts, NEW m \in Marks, m.ok => m.hash \subseteq items,
         MarkStep(s, m), past'.lost = Unrecorded(Here(s)), UNCHANGED <<deployment, Story>>,
         P.pc # "idle", P'.pc # "idle", P'.todo = P.todo \ {s},
         \A a \in Alerts : P'.batch[a] # Gone <=> a \in items \/ P.batch[a] # Gone,
         P'.recording = IF InPlace(s) THEN P.recording ELSE P.recording \cup {s},
         P'.record = IF InPlace(s) THEN P.record ELSE [P.record EXCEPT ![s] = m]
  PROVE  Hashes'
<1>1. /\ \A r \in Sources \ {s} : mark'[r] = mark[r] /\ (r \in past'.lost <=> r \in past.lost)
      /\ mark'[s] \in {m, mark[s]}
      /\ InPlace(s) => mark'[s] = m \/ s \in past'.lost
  BY MarkTold
<1>2. past'.seen = past.seen /\ past'.intact = past.intact
  BY DEF Story
<1>3. Fetched' = Fetched \cup items
  BY DEF Fetched
<1>4. \A r \in Sources : mark[r].ok => r \in deployment.registry
  BY DEF Hashes
<1>5. \A r \in Sources : mark'[r].ok => r \in deployment.registry
  BY <1>1, <1>4
<1>6. ASSUME past'.intact, NEW r \in Sources, mark'[r].ok, NEW a \in mark'[r].hash
      PROVE  past'.seen[a] # Never \/ P'.batch[a] # Gone
  <2>1. a \in Alerts
    <3>1. mark'[r] \in Marks
      BY <1>1 DEF ProgramTypeOK
    <3> QED BY <1>6, <3>1 DEF Marks
  <2>2. CASE mark'[r] = mark[r]
    <3>1. past.seen[a] # Never \/ P.batch[a] # Gone
      BY <1>2, <1>6, <2>2 DEF Hashes
    <3> QED BY <1>2, <2>1, <3>1
  <2>3. CASE mark'[r] = m
    BY <1>6, <2>1, <2>3
  <2> QED BY <1>1, <2>2, <2>3
<1>7. ASSUME NEW r \in deployment.registry \ (P'.todo \cup P'.recording), mark'[r].ok,
             r \notin past'.lost
      PROVE  mark'[r].hash \subseteq Fetched'
  <2>0. r \in Sources
    BY DeploymentTyped
  <2>1. CASE r = s
    <3>1. InPlace(s)
      BY <1>7, <2>1
    <3>2. mark'[r] = m
      BY <1>1, <1>7, <2>1, <3>1
    <3> QED BY <1>3, <1>7, <3>2
  <2>2. CASE r # s
    <3>1. r \notin P.todo \cup P.recording
      BY <1>7, <2>2
    <3>2. mark'[r] = mark[r] /\ r \notin past.lost
      BY <1>1, <1>7, <2>0, <2>2
    <3>3. mark[r].hash \subseteq Fetched
      BY <1>7, <3>1, <3>2 DEF Hashes
    <3> QED BY <1>3, <3>2, <3>3
  <2> QED BY <2>1, <2>2
<1>8. ASSUME NEW r \in P'.recording, P'.record[r].ok PROVE P'.record[r].hash \subseteq Fetched'
  <2>1. \/ r = s /\ P'.record[r] = m
        \/ r \in P.recording /\ P'.record[r] = P.record[r]
    BY <1>8, AllTyped
  <2>2. CASE r = s /\ P'.record[r] = m
    BY <1>3, <1>8, <2>2
  <2>3. CASE r \in P.recording /\ P'.record[r] = P.record[r]
    <3>1. P.record[r].hash \subseteq Fetched
      BY <1>8, <2>3 DEF Hashes
    <3> QED BY <1>3, <2>3, <3>1
  <2> QED BY <2>1, <2>2, <2>3
<1> HIDE DEF Fetched
<1> QED BY <1>5, <1>6, <1>7, <1>8 DEF Hashes

\* A source that is passed over leaves the sweep, and its mark no longer holds.
LEMMA PassKeeps ==
  ASSUME ProgramTypeOK, past \in Past, SweepInv, NEW s \in Sources, NEW m \in Marks, ~m.ok,
         Pass("all", s, m), past' = [past EXCEPT !.lost = Unrecorded(Here(s))]
  PROVE  SweepInv'
<1>1. P' = Done("all", s, m) /\ MarkStep(s, m)
  BY AllTyped, PassMarks DEF Pass, P, ProgramTypeOK
<1>2. /\ P.pc = "sweep" /\ s \in P.todo /\ s \in deployment.registry /\ Lane[s] = P.lane
      /\ UNCHANGED <<deployment, clock, dead, table>>
  BY AllTyped DEF Pass, Takes, Current, P
<1>3. /\ P'.pc = P.pc /\ P'.lane = P.lane /\ P'.start = P.start /\ P'.prev = P.prev
      /\ P'.batch = P.batch /\ P'.dlq = P.dlq /\ P'.todo = P.todo \ {s}
      /\ P'.recording = (IF InPlace(s) THEN P.recording ELSE P.recording \cup {s})
      /\ P'.record = IF InPlace(s) THEN P.record ELSE [P.record EXCEPT ![s] = m]
  BY <1>1, AllTyped DEF Done, Procs, P
<1>4. /\ UNCHANGED Story /\ past'.known = past.known /\ past'.failed = past.failed
      /\ past'.lost = Unrecorded(Here(s))
  BY DEF Story, Past
<1>5. Goes
  BY <1>2, <1>3, <1>4 DEF Goes
<1>6. Clocks' /\ Aged' /\ Sightings'
  BY <1>3, <1>5, GoesOn DEF SweepInv
<1>7. Lanes'
  BY <1>2, <1>3 DEF SweepInv, Lanes, InPlace
<1>8. Hashes'
  <2> DEFINE none == {}
  <2>1. none \in SUBSET Alerts /\ (m.ok => m.hash \subseteq none)
    OBVIOUS
  <2>2. \A a \in Alerts : P'.batch[a] # Gone <=> a \in none \/ P.batch[a] # Gone
    BY <1>3
  <2>3. P.pc # "idle" /\ P'.pc # "idle" /\ UNCHANGED <<deployment, Story>> /\ Hashes
    BY <1>2, <1>3, <1>4 DEF SweepInv
  <2> HIDE DEF none
  <2> QED BY <1>1, <1>2, <1>3, <1>4, <2>1, <2>2, <2>3, HashesStep
<1>9. Letters'
  BY <1>2, <1>3, <1>4 DEF SweepInv, Letters
<1> QED BY <1>6, <1>7, <1>8, <1>9 DEF SweepInv

\* What the section under the mutex makes of the sweep.
LEMMA CollectFields ==
  ASSUME ProgramTypeOK, NEW s \in Sources, NEW items \in SUBSET Alerts, NEW m \in Marks,
         NEW attempt \in Nat, Collect("all", s, items, m, attempt)
  PROVE  /\ P.pc = "sweep" /\ s \in P.todo /\ s \in deployment.registry /\ Lane[s] = P.lane
         /\ MarkStep(s, m) /\ UNCHANGED <<deployment, clock, dead>>
         /\ P'.pc \in {"sweep", "flush"} /\ P'.lane = P.lane /\ P'.start = P.start
         /\ P'.prev = P.prev /\ P'.batch = Joined(items, "all")
         /\ P'.dlq = [P.dlq EXCEPT ![s] = attempt] /\ P'.todo = P.todo \ {s}
         /\ P'.recording = (IF InPlace(s) THEN P.recording ELSE P.recording \cup {s})
         /\ P'.record = IF InPlace(s) THEN P.record ELSE [P.record EXCEPT ![s] = m]
<1>r. "all" \in Roles
  BY DEF Roles
<1>0. PICK q \in Procs : CollectedBy("all", s, items, m, attempt, q)
  BY <1>r, CollectRuns
<1>1. proc' = [proc EXCEPT !["all"] = q]
  BY <1>0 DEF CollectedBy
<1>m. MarkStep(s, m)
  BY <1>r, CollectSteps
<1>2. /\ q.batch = Joined(items, "all") /\ q.pc \in {"sweep", "flush"}
      /\ q.lane = P.lane /\ q.start = P.start /\ q.prev = P.prev
      /\ q.dlq = [P.dlq EXCEPT ![s] = attempt] /\ q.todo = P.todo \ {s}
      /\ q.recording = (IF InPlace(s) THEN P.recording ELSE P.recording \cup {s})
      /\ q.record = IF InPlace(s) THEN P.record ELSE [P.record EXCEPT ![s] = m]
  BY <1>0 DEF CollectedBy, P
<1>3. /\ P.pc = "sweep" /\ s \in P.todo /\ s \in deployment.registry /\ Lane[s] = P.lane
      /\ UNCHANGED <<deployment, clock, dead>>
  BY AllTyped DEF Collect, Takes, Current, P
<1>4. P' = q
  BY <1>1, AllTyped DEF P, ProgramTypeOK
<1> QED BY <1>m, <1>2, <1>3, <1>4

LEMMA CollectKeeps ==
  ASSUME ProgramTypeOK, past \in Past, SweepInv,
         NEW s \in Sources, NEW items \in SUBSET Items(s), NEW m \in Marks, NEW attempt \in Nat,
         NEW n \in Nat, Collect("all", s, items, m, attempt), m.ok => m.hash = items, n <= attempt,
         UNCHANGED Story, past'.known = past.known, past'.failed = [past.failed EXCEPT ![s] = n],
         past'.lost = Unrecorded(Here(s))
  PROVE  SweepInv'
<1>1. items \in SUBSET Alerts /\ \A a \in items : Owner[a] = s
  BY DEF Items
<1>2. /\ P.pc = "sweep" /\ s \in P.todo /\ s \in deployment.registry /\ Lane[s] = P.lane
      /\ MarkStep(s, m) /\ UNCHANGED <<deployment, clock, dead>>
  BY <1>1, CollectFields
<1>3. /\ P'.pc \in {"sweep", "flush"} /\ P'.lane = P.lane /\ P'.start = P.start
      /\ P'.prev = P.prev /\ P'.dlq = [P.dlq EXCEPT ![s] = attempt] /\ P'.todo = P.todo \ {s}
      /\ P'.recording = (IF InPlace(s) THEN P.recording ELSE P.recording \cup {s})
      /\ P'.record = IF InPlace(s) THEN P.record ELSE [P.record EXCEPT ![s] = m]
  BY ONLY ProgramTypeOK, s \in Sources, m \in Marks, attempt \in Nat,
          Collect("all", s, items, m, attempt), <1>1, CollectFields
<1>4. P'.batch = Joined(items, "all")
  BY <1>1, CollectFields
<1>5. \A a \in Alerts : P'.batch[a] # Gone <=> a \in items \/ P.batch[a] # Gone
  BY <1>1, <1>4, AllTyped, JoinedTyped DEF P
<1>7. Goes
  BY <1>2, <1>3 DEF Goes
<1>8. Clocks' /\ Aged' /\ Sightings'
  BY <1>1, <1>2, <1>3, <1>5, <1>7, GoesOn DEF SweepInv
<1>9. Lanes'
  BY <1>2, <1>3 DEF SweepInv, Lanes, InPlace
<1>10. Hashes'
  <2>1. P.pc # "idle" /\ P'.pc # "idle" /\ UNCHANGED <<deployment, Story>> /\ Hashes
    BY <1>2, <1>3 DEF SweepInv
  <2>2. m.ok => m.hash \subseteq items
    OBVIOUS
  <2> QED BY <1>1, <1>2, <1>3, <1>5, <2>1, <2>2, HashesStep
<1>11. Letters'
  <2>1. P'.pc \notin {"idle", "save"} /\ P'.pc \in {"sweep", "flush"}
    BY <1>3
  <2>2. \A r \in Sources : past'.known[r] <= dead'[r]
    BY <1>2 DEF SweepInv, Letters
  <2>3. ASSUME NEW r \in Sources PROVE past'.failed[r] <= P'.dlq[r]
    BY <1>2, <1>3, AllTyped DEF SweepInv, Letters, Past
  <2>4. ASSUME NEW r \in P'.todo PROVE past'.known[r] <= past'.failed[r]
    BY <1>2, <1>3, AllTyped DEF SweepInv, Letters, Past
  <2> QED BY <2>1, <2>2, <2>3, <2>4 DEF Letters
<1> QED BY <1>8, <1>9, <1>10, <1>11 DEF SweepInv

\* The three outcomes of a fetch.
LEMMA FetchKeeps ==
  ASSUME ProgramTypeOK, past \in Past, FeedsServeOwn, SweepInv, NEW s \in Sources,
         \/ /\ FetchFull("all", s)
            /\ past' = [past EXCEPT !.scraped[s] = clock, !.failed[s] = Never,
                                    !.lost = Unrecorded(Here(s))]
         \/ /\ FetchUnchanged("all", s)
            /\ past' = [past EXCEPT !.failed[s] = Never, !.lost = Unrecorded(Here(s))]
         \/ /\ FetchFails("all", s)
            /\ past' = [past EXCEPT !.failed[s] = IF P'.dlq[s] = Never THEN Never ELSE P.start,
                                    !.lost = Unrecorded(Here(s))]
  PROVE  SweepInv'
<1>t. /\ feed[s].items \in SUBSET Items(s) /\ feed[s].edition \in Nat /\ clock \in Nat
      /\ P.start \in Nat /\ P.dlq[s] \in Nat /\ P.marks[s].version \in Nat
      /\ Items(s) \subseteq Alerts /\ {} \in SUBSET Items(s)
  BY AllTyped DEF ProgramTypeOK, Procs, Marks, FeedsServeOwn, Items
<1>h. ASSUME NEW n \in Nat,
             \/ past' = [past EXCEPT !.scraped[s] = clock, !.failed[s] = n, !.lost = Unrecorded(Here(s))]
             \/ past' = [past EXCEPT !.failed[s] = n, !.lost = Unrecorded(Here(s))]
      PROVE  /\ UNCHANGED Story /\ past'.known = past.known
             /\ past'.failed = [past.failed EXCEPT ![s] = n] /\ past'.lost = Unrecorded(Here(s))
  BY <1>h DEF Story, Past
<1>1. CASE /\ FetchFull("all", s)
           /\ past' = [past EXCEPT !.scraped[s] = clock, !.failed[s] = Never,
                                   !.lost = Unrecorded(Here(s))]
  <2> DEFINE items   == IF SameHash("all", s) THEN {} ELSE feed[s].items
             version == IF s \in Versioned THEN feed[s].edition ELSE 0
             m       == Mark(s, TRUE, version, items, TRUE)
  <2>1. items \in SUBSET Items(s) /\ items \in SUBSET Alerts /\ version \in Nat
    BY <1>t
  <2>2. Collect("all", s, items, m, Never)
    BY <1>1 DEF FetchFull
  <2> HIDE DEF items, version
  <2>3. m \in Marks /\ m.hash = items
    BY <2>1, MarkTyped DEF Mark
  <2>5. Never \in Nat /\ Never <= Never
    BY DEF Never
  <2>4. /\ UNCHANGED Story /\ past'.known = past.known
        /\ past'.failed = [past.failed EXCEPT ![s] = Never] /\ past'.lost = Unrecorded(Here(s))
    BY <1>1, <1>h, <2>5
  <2> HIDE DEF m
  <2>6. m.ok => m.hash = items
    BY <2>3
  <2> QED BY ONLY ProgramTypeOK, past \in Past, SweepInv, s \in Sources, <2>1, <2>2, <2>3, <2>4, <2>5, <2>6, CollectKeeps
<1> DEFINE none == {}
<1>n. none \in SUBSET Items(s)
  OBVIOUS
<1>2. CASE /\ FetchUnchanged("all", s)
           /\ past' = [past EXCEPT !.failed[s] = Never, !.lost = Unrecorded(Here(s))]
  <2> DEFINE m == Mark(s, TRUE, P.marks[s].version, none, TRUE)
  <2>1. Collect("all", s, none, m, Never)
    BY <1>2 DEF FetchUnchanged, P
  <2>2. m \in Marks /\ m.hash = none
    BY <1>t, MarkTyped DEF Mark
  <2>5. Never \in Nat /\ Never <= Never
    BY DEF Never
  <2>3. /\ UNCHANGED Story /\ past'.known = past.known
        /\ past'.failed = [past.failed EXCEPT ![s] = Never] /\ past'.lost = Unrecorded(Here(s))
    BY <1>2, <1>h, <2>5
  <2> HIDE DEF m, none
  <2>6. m.ok => m.hash = none
    BY <2>2
  <2> QED BY ONLY ProgramTypeOK, past \in Past, SweepInv, s \in Sources, <1>n, <2>1, <2>2, <2>3, <2>5, <2>6, CollectKeeps
<1>3. CASE /\ FetchFails("all", s)
           /\ past' = [past EXCEPT !.failed[s] = IF P'.dlq[s] = Never THEN Never ELSE P.start,
                                   !.lost = Unrecorded(Here(s))]
  <2>1. PICK attempt \in {clock, IF P.dlq[s] = Never THEN Never ELSE P.start} :
           Collect("all", s, none, NotRun(s), attempt)
    BY <1>3 DEF FetchFails, P
  <2>2. attempt \in Nat /\ NotRun(s) \in Marks /\ ~NotRun(s).ok /\ none \in SUBSET Alerts
    BY <1>t, NotRunTyped DEF Never, NotRun, Mark
  <2> HIDE DEF none
  <2>3. P.pc = "sweep" /\ P'.dlq = [P.dlq EXCEPT ![s] = attempt]
    BY ONLY ProgramTypeOK, s \in Sources, <2>1, <2>2, CollectFields
  <2>a. P'.dlq[s] = attempt
    BY <2>3, AllTyped
  <2> DEFINE n == IF P'.dlq[s] = Never THEN Never ELSE P.start
  <2>4. n \in Nat /\ n <= attempt
    BY <1>t, <2>1, <2>3, <2>a DEF SweepInv, Clocks, Never
  <2>5. past' = [past EXCEPT !.failed[s] = n, !.lost = Unrecorded(Here(s))]
    BY <1>3
  <2> HIDE DEF n
  <2>6. /\ UNCHANGED Story /\ past'.known = past.known
        /\ past'.failed = [past.failed EXCEPT ![s] = n] /\ past'.lost = Unrecorded(Here(s))
    BY <1>h, <2>4, <2>5
  <2>7. NotRun(s).ok => NotRun(s).hash = none
    BY <2>2
  <2> QED BY ONLY ProgramTypeOK, past \in Past, SweepInv, s \in Sources, <1>n, <2>1, <2>2, <2>4, <2>6, <2>7, CollectKeeps
<1> QED BY <1>1, <1>2, <1>3

LEMMA RecordKeeps ==
  ASSUME ProgramTypeOK, past \in Past, SweepInv, NEW s \in Sources, Record("all", s),
         past' = [past EXCEPT !.lost = Unrecorded({s})]
  PROVE  SweepInv'
<1>1. P' = [P EXCEPT !.recording = @ \ {s}, !.record[s] = NoMark]
  BY AllTyped DEF Record, P, ProgramTypeOK
<1>2. /\ s \in P.recording /\ s \in deployment.registry
      /\ UNCHANGED <<deployment, clock, dead, table>>
  BY DEF Record, P, SweepInv, Lanes
<1>3. /\ P'.pc = P.pc /\ P'.lane = P.lane /\ P'.start = P.start /\ P'.prev = P.prev
      /\ P'.batch = P.batch /\ P'.dlq = P.dlq /\ P'.todo = P.todo
      /\ P'.recording = P.recording \ {s} /\ P'.record = [P.record EXCEPT ![s] = NoMark]
  BY <1>1, AllTyped DEF Procs
<1>4. P.pc \notin {"idle", "save"}
  BY <1>2 DEF SweepInv, Lanes
<1>s. /\ UNCHANGED Story /\ past'.known = past.known /\ past'.failed = past.failed
      /\ past'.lost = Unrecorded({s})
  BY DEF Story, Past
<1>5. Goes
  BY <1>2, <1>3, <1>4, <1>s DEF Goes
<1>6. Clocks' /\ Aged' /\ Sightings'
  BY <1>3, <1>5, GoesOn DEF SweepInv
<1>7. Lanes' /\ Letters'
  BY <1>2, <1>3, <1>4, <1>s DEF SweepInv, Lanes, Letters
<1>m. /\ \A r \in Sources \ {s} : mark'[r] = mark[r] /\ (r \in past'.lost <=> r \in past.lost)
      /\ mark'[s] \in {P.record[s], mark[s]}
      /\ mark'[s] = P.record[s] \/ s \in past'.lost
  <2>1. \/ mark' = [mark EXCEPT ![s] = P.record[s]]
        \/ mark' = mark /\ failures' # failures
    BY AllTyped, RecordSteps DEF P
  <2>2. past'.lost = (past.lost \ {s}) \cup {r \in {s} : mark'[r] = mark[r] /\ failures' # failures}
    BY <1>s DEF Unrecorded
  <2> QED BY <2>1, <2>2 DEF ProgramTypeOK
<1>8. Hashes'
  <2>0. past'.seen = past.seen /\ past'.intact = past.intact
    BY <1>s DEF Story
  <2>1. Fetched' = Fetched
    BY <1>3 DEF Fetched
  <2>2. \A r \in Sources : mark'[r].ok => r \in deployment.registry
    BY <1>2, <1>m DEF SweepInv, Hashes
  <2>5. ASSUME past'.intact, NEW r \in Sources, mark'[r].ok, NEW a \in mark'[r].hash
        PROVE  past'.seen[a] # Never \/ P'.batch[a] # Gone
    <3>1. CASE mark'[r] = mark[r]
      BY <1>3, <2>0, <2>5, <3>1 DEF SweepInv, Hashes
    <3>2. CASE mark'[r] = P.record[s]
      <4>1. a \in Fetched
        BY <1>2, <1>4, <2>5, <3>2 DEF SweepInv, Hashes
      <4> QED BY <1>3, <4>1 DEF Fetched
    <3> QED BY <1>m, <3>1, <3>2
  <2>3. ASSUME NEW r \in deployment.registry \ (P'.todo \cup P'.recording), mark'[r].ok,
               r \notin past'.lost
        PROVE  mark'[r].hash \subseteq Fetched
    <3>0. r \in Sources
      BY DeploymentTyped
    <3>1. CASE r = s
      <4>1. mark'[r] = P.record[s]
        BY <1>m, <2>3, <3>1
      <4> QED BY <1>2, <1>4, <2>3, <4>1 DEF SweepInv, Hashes
    <3>2. CASE r # s
      <4>1. r \notin P.todo \cup P.recording
        BY <1>3, <2>3, <3>2
      <4>2. mark'[r] = mark[r] /\ r \notin past.lost
        BY <1>m, <2>3, <3>0, <3>2
      <4> QED BY <1>4, <2>3, <4>1, <4>2 DEF SweepInv, Hashes
    <3> QED BY <3>1, <3>2
  <2>4. ASSUME NEW r \in P'.recording, P'.record[r].ok PROVE P'.record[r].hash \subseteq Fetched
    <3>1. r \in P.recording /\ P'.record[r] = P.record[r]
      BY <1>3, <2>4, AllTyped
    <3> QED BY <1>4, <2>4, <3>1 DEF SweepInv, Hashes
  <2>6. P'.pc # "idle"
    BY <1>3, <1>4
  <2> HIDE DEF Fetched
  <2> QED BY <1>2, <2>1, <2>2, <2>3, <2>4, <2>5, <2>6 DEF Hashes
<1> QED BY <1>6, <1>7, <1>8 DEF SweepInv

\* What the file tells follows from what it may hold.
LEMMA ToldHolds ==
  ASSUME ProgramTypeOK, past \in Past, Letters, P.pc \in {"sweep", "flush"},
         dead' \in {P.dlq, dead, NoLetters}
  PROVE  /\ \A s \in Sources : Told("all")[s] <= dead'[s]
         /\ \A s \in P.todo : Told("all")[s] <= past.failed[s]
<1>t. /\ past.failed \in [Sources -> Nat] /\ past.known \in [Sources -> Nat]
      /\ P.todo \subseteq Sources
  BY AllTyped DEF Past
<1>1. CASE dead' = P.dlq
  BY <1>t, <1>1 DEF Told, Letters, P
<1>2. CASE dead' # P.dlq /\ dead' = dead
  BY <1>t, <1>2 DEF Told, Letters, P
<1>3. CASE dead' # P.dlq /\ dead' # dead
  <2>1. Told("all") = NoLetters /\ dead' = NoLetters
    BY <1>3 DEF Told, P
  <2> QED BY <1>t, <2>1 DEF NoLetters, Never
<1> QED BY <1>1, <1>2, <1>3

LEMMA FlushKeeps ==
  ASSUME ProgramTypeOK, past \in Past, SweepInv, Flush("all"),
         past' = [past EXCEPT !.known = Told("all")]
  PROVE  SweepInv'
<1>1. P' = [P EXCEPT !.pc = "sweep"]
  BY AllTyped DEF Flush, P, ProgramTypeOK
<1>2. /\ P.pc = "flush" /\ dead' \in {P.dlq, dead, NoLetters}
      /\ UNCHANGED <<deployment, clock, mark, table>>
  BY AllTyped, LettersTyped DEF Flush, P
<1>3. /\ P'.pc = "sweep" /\ P'.lane = P.lane /\ P'.start = P.start /\ P'.prev = P.prev
      /\ P'.batch = P.batch /\ P'.dlq = P.dlq /\ P'.todo = P.todo
      /\ P'.recording = P.recording /\ P'.record = P.record
  BY <1>1, AllTyped DEF Procs
<1>4. /\ UNCHANGED Story /\ past'.known = Told("all") /\ past'.failed = past.failed
      /\ past'.lost = past.lost
  BY DEF Story, Past
<1>5. Goes
  BY <1>2, <1>3, <1>4 DEF Goes
<1>6. Clocks' /\ Aged' /\ Sightings'
  BY <1>3, <1>5, GoesOn DEF SweepInv
<1>7. Lanes'
  BY <1>2, <1>3 DEF SweepInv, Lanes
<1>8. Letters'
  BY <1>2, <1>3, <1>4, ToldHolds DEF SweepInv, Letters
<1>9. Hashes'
  BY <1>2, <1>3, <1>4 DEF SweepInv, Hashes, Fetched, Story
<1> QED BY <1>6, <1>7, <1>8, <1>9 DEF SweepInv

LEMMA LaneEndKeeps ==
  ASSUME ProgramTypeOK, past \in Past, SweepInv, UNCHANGED past, LaneEnd("all") PROVE SweepInv'
<1> DEFINE lane == IF P.lane = "fast" THEN "api" ELSE "browser"
<1>1. P' = [P EXCEPT !.lane = lane]
  BY AllTyped DEF LaneEnd, P, ProgramTypeOK
<1>2. P.pc = "sweep" /\ P.recording = {} /\ UNCHANGED <<deployment, clock, mark, dead>>
  BY DEF LaneEnd, P
<1> HIDE DEF lane
<1>3. /\ P'.pc = P.pc /\ P'.start = P.start /\ P'.prev = P.prev
      /\ P'.batch = P.batch /\ P'.dlq = P.dlq /\ P'.todo = P.todo
      /\ P'.recording = P.recording /\ P'.record = P.record
  BY <1>1, AllTyped DEF Procs
<1>4. Goes
  BY <1>2, <1>3 DEF Goes, Story
<1>5. Clocks' /\ Aged' /\ Sightings'
  BY <1>3, <1>4, GoesOn DEF SweepInv
<1>6. Lanes' /\ Letters'
  BY <1>2, <1>3 DEF SweepInv, Lanes, Letters
<1>7. Hashes'
  BY <1>2, <1>3 DEF SweepInv, Hashes, Fetched
<1> QED BY <1>5, <1>6, <1>7 DEF SweepInv

LEMMA DeferKeeps ==
  ASSUME ProgramTypeOK, past \in Past, SweepInv, Defer("all"),
         past' = [past EXCEPT !.lost = Unrecorded(Current("all"))]
  PROVE  SweepInv'
<1>1. P' = [P EXCEPT !.todo = {}]
  BY AllTyped DEF Defer, P, ProgramTypeOK
<1>2. /\ P.pc = "sweep" /\ P.lane = "browser" /\ P.todo = Current("all")
      /\ UNCHANGED <<deployment, clock, dead>>
  BY DEF Defer, P
<1>3. /\ P'.pc = P.pc /\ P'.lane = P.lane /\ P'.start = P.start /\ P'.prev = P.prev
      /\ P'.batch = P.batch /\ P'.dlq = P.dlq /\ P'.todo = {}
      /\ P'.recording = P.recording /\ P'.record = P.record
  BY <1>1, AllTyped DEF Procs
<1>s. /\ UNCHANGED Story /\ past'.known = past.known /\ past'.failed = past.failed
      /\ past'.lost = Unrecorded(P.todo)
  BY <1>2 DEF Story, Past
<1>4. Goes
  BY <1>2, <1>3, <1>s DEF Goes
<1>5. Clocks' /\ Aged' /\ Sightings'
  BY <1>3, <1>4, GoesOn DEF SweepInv
<1>6. Lanes' /\ Letters'
  BY <1>2, <1>3, <1>s DEF SweepInv, Lanes, Letters
<1>7. Hashes'
  <2>0. past'.seen = past.seen /\ past'.intact = past.intact
    BY <1>s DEF Story
  <2>1. \A s \in Sources : mark'[s] = mark[s] \/ (s \in P.todo /\ mark'[s] = NotRun(s))
    BY <1>2, AllTyped, DeferSteps
  <2>2. \A s \in P.todo : mark'[s] = NotRun(s) \/ (mark'[s] = mark[s] /\ failures' # failures)
    <3>1. \A s \in Current("all") : mark'[s] = NotRun(s) \/ failures' # failures
      BY AllTyped, DeferSteps
    <3>2. P.todo \subseteq Sources
      BY AllTyped
    <3>3. ASSUME NEW s \in P.todo
          PROVE  mark'[s] = NotRun(s) \/ (mark'[s] = mark[s] /\ failures' # failures)
      <4>1. s \in Current("all") /\ s \in Sources
        BY <1>2, <3>2
      <4>2. mark'[s] = mark[s] \/ mark'[s] = NotRun(s)
        BY <2>1, <4>1
      <4>3. mark'[s] = NotRun(s) \/ failures' # failures
        BY <3>1, <4>1
      <4> QED BY Zenon, <4>2, <4>3
    <3> QED BY ONLY <3>3
  <2>3. \A s \in Sources : mark'[s].ok => mark'[s] = mark[s]
    <3>1. \A s \in Sources : ~NotRun(s).ok
      BY DEF NotRun, Mark
    <3> QED BY ONLY <2>1, <3>1
  <2>4. ASSUME NEW s \in Sources, mark'[s].ok, s \notin past'.lost
        PROVE  s \notin P.todo /\ s \notin past.lost
    <3>1. past'.lost = (past.lost \ P.todo)
                          \cup {r \in P.todo : mark'[r] = mark[r] /\ failures' # failures}
      BY <1>s DEF Unrecorded
    <3>2. ~NotRun(s).ok
      BY DEF NotRun, Mark
    <3>3. s \notin P.todo
      BY <2>2, <2>4, <3>1, <3>2
    <3> QED BY <2>4, <3>1, <3>3
  <2>5. Fetched' = Fetched
    BY <1>3 DEF Fetched
  <2>6. \A s \in Sources : mark'[s].ok => s \in deployment.registry
    BY <2>3 DEF SweepInv, Hashes
  <2>7. ASSUME past'.intact, NEW s \in Sources, mark'[s].ok, NEW a \in mark'[s].hash
        PROVE  past'.seen[a] # Never \/ P'.batch[a] # Gone
    BY <1>3, <2>0, <2>3, <2>7 DEF SweepInv, Hashes
  <2>8. ASSUME NEW s \in deployment.registry \ (P'.todo \cup P'.recording), mark'[s].ok,
               s \notin past'.lost
        PROVE  mark'[s].hash \subseteq Fetched
    <3>1. s \in Sources
      BY DeploymentTyped
    <3>2. s \notin P.todo \cup P.recording /\ s \notin past.lost /\ mark'[s] = mark[s]
      BY <1>3, <2>3, <2>4, <2>8, <3>1
    <3> QED BY <1>2, <2>8, <3>2 DEF SweepInv, Hashes
  <2>9. \A s \in P'.recording : P'.record[s].ok => P'.record[s].hash \subseteq Fetched
    BY <1>2, <1>3 DEF SweepInv, Hashes
  <2>10. P'.pc # "idle"
    BY <1>2, <1>3
  <2> HIDE DEF Fetched
  <2> QED BY <1>2, <2>5, <2>6, <2>7, <2>8, <2>9, <2>10 DEF Hashes
<1> QED BY <1>5, <1>6, <1>7 DEF SweepInv

\* The end of a sweep: to be saved, or given up when a critical source has fetched nothing.
LEMMA FinishKeeps ==
  ASSUME ProgramTypeOK, past \in Past, SweepInv, Finish("all"),
         past' = [(IF P'.pc = "idle" THEN Broken(past) ELSE past)
                     EXCEPT !.known = Told("all"), !.failed = Told("all")]
  PROVE  SweepInv'
<1>1. /\ P.pc = "sweep" /\ P.lane = "browser" /\ P.todo = {} /\ dead' \in {P.dlq, dead, NoLetters}
      /\ UNCHANGED <<deployment, clock, table, mark>>
  BY AllTyped, LettersTyped DEF Finish, P
<1>2. P.recording = {}
  BY <1>1 DEF SweepInv, Lanes
<1>3. past'.known = Told("all") /\ past'.failed = Told("all")
  BY DEF Broken, Past
<1>l. \A s \in Sources : Told("all")[s] <= dead'[s]
  BY <1>1, ToldHolds DEF SweepInv
<1>4. CASE proc' = [proc EXCEPT !["all"] = Idle]
  <2>0. P'.pc = "idle"
    BY <1>4, Ended
  <2>1. /\ past'.seen = Nothing /\ past'.saved = Never /\ past'.latest = {}
        /\ past'.intact = FALSE
    BY <2>0 DEF Broken, Past
  <2>2. Clocks' /\ Sightings' /\ Aged' /\ Lanes' /\ Hashes'
    BY <1>1, <1>4, <2>1, Lost DEF SweepInv
  <2>3. Letters'
    BY <1>3, <1>l, <2>0 DEF Letters
  <2> QED BY <2>2, <2>3 DEF SweepInv
<1>5. ASSUME NEW brought \in SUBSET deployment.streams,
             proc' = [proc EXCEPT !["all"] = Ready("all", Joined(brought, "all"))]
      PROVE  SweepInv'
  <2> DEFINE joined == Joined(brought, "all")
             q == Ready("all", joined)
  <2>j. /\ joined \in Tables
        /\ \A a \in Alerts : joined[a] # Gone <=> a \in brought \/ P.batch[a] # Gone
    BY AllTyped, DeploymentTyped, JoinedTyped DEF P
  <2> HIDE DEF joined
  <2>1. /\ q.pc = "save" /\ q.lane = P.lane /\ q.start = P.start /\ q.prev = P.prev
        /\ q.batch = joined /\ q.dlq = P.dlq /\ q.todo = P.todo
        /\ q.recording = P.recording /\ q.record = P.record
    BY <2>j, AllTyped, ReadyFields DEF P
  <2> HIDE DEF q
  <2>q. P' = q
    BY <1>5, AllTyped DEF P, ProgramTypeOK, q, joined
  <2>2. /\ P'.pc = "save" /\ P'.lane = P.lane /\ P'.start = P.start /\ P'.prev = P.prev
        /\ P'.batch = joined /\ P'.dlq = P.dlq /\ P'.todo = P.todo
        /\ P'.recording = P.recording /\ P'.record = P.record
    BY <2>1, <2>q
  <2>3. UNCHANGED Story /\ past'.lost = past.lost
    BY <2>2 DEF Story, Past
  <2>4. Goes
    BY <1>1, <2>2, <2>3 DEF Goes
  <2>5. Clocks' /\ Aged' /\ Sightings'
    <3>1. \A a \in brought : Owner[a] \in Outside
      BY DEF Outside
    <3> QED BY <2>2, <2>4, <2>j, <3>1, GoesOn DEF SweepInv
  <2>6. Lanes'
    BY <1>1, <1>2, <2>2 DEF SweepInv, Lanes
  <2>7. Letters'
    BY <1>3, <1>l, <2>2 DEF Letters
  <2>8. Hashes'
    <3>1. Fetched \subseteq Fetched'
      BY <2>2, <2>j DEF Fetched
    <3>2. \A s \in Sources : mark[s] \in Marks
      BY DEF ProgramTypeOK
    <3>3. ASSUME past'.intact, NEW s \in Sources, mark'[s].ok, NEW a \in mark'[s].hash
          PROVE  past'.seen[a] # Never \/ P'.batch[a] # Gone
      <4>1. past.seen[a] # Never \/ P.batch[a] # Gone
        BY <1>1, <2>3, <3>3 DEF SweepInv, Hashes, Story
      <4>2. a \in Alerts
        BY <1>1, <3>2, <3>3 DEF Marks
      <4> QED BY <2>2, <2>3, <2>j, <4>1, <4>2 DEF Story
    <3>4. ASSUME NEW s \in deployment.registry, mark'[s].ok, s \notin past'.lost
          PROVE  mark'[s].hash \subseteq Fetched'
      BY <1>1, <1>2, <2>3, <3>1, <3>4 DEF SweepInv, Hashes
    <3>5. \A s \in Sources : mark'[s].ok => s \in deployment.registry
      BY <1>1 DEF SweepInv, Hashes
    <3>6. P'.pc # "idle" /\ P'.recording = {}
      BY <1>2, <2>2
    <3> QED BY <1>1, <3>3, <3>4, <3>5, <3>6 DEF Hashes
  <2> QED BY <2>5, <2>6, <2>7, <2>8 DEF SweepInv
<1> QED BY <1>4, <1>5, AllTyped, FinishSteps

LEMMA CrashKeeps ==
  ASSUME ProgramTypeOK, past \in Past, SweepInv, Crash("all"),
         past' = [Broken(past) EXCEPT !.failed = IF dead' = dead THEN past.known ELSE NoLetters,
                                      !.known = IF dead' = dead THEN past.known ELSE NoLetters]
  PROVE  SweepInv'
<1>1. /\ proc' = [proc EXCEPT !["all"] = Idle] /\ UNCHANGED <<deployment, clock, mark>>
      /\ dead' \in {dead, NoLetters}
  BY DEF Crash
<1> DEFINE known == IF dead' = dead THEN past.known ELSE NoLetters
<1>2. /\ past'.seen = Nothing /\ past'.saved = Never /\ past'.latest = {}
      /\ past'.intact = FALSE /\ past'.known = known /\ past'.failed = known
  BY DEF Broken, Past
<1>3. Clocks' /\ Sightings' /\ Aged' /\ Lanes' /\ Hashes'
  BY <1>1, <1>2, Lost DEF SweepInv
<1>4. \A s \in Sources : known[s] <= dead'[s]
  <2>1. CASE dead' = dead
    BY <2>1 DEF SweepInv, Letters
  <2>2. CASE dead' # dead
    BY <1>1, <2>2 DEF NoLetters, Never
  <2> QED BY <2>1, <2>2
<1> HIDE DEF known
<1>5. Letters'
  BY <1>1, <1>2, <1>4, Ended DEF Letters
<1> QED BY <1>3, <1>5 DEF SweepInv

-----------------------------------------------------------------------------
(* Ageing                                                                    *)

\* An alert that is too old to be kept stays so.
LEMMA OldStaysOld ==
  ASSUME NEW m \in Int, NEW n \in Int, m <= n, StatusAtAge(m) = "none"
  PROVE  StatusAtAge(n) = "none"
  BY LifecycleTyped DEF StatusAtAge

LEMMA AgeIsNotActive == ASSUME NEW n \in Int PROVE StatusAtAge(n) \notin {"active", "filtered"}
  BY StatusTyped

\* What a saved sweep makes of one row that followed the sightings.
LEMMA RowAges ==
  ASSUME ProgramTypeOK, past \in Past, Clocks, Sightings, P.pc # "idle", past' = Kept("all"),
         UNCHANGED deployment, NEW a \in Alerts, FaithfulRow(P.prev[a], a),
         table'[a] = Reconciled("all")[a]
  PROVE  FaithfulRow(table[a], a)'
<1> DEFINE kept == deployment.registry \cup Owners(P.batch)
           old == Purged(P.prev, kept)[a]
           new == IF P.batch[a] # Gone THEN Sighted(a, P.batch[a], old, P.start)
                  ELSE Missing(a, old, P.start)
<1>t. /\ P.start \in Nat /\ P.start # Never /\ past.saved \in Nat /\ past.saved <= P.start
      /\ past.seen[a] \in Nat /\ P.prev[a] \in Rows /\ Outside' = Outside
  BY AllTyped DEF Clocks, Past, Never, Tables, Outside
<1>1. table'[a] = new
  BY AllTyped DEF Reconciled, Reconcile, P
<1>2. /\ past'.saved = P.start /\ past'.latest = Fetched
      /\ past'.seen = [b \in Alerts |-> IF P.batch[b] # Gone THEN P.start ELSE past.seen[b]]
  BY DEF Kept, Past, Fetched, P
<1>3. a \in Fetched <=> P.batch[a] # Gone
  BY DEF Fetched
<1>4. old = IF Owner[a] \in kept THEN P.prev[a] ELSE Gone
  BY DEF Purged
<1>k. Owner[a] \in kept \ Outside => Owner[a] \in deployment.registry
  BY DEF Owners, Sightings
<1>r. deployment.registry \subseteq kept
  OBVIOUS
<1> HIDE DEF old, new, kept
<1>5. CASE P.batch[a] # Gone
  <2>1. past'.seen[a] = P.start /\ a \in past'.latest
    BY <1>2, <1>3, <1>5
  <2>2. table'[a].last = P.start /\ table'[a].status = IF a \in Weak THEN "filtered" ELSE "active"
    BY <1>1, <1>5 DEF new, Sighted
  <2> QED BY <1>2, <1>t, <2>1, <2>2 DEF FaithfulRow, StatusBySighting
<1>6. CASE P.batch[a] = Gone
  <2>1. past'.seen[a] = past.seen[a] /\ a \notin past'.latest
    BY <1>2, <1>3, <1>6
  <2>2. table'[a] = Missing(a, old, P.start)
    BY <1>1, <1>6 DEF new
  <2>o. CASE Owner[a] \in Outside
    BY <1>t, <2>1, <2>o DEF FaithfulRow
  <2>3. CASE Owner[a] \notin Outside /\ past.seen[a] = Never
    <3>1. old = Gone
      BY <1>4, <1>k, <2>3 DEF FaithfulRow
    <3>2. table'[a] = Gone
      BY <2>2, <3>1 DEF Missing
    <3> QED BY <2>1, <2>3, <3>2 DEF FaithfulRow
  <2>4. CASE Owner[a] \notin Outside /\ past.seen[a] # Never
    <3>1. old = P.prev[a]
      BY <1>4, <1>r, <2>4 DEF Sightings
    <3>2. /\ old # Gone => old.last = past.seen[a]
          /\ old.status = StatusBySighting(a)
      BY <2>4, <3>1 DEF FaithfulRow
    <3>3. StatusAtAge(past.saved - past.seen[a]) \notin {"active", "filtered"}
      BY <1>t, AgeIsNotActive
    <3>4. CASE Owner[a] \in Accumulating /\ a \notin Weak
      <4>1. old.status = "active"
        BY <3>2, <3>4 DEF StatusBySighting
      <4>2. table'[a] = old /\ old # Gone
        BY <2>2, <3>4, <4>1 DEF Missing, Gone
      <4>3. StatusBySighting(a)' = "active"
        BY <3>4 DEF StatusBySighting
      <4> QED BY <2>1, <2>4, <3>2, <4>1, <4>2, <4>3 DEF FaithfulRow
    <3>5. CASE ~(Owner[a] \in Accumulating /\ a \notin Weak)
      <4> DEFINE status == StatusAtAge(P.start - past.seen[a])
      <4>1. past'.saved - past'.seen[a] = P.start - past.seen[a]
        BY <1>2, <2>1
      <4>2. StatusBySighting(a)' = status
        BY <2>1, <3>5, <4>1 DEF StatusBySighting
      <4>3. CASE old = Gone
        <5>1. StatusAtAge(past.saved - past.seen[a]) = "none"
          BY <3>2, <3>5, <4>3 DEF StatusBySighting, Gone
        <5>2. status = "none"
          BY <1>t, <5>1, OldStaysOld
        <5>3. table'[a] = Gone
          BY <2>2, <4>3 DEF Missing
        <5> QED BY <2>1, <2>4, <4>2, <5>2, <5>3 DEF FaithfulRow, Gone
      <4>4. CASE old # Gone
        <5>1. ~(Owner[a] \in Accumulating /\ old.status = "active")
          BY <3>2, <3>3, <3>5 DEF StatusBySighting
        <5>2. table'[a] = IF status = "none" THEN Gone ELSE [old EXCEPT !.status = status]
          BY <2>2, <3>2, <4>4, <5>1 DEF Missing
        <5> HIDE DEF status
        <5>3. table'[a] # Gone => table'[a].last = past.seen[a]
          BY <1>t, <3>1, <3>2, <4>4, <5>2 DEF Rows
        <5>4. table'[a].status = status
          BY <1>t, <3>1, <5>2 DEF Rows, Gone
        <5> QED BY <2>1, <2>4, <4>2, <5>3, <5>4 DEF FaithfulRow
      <4> QED BY <4>3, <4>4
    <3> QED BY <3>4, <3>5
  <2> QED BY <2>o, <2>3, <2>4
<1> QED BY <1>5, <1>6

LEMMA SaveKeeps ==
  ASSUME ProgramTypeOK, past \in Past, SweepInv, Save("all"),
         past' = IF failures' = failures /\ past.intact THEN Kept("all") ELSE Broken(past)
  PROVE  SweepInv'
<1>1. /\ P.pc = "save" /\ proc' = [proc EXCEPT !["all"] = Idle]
      /\ UNCHANGED <<deployment, clock, mark, dead>> /\ Outside' = Outside
  BY DEF Save, P, Outside
<1>2. P'.pc = "idle" /\ P'.todo = {} /\ P'.recording = {} /\ P'.batch = Empty
  BY <1>1, Ended
<1>3. past'.known = past.known /\ past'.failed = past.failed /\ past'.lost = past.lost
  BY DEF Kept, Broken, Past
<1>4. Letters'
  BY <1>1, <1>2, <1>3 DEF SweepInv, Letters
<1>5. CASE ~(failures' = failures /\ past.intact)
  <2>1. /\ past'.seen = Nothing /\ past'.saved = Never /\ past'.latest = {}
        /\ past'.intact = FALSE
    BY <1>5 DEF Broken, Past
  <2>2. Clocks' /\ Sightings' /\ Aged' /\ Lanes' /\ Hashes'
    BY <1>1, <2>1, Lost DEF SweepInv
  <2> QED BY <1>4, <2>2 DEF SweepInv
<1>6. CASE failures' = failures /\ past.intact
  <2>1. past' = Kept("all")
    BY <1>6
  <2>2. /\ past'.saved = P.start /\ past'.latest = Fetched
        /\ past'.seen = [b \in Alerts |-> IF P.batch[b] # Gone THEN P.start ELSE past.seen[b]]
    BY <2>1 DEF Kept, Past, Fetched, P
  <2>3. table' = Reconciled("all")
    <3>1. failures \in Nat
      BY DeploymentTyped DEF ProgramTypeOK
    <3> QED BY <1>6, <3>1 DEF Save, Spends
  <2>4. Aged'
    <3>1. Faithful(P.prev)
      BY <1>1, <1>6 DEF SweepInv, Aged
    <3>2. ASSUME NEW a \in Alerts PROVE FaithfulRow(table[a], a)'
      <4>1. P.pc # "idle" /\ FaithfulRow(P.prev[a], a)
        BY <1>1, <3>1 DEF Faithful
      <4> QED BY <1>1, <2>1, <2>3, <4>1, RowAges DEF SweepInv
    <3> QED BY <1>2, <3>2 DEF Aged, Faithful
  <2>5. Clocks'
    BY <1>1, <1>2, <2>2 DEF SweepInv, Clocks
  <2>6. Sightings'
    BY <1>1, <1>2, <2>2 DEF SweepInv, Sightings, Clocks, Fetched, Empty, Never
  <2>7. Lanes'
    BY <1>2 DEF SweepInv, Lanes
  <2>8. Hashes'
    <3>1. \A s \in Sources : mark'[s].ok => s \in deployment.registry
      BY <1>1 DEF SweepInv, Hashes
    <3>2. ASSUME NEW s \in Sources, mark'[s].ok, NEW a \in mark'[s].hash
          PROVE  past'.seen[a] # Never
      <4>1. past.seen[a] # Never \/ P.batch[a] # Gone
        BY <1>1, <1>6, <3>2 DEF SweepInv, Hashes
      <4>2. a \in Alerts
        BY <1>1, <3>2 DEF ProgramTypeOK, Marks
      <4>3. P.start # Never
        BY <1>1 DEF SweepInv, Clocks, Never
      <4> QED BY <2>2, <4>1, <4>2, <4>3
    <3>3. ASSUME NEW s \in Sources, mark'[s].ok, s \notin past'.lost
          PROVE  mark'[s].hash \subseteq past'.latest
      <4>1. s \in deployment.registry \ (P.todo \cup P.recording)
        BY <1>1, <3>1, <3>3 DEF SweepInv, Lanes
      <4> QED BY <1>1, <1>3, <2>2, <3>3, <4>1 DEF SweepInv, Hashes
    <3> QED BY <1>1, <1>2, <3>1, <3>2, <3>3 DEF Hashes
  <2> QED BY <1>4, <2>4, <2>5, <2>6, <2>7, <2>8 DEF SweepInv
<1> QED BY <1>5, <1>6

-----------------------------------------------------------------------------
(* One collector alone                                                       *)

LEMMA InitKeeps == ASSUME HistoryInit, Alone PROVE SweepInv
<1>0. ProgramTypeOK
  BY InitTyped DEF HistoryInit
<1>1. P = Idle /\ clock = 1 /\ table = Batch(deployment.orphans, 1)
  BY AllTyped, <1>0 DEF HistoryInit, CycleInit, P, Roles
<1>2. past.seen = Nothing /\ past.saved = Never /\ past.latest = {} /\ past.intact
  BY DEF HistoryInit
<1>3. past.failed = NoLetters /\ past.known = NoLetters
  BY DEF HistoryInit
<1>4. Clocks
  BY <1>1, <1>2 DEF Clocks, Idle, Never
<1>5. Sightings
  BY <1>1, <1>2 DEF Sightings, Idle, Empty, Nothing
<1>6. Aged
  <2>1. \A a \in deployment.orphans : Owner[a] \notin deployment.registry
    BY <1>0, CollectorTyped DEF ProgramTypeOK
  <2>2. \A a \in Alerts : table[a] = Gone \/ Owner[a] \notin deployment.registry
    BY <1>1, <2>1 DEF Batch
  <2> QED BY <1>1, <1>2, <2>2 DEF Aged, Faithful, FaithfulRow, Idle, Nothing
<1>7. Lanes
  BY <1>1 DEF Lanes, Idle
<1>8. Hashes
  BY <1>1 DEF Hashes, Idle, HistoryInit, CycleInit, NoMarks, NoMark
<1>9. Letters
  BY <1>1, <1>3 DEF Letters, Idle, HistoryInit, CycleInit, NoLetters, Never
<1> QED BY <1>4, <1>5, <1>6, <1>7, <1>8, <1>9 DEF SweepInv

\* One process alone does nothing but sweep.
LEMMA StepKeeps ==
  ASSUME CycleTypeOK, FeedsServeOwn, Alone, SweepInv, [HistoryNext]_historyVars
  PROVE  SweepInv'
<1>t. ProgramTypeOK /\ past \in Past
  BY DEF CycleTypeOK
<1>r. \A p \in deployment.roles : p = "all"
  BY DEF Alone
<1>1. CASE UNCHANGED historyVars
  <2>1. UNCHANGED <<deployment, clock, table, mark, dead, proc, past>> /\ P' = P /\ Outside' = Outside
    BY <1>1 DEF historyVars, cycleVars, P, Outside
  <2>2. Clocks' /\ Sightings' /\ Lanes'
    BY <2>1 DEF SweepInv, Clocks, Sightings, Lanes
  <2>3. Aged'
    BY <2>1 DEF SweepInv, Aged, Faithful, FaithfulRow, StatusBySighting
  <2>4. Hashes' /\ Letters'
    BY <2>1 DEF SweepInv, Hashes, Letters, Fetched
  <2> QED BY <2>2, <2>3, <2>4 DEF SweepInv
<1>2. CASE World /\ UNCHANGED past
  BY <1>t, <1>2, WorldKeeps
<1>3. CASE HistoryOfSweep("all")
  <2>1. ~Stage("all")
    BY DEF Stage, Workers
  <2>2. \/ Begin("all") /\ past' = Opened("all")
        \/ Save("all")
           /\ past' = IF failures' = failures /\ past.intact THEN Kept("all") ELSE Broken(past)
        \/ Finish("all")
           /\ past' = [(IF P'.pc = "idle" THEN Broken(past) ELSE past)
                          EXCEPT !.known = Told("all"), !.failed = Told("all")]
        \/ Flush("all") /\ past' = [past EXCEPT !.known = Told("all")]
        \/ Crash("all")
           /\ past' = [Broken(past) EXCEPT
                          !.failed = IF dead' = dead THEN past.known ELSE NoLetters,
                          !.known = IF dead' = dead THEN past.known ELSE NoLetters]
        \/ Defer("all") /\ past' = [past EXCEPT !.lost = Unrecorded(Current("all"))]
        \/ LaneEnd("all") /\ UNCHANGED past
    BY <1>3, <2>1, Zenon DEF HistoryOfSweep, P
  <2> QED BY <1>t, <2>2, BeginKeeps, SaveKeeps, FinishKeeps, FlushKeeps, CrashKeeps, DeferKeeps,
             LaneEndKeeps
<1>4. ASSUME NEW s \in Sources, HistoryOfSource("all", s) PROVE SweepInv'
  <2>1. CASE (Skip("all", s) \/ Pace("all", s)) /\ past' = [past EXCEPT !.lost = Unrecorded(Here(s))]
    <3>1. PICK m \in Marks : ~m.ok /\ Pass("all", s, m)
      <4>1. Mark(s, FALSE, 0, {}, TRUE) \in Marks /\ ~Mark(s, FALSE, 0, {}, TRUE).ok
        BY <1>t, MarkTyped DEF Mark
      <4>2. NotRun(s) \in Marks /\ ~NotRun(s).ok
        BY <1>t, NotRunTyped DEF NotRun, Mark
      <4> QED BY <2>1, <4>1, <4>2 DEF Skip, Pace
    <3> QED BY <1>t, <2>1, <3>1, PassKeeps
  <2>2. CASE Record("all", s) /\ past' = [past EXCEPT !.lost = Unrecorded({s})]
    BY SMTT(60), <1>t, <2>2, RecordKeeps
  <2>3. CASE \/ /\ FetchFull("all", s)
                /\ past' = [past EXCEPT !.scraped[s] = clock, !.failed[s] = Never,
                                        !.lost = Unrecorded(Here(s))]
             \/ /\ FetchUnchanged("all", s)
                /\ past' = [past EXCEPT !.failed[s] = Never, !.lost = Unrecorded(Here(s))]
             \/ /\ FetchFails("all", s)
                /\ past' = [past EXCEPT !.failed[s] = IF P'.dlq[s] = Never THEN Never ELSE P.start,
                                        !.lost = Unrecorded(Here(s))]
    BY <1>t, <2>3, FetchKeeps
  <2> QED BY <1>4, <2>1, <2>2, <2>3, Zenon DEF HistoryOfSource, P
<1>5. "merge" \notin deployment.roles
  BY DEF Alone
<1> QED BY <1>r, <1>1, <1>2, <1>3, <1>4, <1>5 DEF HistoryNext

\* What one collector alone keeps true, between the steps of a sweep and between sweeps.
LoneInv == FeedsServeOwn /\ (Alone => SweepInv)

LEMMA LoneInvariant == HistorySpec => []LoneInv
<1>1. HistoryInit => LoneInv
  BY InitKeeps, FeedsInit DEF LoneInv, HistoryInit
<1>2. CycleTypeOK /\ LoneInv /\ [HistoryNext]_historyVars => LoneInv'
  <2> SUFFICES ASSUME CycleTypeOK, LoneInv, [HistoryNext]_historyVars PROVE LoneInv'
    OBVIOUS
  <2>1. UNCHANGED deployment /\ (World \/ UNCHANGED feed)
    BY StepFrame
  <2>2. FeedsServeOwn'
    BY <2>1, WorldFrom DEF LoneInv, CycleTypeOK, FeedsServeOwn
  <2>3. Alone' => Alone
    BY <2>1 DEF Alone
  <2> QED BY <2>2, <2>3, StepKeeps DEF LoneInv
<1> QED BY <1>1, <1>2, CollectorTypes, PTL DEF HistorySpec

\* A collector that works alone and loses no sweep ages the alerts of its registry by when they
\* were last seen: between two sweeps the status of an alert follows from the saved sweeps alone,
\* however many sweeps have aged it, whatever the snapshots between them wrote, in whatever order
\* the sources answered, and whichever run records were lost.
THEOREM AlertsAgeBySighting == HistorySpec => []AgesByLastSighting
<1>1. CycleTypeOK /\ LoneInv => AgesByLastSighting
  <2> SUFFICES ASSUME CycleTypeOK, LoneInv, Alone, past.intact, past.saved # Never,
                      proc["all"].pc = "idle", NEW a \in Alerts, Owner[a] \notin Outside
               PROVE  /\ past.seen[a] = Never => table[a] = Gone
                      /\ past.seen[a] # Never /\ table[a] # Gone => table[a].last = past.seen[a]
                      /\ past.seen[a] # Never => table[a].status = StatusBySighting(a)
    BY DEF AgesByLastSighting, StatusBySighting
  <2>1. FaithfulRow(table[a], a)
    BY DEF LoneInv, SweepInv, Aged, Faithful, P
  <2> QED BY <2>1 DEF FaithfulRow
<1> QED BY <1>1, LoneInvariant, CollectorTypes, PTL

\* The hash that lets the next sweep pass over a batch stands for alerts that a saved sweep has
\* seen, although it is written while the sweep still runs, by several goroutines at a time and
\* by writes whose errors are dropped; and where the last write of a source was not dropped, for
\* alerts that the table holds as seen in the last saved sweep.
THEOREM HashesStandForStored == HistorySpec => []KnownContentIsStored
<1>1. CycleTypeOK /\ LoneInv => KnownContentIsStored
  <2> SUFFICES ASSUME CycleTypeOK, LoneInv, Alone, past.intact, proc["all"].pc = "idle",
                      NEW s \in Sources, mark[s].ok, NEW a \in mark[s].hash
               PROVE  /\ past.seen[a] # Never
                      /\ s \notin past.lost => table[a] # Gone /\ table[a].last = past.saved
    BY DEF KnownContentIsStored
  <2>s. SweepInv
    BY DEF LoneInv
  <2>0. a \in Alerts
    BY DEF CycleTypeOK, ProgramTypeOK, Marks
  <2>1. past.seen[a] # Never
    <3>1. P.batch[a] = Gone
      BY <2>s, <2>0 DEF SweepInv, Lanes, P, Empty
    <3> QED BY <2>s, <3>1 DEF SweepInv, Hashes
  <2>2. ASSUME s \notin past.lost PROVE table[a] # Gone /\ table[a].last = past.saved
    <3>1. a \in past.latest
      BY <2>s, <2>2 DEF SweepInv, Hashes, P
    <3>2. FaithfulRow(table[a], a)
      BY <2>s, <2>0 DEF SweepInv, Aged, Faithful, P
    <3>3. table[a].last = past.saved /\ table[a].status \in {"active", "filtered"}
      BY <3>1, <3>2 DEF FaithfulRow
    <3> QED BY <3>3 DEF Gone
  <2> QED BY <2>1, <2>2
<1> QED BY <1>1, LoneInvariant, CollectorTypes, PTL

\* A fetch takes its source off the list, and is not made while the letter is fresh.
LEMMA FetchTakes ==
  ASSUME ProgramTypeOK, NEW s \in Sources,
         FetchFull("all", s) \/ FetchUnchanged("all", s) \/ FetchFails("all", s)
  PROVE  P'.todo = P.todo \ {s} /\ ~ShouldSkip("all", s)
<1>t. /\ feed[s].items \in SUBSET Alerts /\ feed[s].edition \in Nat /\ clock \in Nat
      /\ P.start \in Nat /\ P.dlq[s] \in Nat /\ P.marks[s].version \in Nat
  BY SMTT(60), AllTyped DEF ProgramTypeOK, Procs, Marks
<1>1. ASSUME NEW items \in SUBSET Alerts, NEW m \in Marks, NEW attempt \in Nat,
             Collect("all", s, items, m, attempt)
      PROVE  P'.todo = P.todo \ {s} /\ ~ShouldSkip("all", s)
  BY <1>1, CollectFields DEF Collect
<1>2. CASE FetchFull("all", s)
  <2> DEFINE items   == IF SameHash("all", s) THEN {} ELSE feed[s].items
             version == IF s \in Versioned THEN feed[s].edition ELSE 0
             m       == Mark(s, TRUE, version, items, TRUE)
  <2>1. items \in SUBSET Alerts /\ version \in Nat
    BY <1>t
  <2>2. Collect("all", s, items, m, Never)
    BY <1>2 DEF FetchFull
  <2> HIDE DEF items, version
  <2>3. m \in Marks
    BY <2>1, MarkTyped
  <2> HIDE DEF m
  <2> QED BY <1>1, <2>1, <2>2, <2>3 DEF Never
<1>3. CASE FetchUnchanged("all", s)
  <2> DEFINE none == {}
             m == Mark(s, TRUE, P.marks[s].version, none, TRUE)
  <2>1. Collect("all", s, none, m, Never)
    BY <1>3 DEF FetchUnchanged, P
  <2>2. m \in Marks /\ none \in SUBSET Alerts
    BY <1>t, MarkTyped
  <2> HIDE DEF m, none
  <2> QED BY <1>1, <2>1, <2>2 DEF Never
<1>4. CASE FetchFails("all", s)
  <2> DEFINE none == {}
  <2>1. PICK attempt \in Nat : Collect("all", s, none, NotRun(s), attempt)
    BY <1>4, <1>t DEF FetchFails, Never, P
  <2>2. none \in SUBSET Alerts
    OBVIOUS
  <2> HIDE DEF none
  <2> QED BY <1>1, <2>1, <2>2, NotRunTyped
<1> QED BY <1>2, <1>3, <1>4

\* What takes a source off the list of a sweep.
LEMMA LeavesTodo ==
  ASSUME ProgramTypeOK, Alone, [HistoryNext]_historyVars, P.pc = "sweep",
         NEW s \in Sources, s \in P.todo, s \notin P'.todo
  PROVE  \/ Skip("all", s) \/ Defer("all") \/ Crash("all")
         \/ ~ShouldSkip("all", s)
<1>1. CASE UNCHANGED historyVars \/ World
  BY <1>1 DEF historyVars, cycleVars, World, Tick, Publish, P
<1>2. CASE HistoryOfSweep("all")
  <2>1. ~Begin("all") /\ ~Save("all") /\ ~Flush("all") /\ ~Stage("all") /\ ~Finish("all")
    BY DEF Begin, Save, Flush, Stage, Finish, Workers, P
  <2>2. ~LaneEnd("all")
    <3>1. SUFFICES ASSUME LaneEnd("all") PROVE FALSE
      OBVIOUS
    <3> DEFINE lane == IF P.lane = "fast" THEN "api" ELSE "browser"
    <3>2. P' = [P EXCEPT !.lane = lane]
      BY <3>1, AllTyped DEF LaneEnd, P, ProgramTypeOK
    <3> HIDE DEF lane
    <3> QED BY <3>2, AllTyped DEF Procs
  <2> QED BY <1>2, <2>1, <2>2 DEF HistoryOfSweep
<1>3. ASSUME NEW r \in Sources, HistoryOfSource("all", r)
      PROVE  Skip("all", s) \/ ~ShouldSkip("all", s)
  <2>1. CASE Record("all", r)
    <3>1. P' = [P EXCEPT !.recording = @ \ {r}, !.record[r] = NoMark]
      BY <2>1, AllTyped DEF Record, P, ProgramTypeOK
    <3> QED BY <3>1, AllTyped DEF Procs
  <2>2. CASE Skip("all", r) \/ Pace("all", r)
    <3>1. PICK m \in Marks : Pass("all", r, m)
      BY <2>2, NotRunTyped, MarkTyped DEF Skip, Pace
    <3>2. P' = Done("all", r, m)
      BY <3>1, AllTyped DEF Pass, P, ProgramTypeOK
    <3>3. P'.todo = P.todo \ {r}
      BY <3>2, AllTyped DEF Done, Procs, P
    <3>4. r = s
      BY <3>3
    <3> QED BY <2>2, <3>4 DEF Pace
  <2>3. CASE FetchFull("all", r) \/ FetchUnchanged("all", r) \/ FetchFails("all", r)
    <3>1. P'.todo = P.todo \ {r} /\ ~ShouldSkip("all", r)
      BY <2>3, FetchTakes
    <3>2. r = s
      BY <3>1
    <3> QED BY <3>1, <3>2
  <2> QED BY <1>3, <2>1, <2>2, <2>3, Zenon DEF HistoryOfSource
<1>4. \/ HistoryOfSweep("all")
      \/ \E r \in Sources : HistoryOfSource("all", r)
      \/ UNCHANGED historyVars \/ World
  BY DEF HistoryNext, Alone
<1> QED BY <1>1, <1>2, <1>3, <1>4

\* A source that the file of dead letters has told of is left alone for the interval: the letter
\* a sweep has read is never older than the failure behind it, so no lane, no re-probe and no
\* restart asks the source before its time, unless the file itself was lost.
THEOREM DeadSourcesRest == HistorySpec => DeadAreLeftAlone
<1>1. CycleTypeOK /\ LoneInv /\ [HistoryNext]_historyVars =>
        [\A s \in Sources :
           Alone /\ past.known[s] # Never
              /\ s \in proc["all"].todo /\ s \notin proc'["all"].todo
              /\ proc["all"].pc = "sweep"
              /\ proc["all"].start - past.known[s] < RetryInterval
           => Skip("all", s) \/ Defer("all") \/ Crash("all")]_historyVars
  <2> SUFFICES ASSUME CycleTypeOK, LoneInv, [HistoryNext]_historyVars, NEW s \in Sources, Alone,
                      past.known[s] # Never, s \in P.todo, s \notin P'.todo, P.pc = "sweep",
                      P.start - past.known[s] < RetryInterval
               PROVE  Skip("all", s) \/ Defer("all") \/ Crash("all")
    BY DEF P
  <2>t. ProgramTypeOK /\ past \in Past
    BY DEF CycleTypeOK
  <2>l. Letters
    BY DEF LoneInv, SweepInv
  <2>0. /\ P.start \in Nat /\ P.dlq[s] \in Nat /\ past.known[s] \in Nat /\ past.failed[s] \in Nat
        /\ RetryInterval \in Nat
    BY <2>t, AllTyped, CollectorTyped DEF Past
  <2>1. past.known[s] <= past.failed[s] /\ past.failed[s] <= P.dlq[s]
    BY <2>l DEF Letters
  <2>3. P.dlq[s] # Never /\ P.start - P.dlq[s] < RetryInterval
    BY <2>0, <2>1 DEF Never
  <2>4. ShouldSkip("all", s)
    BY <2>3 DEF ShouldSkip, P
  <2> QED BY <2>t, <2>4, LeavesTodo
<1> QED BY <1>1, LoneInvariant, CollectorTypes, PTL DEF HistorySpec, DeadAreLeftAlone
=============================================================================
