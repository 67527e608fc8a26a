---------------------------- MODULE CollectorCycle ----------------------------
(***************************************************************************)
(* The collector: one process with the role `all`, or one process per worker *)
(* role and one with the role `merge`, on one source database and one dead   *)
(* letter file.  Each repeats Runner.runOnce: read the dead letters, the     *)
(* table of alerts and the watermarks, fetch the sources lane by lane,       *)
(* write snapshots in between, and save or stage what Reconcile makes of it. *)
(* A process may die at any step; what it held in memory is lost.            *)
(*                                                                          *)
(* The goroutines of a lane fetch side by side.  A fetch and the section     *)
(* under the cycle's mutex are one action (nobody sees the batch before),    *)
(* recordSourceRun after the mutex is another.  A run record that cannot be  *)
(* written is dropped, and so is a dead letter file; that file is truncated  *)
(* first, and one that is cut short reads as empty.  External: feeds change  *)
(* at will, a request may fail, transiently or for good, and a topic may     *)
(* bring alerts of sources that are not in the registry.                     *)
(***************************************************************************)
EXTENDS AlertLifecycle, FiniteSets

CONSTANTS Static,          \* alerts that are in every batch: StaticInterpolEntry
          Lane,            \* lane of each source: usesFastLane, usesBrowserLane
          Versioned,       \* sources that tell a version (opensanctions-json)
          Paced,           \* html-list sources, scraped at a cadence
          SnapshotEvery,   \* sources between two progress snapshots, 25 in the code
          RetryInterval,   \* DLQRetryInterval
          ScrapeInterval,  \* HTMLScrapeIntervalHours
          Deployments      \* what may run, with the bounds on it

Workers == {"fast", "api", "browser"}
Roles   == Workers \cup {"all", "merge"}

ASSUME CollectorTyped ==
    /\ Static \subseteq Alerts
    /\ Lane \in [Sources -> Workers]
    /\ Versioned \subseteq {s \in Sources : Lane[s] = "api"}
    /\ Paced \subseteq {s \in Sources : Lane[s] = "browser"}
    /\ SnapshotEvery \in Nat \ {0} /\ RetryInterval \in Nat /\ ScrapeInterval \in Nat
    /\ Deployments \subseteq
          [roles : SUBSET Roles, registry : SUBSET Sources, critical : SUBSET Sources,
           streams : SUBSET Alerts, \* what topics may bring, whatever source a mapper names
           orphans : SUBSET Alerts, \* left in the table by sources removed since
           until : Nat,      \* bound on the clock
           edits : Nat,      \* bound on the changes of each feed
           failures : Nat]  \* bound on deaths and on steps whose reads or writes fail
    /\ \A d \in Deployments : \A a \in d.orphans : Owner[a] \notin d.registry

Never == 0

VARIABLES deployment,  \* what runs
          clock,
          feed,        \* what each source serves, and how often it has changed
          table,       \* table alerts
          staged,      \* table staged_alerts
          mark,        \* table source_watermarks
          dead,        \* the dead letter file: time of the last attempt, or Never
          proc,        \* the processes
          failures     \* deaths and failed steps so far

cycleVars == <<deployment, clock, feed, table, staged, mark, dead, proc, failures>>

\* A watermark; a hash is the content it stands for, {} for none.
Marks  == [ok : BOOLEAN, version : Nat, hash : SUBSET Alerts,
           success : Nat]
NoMark == [ok |-> FALSE, version |-> 0, hash |-> {}, success |-> Never]

NoMarks   == [s \in Sources |-> NoMark]
NoLetters == [s \in Sources |-> Never]

Idle == [pc |-> "idle", lane |-> "fast", start |-> Never, prev |-> Empty, batch |-> Empty,
         marks |-> NoMarks, dlq |-> NoLetters,
         todo |-> {}, recording |-> {}, record |-> NoMarks]

Procs == [pc : {"idle", "sweep", "flush", "save"}, lane : Workers, start : Nat,
          prev : Tables, batch : Tables, marks : [Sources -> Marks],
          dlq : [Sources -> Nat], todo : SUBSET Sources,
          recording : SUBSET Sources, record : [Sources -> Marks]]

Items(s) == {a \in Alerts : Owner[a] = s}
Mine(p)  == {s \in deployment.registry : p = "all" \/ Lane[s] = p}
Current(p) == {s \in Mine(p) : Lane[s] = proc[p].lane}
Outside    == {Owner[a] : a \in Static \cup deployment.streams}

CycleInit ==
    /\ deployment \in Deployments
    /\ clock = 1
    /\ \E serving \in SUBSET deployment.registry :
          feed = [s \in Sources |-> [items |-> IF s \in serving THEN Items(s) ELSE {},
                                     edition |-> 1]]
    /\ table = Batch(deployment.orphans, clock)
    /\ staged = [w \in Workers |-> Empty]
    /\ mark = NoMarks
    /\ dead = NoLetters
    /\ proc = [p \in Roles |-> Idle]
    /\ failures = 0

-----------------------------------------------------------------------------
\* The world around the collector.
Tick ==
    /\ clock < deployment.until
    /\ clock' = clock + 1
    /\ UNCHANGED <<deployment, feed, table, staged, mark, dead, proc, failures>>

\* A new version may list the same alerts.
Publish(s) ==
    /\ feed[s].edition <= deployment.edits
    /\ \E items \in SUBSET Items(s) :
          feed' = [feed EXCEPT ![s] = [items |-> items, edition |-> @.edition + 1]]
    /\ UNCHANGED <<deployment, clock, table, staged, mark, dead, proc, failures>>

-----------------------------------------------------------------------------
\* A step some of whose reads and writes are lost, within the bound; one failure
\* may hit any of them.
Losing(things) == IF failures < deployment.failures THEN SUBSET things ELSE {{}}
Tries        == IF failures < deployment.failures THEN BOOLEAN ELSE {TRUE}
Spends(done) == failures' = IF done THEN failures ELSE failures + 1

\* The start of a sweep.  A table that cannot be read is a warning, and the
\* sweep goes on as if there had been no alerts; dead letters and marks that
\* cannot be read are none.
Begin(p) ==
    /\ p # "merge" /\ proc[p].pc = "idle"
    /\ \E lost \in Losing({"alerts", "letters", "marks"}) :
          /\ Spends(lost = {})
          /\ proc' = [proc EXCEPT ![p] =
                [Idle EXCEPT !.pc = "sweep", !.start = clock, !.todo = Mine(p),
                             !.batch = Batch(Static, clock),
                             !.prev  = IF "alerts" \in lost THEN Empty ELSE table,
                             !.dlq   = IF "letters" \in lost THEN NoLetters ELSE dead,
                             !.marks = IF "marks" \in lost THEN NoMarks ELSE mark]]
    /\ UNCHANGED <<deployment, clock, feed, table, staged, mark, dead>>

ShouldSkip(p, s) == proc[p].dlq[s] # Never /\ proc[p].start - proc[p].dlq[s] < RetryInterval

\* Sources are taken in the order of the lanes.
Takes(p, s) == proc[p].pc = "sweep" /\ s \in Current(p) \cap proc[p].todo

\* What recordSourceRun is told; last_success_at moves with an ok run and
\* with any 2xx status.
Mark(s, ok, version, hash, http2xx) ==
    [ok |-> ok, version |-> version, hash |-> hash,
     success |-> IF ok \/ http2xx THEN clock ELSE mark[s].success]
NotRun(s) == Mark(s, FALSE, 0, {}, FALSE)

\* The browser lane records a source where it stands, the other lanes after
\* they have left the mutex.
InPlace(s) == Lane[s] = "browser"
MarkNow(s, m, written) == mark' = IF InPlace(s) /\ written THEN [mark EXCEPT ![s] = m] ELSE mark
Done(p, s, m) ==
    IF InPlace(s) THEN [proc[p] EXCEPT !.todo = @ \ {s}]
    ELSE [proc[p] EXCEPT !.todo = @ \ {s}, !.recording = @ \cup {s}, !.record[s] = m]

Pass(p, s, m) ==
    /\ Takes(p, s)
    /\ \E done \in Tries : Spends(done) /\ MarkNow(s, m, done)
    /\ proc' = [proc EXCEPT ![p] = Done(p, s, m)]
    /\ UNCHANGED <<deployment, clock, feed, table, staged, dead>>

Skip(p, s) == ShouldSkip(p, s) /\ Pass(p, s, NotRun(s))

\* shouldSkipHTMLScrape: the probe answers 2xx and the last success is recent.
Recent(p, s) == mark[s].success # Never /\ proc[p].start < mark[s].success + ScrapeInterval
Pace(p, s) ==
    /\ s \in Paced /\ ~ShouldSkip(p, s) /\ Recent(p, s)
    /\ Pass(p, s, Mark(s, FALSE, 0, {}, TRUE))

\* The browser cannot be reached: its lane waits for the next sweep.
Defer(p) ==
    /\ proc[p].pc = "sweep" /\ proc[p].lane = "browser"
    /\ proc[p].todo # {} /\ proc[p].todo = Current(p)
    /\ \E lost \in Losing(Current(p)) :
          /\ Spends(lost = {})
          /\ mark' = [s \in Sources |-> IF s \in Current(p) \ lost THEN NotRun(s) ELSE mark[s]]
    /\ proc' = [proc EXCEPT ![p].todo = {}]
    /\ UNCHANGED <<deployment, clock, feed, table, staged, dead>>

-----------------------------------------------------------------------------
\* The section under the mutex: the batch, the dead letters, and a snapshot
\* after the first fast source and after every SnapshotEvery sources.
SnapshotDue(p, s) ==
    LET completed == Cardinality(Mine(p)) - Cardinality(proc[p].todo) + 1
    IN (Lane[s] = "fast" /\ completed = 1) \/ completed % SnapshotEvery = 0

SnapshotNow(p, batch, written) ==
    table' = IF written THEN Snapshot(batch, proc[p].prev) ELSE table

Joined(items, p) ==
    [a \in Alerts |-> IF a \in items THEN Batch(items, proc[p].start)[a] ELSE proc[p].batch[a]]

\* One failure may take the run record of the browser lane, the snapshot, or both.
Collect(p, s, items, m, attempt) ==
    /\ Takes(p, s) /\ ~ShouldSkip(p, s)
    /\ proc' = [proc EXCEPT ![p] =
           [Done(p, s, m) EXCEPT !.batch = Joined(items, p), !.dlq[s] = attempt,
                                 !.pc = IF SnapshotDue(p, s) THEN "flush" ELSE "sweep"]]
    /\ \E lost \in Losing({"record", "snapshot"}) :
          /\ Spends(lost = {})
          /\ MarkNow(s, m, "record" \notin lost)
          /\ IF SnapshotDue(p, s) THEN SnapshotNow(p, Joined(items, p), "snapshot" \notin lost)
             ELSE UNCHANGED table
    /\ UNCHANGED <<deployment, clock, feed, staged, dead>>

\* fetchOneSource.  A batch with the hash of the last run gives no alerts and
\* records no hash; the browser lane does not ask.
SameHash(p, s) ==
    LET m == proc[p].marks[s]
    IN ~InPlace(s) /\ m.ok /\ m.hash # {} /\ m.hash = feed[s].items

\* Mutant of FetchFull: the hash is recorded also when it was the same.
FetchFullRemembers(p, s) ==
    LET items   == IF SameHash(p, s) THEN {} ELSE feed[s].items
        version == IF s \in Versioned THEN feed[s].edition ELSE 0
    IN Collect(p, s, items, Mark(s, TRUE, version, feed[s].items, TRUE), Never)

FetchFull(p, s) ==
    LET items   == IF SameHash(p, s) THEN {} ELSE feed[s].items
        version == IF s \in Versioned THEN feed[s].edition ELSE 0
    IN Collect(p, s, items, Mark(s, TRUE, version, items, TRUE), Never)

\* skipOpenSanctionsIfCurrent, or a 304: nothing is read.
FetchUnchanged(p, s) ==
    LET m == proc[p].marks[s]
    IN /\ s \in Versioned /\ m.ok /\ m.version = feed[s].edition
       /\ Collect(p, s, {}, Mark(s, TRUE, m.version, {}, TRUE), Never)

\* Mutant of FetchFails: a failed re-probe leaves the old attempt.
FetchFailsForgets(p, s) ==
    \E attempt \in {clock, proc[p].dlq[s]} : Collect(p, s, {}, NotRun(s), attempt)

\* A permanent error is a dead letter from now; a transient one only renews
\* the attempt of a source that was dead before.
FetchFails(p, s) ==
    \E attempt \in {clock, IF proc[p].dlq[s] = Never THEN Never ELSE proc[p].start} :
        Collect(p, s, {}, NotRun(s), attempt)

\* DLQ.Write; the file is truncated before it is filled.
WriteLetters(p) ==
    \E done \in Tries :
        Spends(done) /\ dead' \in IF done THEN {proc[p].dlq} ELSE {dead, NoLetters}

\* The dead letters follow the snapshot into their file.
Flush(p) ==
    /\ proc[p].pc = "flush"
    /\ WriteLetters(p)
    /\ proc' = [proc EXCEPT ![p].pc = "sweep"]
    /\ UNCHANGED <<deployment, clock, feed, table, staged, mark>>

\* A record that cannot be written leaves the mark as it was.
Record(p, s) ==
    /\ s \in proc[p].recording
    /\ \E done \in Tries :
          Spends(done) /\ mark' = IF done THEN [mark EXCEPT ![s] = proc[p].record[s]] ELSE mark
    /\ proc' = [proc EXCEPT ![p].recording = @ \ {s}, ![p].record[s] = NoMark]
    /\ UNCHANGED <<deployment, clock, feed, table, staged, dead>>

\* The fast and the api lane wait for their workers and end with a snapshot.
LaneEnd(p) ==
    /\ proc[p].pc = "sweep" /\ proc[p].lane # "browser"
    /\ Current(p) \cap proc[p].todo = {} /\ proc[p].recording = {}
    /\ proc' = [proc EXCEPT ![p].lane = IF @ = "fast" THEN "api" ELSE "browser"]
    /\ IF Current(p) = {} THEN UNCHANGED <<table, failures>>
       ELSE \E done \in Tries : Spends(done) /\ SnapshotNow(p, proc[p].batch, done)
    /\ UNCHANGED <<deployment, clock, feed, staged, mark, dead>>

\* assertCriticalSourceCoverage: a source that was not modified has fetched nothing.
Gap(batch) == \E s \in deployment.critical : \A a \in Items(s) : batch[a] = Gone

\* The topics are asked after the last lane.
Finish(p) ==
    /\ proc[p].pc = "sweep" /\ proc[p].lane = "browser" /\ proc[p].todo = {}
    /\ WriteLetters(p)
    /\ \E brought \in SUBSET deployment.streams :
          proc' = [proc EXCEPT ![p] =
                     IF Gap(Joined(brought, p)) THEN Idle
                     ELSE [@ EXCEPT !.pc = "save", !.batch = Joined(brought, p)]]
    /\ UNCHANGED <<deployment, clock, feed, table, staged, mark>>

\* A sweep keeps what is known of its sources and of those in its batch.
Reconciled(p) ==
    LET batch == proc[p].batch
    IN Reconcile(batch, Purged(proc[p].prev, Mine(p) \cup Owners(batch)), proc[p].start)

Save(p) ==
    /\ p = "all" /\ proc[p].pc = "save"
    /\ \E done \in Tries : Spends(done) /\ table' = IF done THEN Reconciled(p) ELSE table
    /\ proc' = [proc EXCEPT ![p] = Idle]
    /\ UNCHANGED <<deployment, clock, feed, staged, mark, dead>>

Stage(p) ==
    /\ p \in Workers /\ proc[p].pc = "save"
    /\ \E done \in Tries :
          /\ Spends(done)
          /\ staged' = IF done THEN [staged EXCEPT ![p] = Visible(Reconciled(p))] ELSE staged
    /\ proc' = [proc EXCEPT ![p] = Idle]
    /\ UNCHANGED <<deployment, clock, feed, table, mark, dead>>

-----------------------------------------------------------------------------
\* runMergeOnly: whatever is staged is the batch, the roles that staged last
\* first; statuses are not looked at.
Over(first, second) == [a \in Alerts |-> IF first[a] # Gone THEN first[a] ELSE second[a]]

MergeLoad ==
    /\ proc["merge"].pc = "idle"
    /\ \E u, v, w \in Workers :
          LET batch == Over(staged[u], Over(staged[v], staged[w])) IN
          /\ {u, v, w} = Workers /\ batch # Empty
          /\ \E done \in Tries :
                /\ Spends(done)
                /\ proc' = [proc EXCEPT !["merge"] =
                      [Idle EXCEPT !.pc = "save", !.start = clock, !.batch = batch,
                                   !.prev = IF done THEN table ELSE Empty]]
    /\ UNCHANGED <<deployment, clock, feed, table, staged, mark, dead>>

MergeSave ==
    /\ proc["merge"].pc = "save"
    /\ \E done \in Tries :
          /\ Spends(done)
          /\ table' = IF done THEN Reconcile(proc["merge"].batch, proc["merge"].prev,
                                             proc["merge"].start)
                      ELSE table
    /\ proc' = [proc EXCEPT !["merge"] = Idle]
    /\ UNCHANGED <<deployment, clock, feed, staged, mark, dead>>

-----------------------------------------------------------------------------
\* Where the dead letters are written next.
WritesLetters(p) ==
    \/ proc[p].pc = "flush"
    \/ proc[p].pc = "sweep" /\ proc[p].lane = "browser" /\ proc[p].todo = {}

\* A process dies in the middle of its work, maybe of that write.
Crash(p) ==
    /\ failures < deployment.failures /\ proc[p].pc # "idle"
    /\ failures' = failures + 1
    /\ proc' = [proc EXCEPT ![p] = Idle]
    /\ dead' \in IF WritesLetters(p) THEN {dead, NoLetters} ELSE {dead}
    /\ UNCHANGED <<deployment, clock, feed, table, staged, mark>>

World == Tick \/ \E s \in deployment.registry : Publish(s)
Sweeps(p) ==
    \/ Begin(p) \/ Defer(p) \/ Flush(p) \/ LaneEnd(p) \/ Finish(p) \/ Save(p) \/ Stage(p)
    \/ \E s \in Sources : \/ Skip(p, s) \/ Pace(p, s) \/ Record(p, s)
                          \/ FetchFull(p, s) \/ FetchUnchanged(p, s) \/ FetchFails(p, s)
Merges == MergeLoad \/ MergeSave

CycleNext ==
    \/ World
    \/ \E p \in deployment.roles : Sweeps(p) \/ Crash(p)
    \/ "merge" \in deployment.roles /\ Merges

CycleSpec == CycleInit /\ [][CycleNext]_cycleVars

ProgramTypeOK ==
    /\ deployment \in Deployments /\ clock \in Nat
    /\ feed \in [Sources -> [items : SUBSET Alerts, edition : Nat]]
    /\ table \in Tables /\ staged \in [Workers -> Tables]
    /\ mark \in [Sources -> Marks] /\ dead \in [Sources -> Nat]
    /\ proc \in [Roles -> Procs]
    /\ failures \in 0 .. deployment.failures
=============================================================================
