# kafSIEM in TLA+

Specifications of kafSIEM (module path `kafsiem`), the TLC configurations that check them on small
instances, and theorems about them checked by TLAPS. Line numbers refer to the repository at the
commit these modules were written against; paths without a directory are under `src/internal`.

## 1. The system

kafSIEM is two programs in one binary set. The **AgentOps observer** reads Kafka topics of agent
conversations into an SQLite database and a graph; the **OSINT collector** polls feeds, keeps a
lifecycle of alerts and writes JSON for the desk. `app.Run` (`collector/app/app.go`) starts
either or both in one process; the analyst API (`cmd/kafsiem-api`) is a process of its own over the
observer's database, the collector's API a server inside the collector.

| Component | State it keeps | Operations | Talks to | What is hard |
|---|---|---|---|---|
| Tracking loop (`agentops/kafka/runtime.go`, `run`) | goroutine state, fetched batch, committed offsets at the broker | `Start`, poll, `handleRecord`, `acceptMessage`, `mirrorReject`, `CommitRecords` | state database, broker | death between two transactions or before the commit; redelivery; dropped errors |
| Replay (same file) | `replay_requests`, `replay_sessions`, `Health.ReplayActive`, `replayCancels`, one goroutine and one consumer group per session | `processReplayRequests`, `startReplay`, `runReplay`, `finishReplay` | state database, broker, both HTTP servers | goroutines writing the same document; a claimed request and a death; groups named by the second |
| State database (`agentops/store/sqlite_store.go`) | the document in memory, its tables | `NewSqliteStore`, `Update`, `Apply`, `reload` | everyone above | each `Update` rewrites every table, with foreign keys from the graph into them; what is read back replaces what was held |
| Graph writer (`graph/writer.go`, `schema.sql`) | entities, edges, provenance | `UpsertEntity`, `AppendEdge`, `CloseOpenEdges`, `AppendProvenance` | inside `Apply` | late and repeated records; history must not be rewritten |
| Analyst reads (`agentops/store/query.go`, `graph/query.go`, `kafsiemapi/server.go`) | cursors, at the reader | `ListFlows`, `ListMessagesForFlow`, `Neighborhood`, `Path`, `EntityProfile`, search boxes; `POST /replays` | state database | several statements, pages and processes while rows are added, moved and evicted |
| Collector cycle (`collector/run/run.go`) | tables `alerts`, `staged_alerts`, `source_watermarks`; a sweep's batch, previous alerts and watermarks in memory | `watch`, `runOnce`, `runMergeOnly`, `writeProgressSnapshot`, `recordSourceRun` | source database, dead letter file, feeds, output files | a sweep is many transactions: snapshots replace the table, watermarks run ahead of the alerts they stand for, a death comes between; lanes side by side; one process per role |
| Alert lifecycle, dead letters (`collector/state/state.go`) | alerts with status and dates; sources that failed for good | `Reconcile`, `purgeOrphanAlerts`; `ReadDLQ`, `ShouldSkip`, `Add`, `Remove`, `Write` | collector cycle | repeated sweeps, three horizons, snapshots that bypass it |
| Registry (`sourcedb/db.go`, `collector/registry`) | table `sources`, hash of the seed | `upsertSource`, imports, merges, promotion, backfill at opening, `LoadActiveSources` | seed files, discovery, sweeps | three writers with different words for the status of a source |
| Discovery (`collector/discover`, `collector/vet`, `trends/hints.go`) | candidate queue file | generate, crawl with workers, vet, promote, write the queue | registry, sites, a language model | read-modify-write of one file by two loops; workers that meet one feed twice; failures at any step of a pass |
| Fetching (`run.go`, `collector/fetch`) | watermarks, `cursors.json` | `fetchOneSource` with its retry, a fetcher per type, Interpol's backfill | sites | several requests that answer for different editions, partial failures, pages that shift |
| Kafka alert connector (`run/kafka.go`) | a client per sweep, the group's offsets | test, poll, map, commit | broker, collector cycle | commit before the alerts are saved; cap, bad records |
| Filtering (`noisegate/engine.go`, `translate/llm.go`, `normalize/normalize.go`) | a sweep's batch | gate, classifier, severity, `Deduplicate`, lanes, `FilterActive` | collector cycle, a language model | decisions keyed by what later steps change; order of answers and of maps |
| Incidents (`normalize/incidents.go`, `fingerprint.go`, `incident_overview.go`) | table of incidents | link, unite, name, save; overview graph | collector cycle, API | seven kinds of pairs in any order; rows that have gone |
| Briefings (`run.go`, `run/terror_analysis.go`, `zonebrief`, `sourcedb/ucdp_*`) | dataset cache, `zone_brief_llm`, output files, `terror-analysis-llm.json` | paged reads, early and final run, narratives, assessments | UCDP service, a language model, the API's request | caches compared by their first page, two writers of one file, a run cut after 20 seconds |
| Trends (`trends/trends.go`) | two tables by day | `Record`, `Prune`, `DetectSpikes`, `BuildHints`, digests | collector cycle, API, discovery | counts over days, retention, sweeps that fail |
| Collector API (`collector/api/api.go`) | token buckets | search, digest, narratives, incidents | source database, files | an index replaced under searches; eviction of buckets |
| Ontology packs, desk, build tooling, generated clients | none | load, show, generate | - | - |

What makes the modelled ones correct:

* *Tracking loop*: a record gets an outcome before its offset is committed; a bad record or a
  failing mirror never stops a partition; redelivery counts nothing twice; an accepted record is in
  the graph although message and graph are two transactions.
* *Replay*: a request starts one replay at most; a replay never disturbs the
  tracking group, reads from the earliest offset, ends, and leaves its end in the session list.
* *State database and graph*: the cap keeps the newest messages; what is written is read back; edges
  are history; evidence, `last_seen` and provenance agree with them.
* *Analyst reads*: paging gives every row that stands, once; a path is one of the shortest.
* *Collector cycle and alert lifecycle*: the status of an alert follows from the last sweep that saw
  it, whatever snapshots were written meanwhile; a hash that hides content stands for content that was
  stored, and is in force unless a run record was lost; what a feed keeps serving is in the table again and
  again, through deaths and failed saves; of the sources of the registry a worker stages its own lane only; a
  source that is dead is left alone for the interval, as far as the file tells.
* *Registry and discovery*: what was rejected is not collected; a feed is vetted and promoted once in a
  pass; what waits in the queue is crawled in the end, unless its file was not read or written whole.
* *Fetching and connector*: nothing is passed over for good; `not_modified` means that
  there is nothing new, and an empty answer that there is nothing.
* *Filtering and incidents*: the gate's word is kept; the result does not depend on the order of answers
  or maps; incidents are the connected components of their links, and their graphs hang together from the save
  of the incidents to the next save of alerts.
* *Briefings*: a cache is of the first page it is compared with; narratives are not lost; a
  failed read does not empty the file of conflicts; the two decisions whether to ask the model agree.
* *Trends, search, limiter*: a digest counts each sighting once; a search of the alerts finds the
  rows as they are; a client gets no more than its budget.

`PROJECT.json` lists the hazards line by line with the property that watches each.

## 2. Modules

| Module | Models |
|---|---|
| `AgentStore` | `SqliteStore` and the graph tables: `Update`, `Apply(appendGraph)`, opening, loss of the process; no behaviour of its own |
| `AgentIngest` | the goroutine of `Service.run` on `AgentStore`: one action per step of the loop, `Crash`, and the properties of loop, store and graph |
| `AtLeastOnce` | the abstract consumer: outcomes in offset order per partition, commits after outcomes |
| `AgentReplay`, `AgentReplay_proofs` | extends `AgentIngest` with the queue, the sessions, `runReplay` goroutines, and the broker's side of the replay groups |
| `AgentIngest_proofs` | theorems about `AgentIngest`: types, offsets, refinement, the graph |
| `AgentPages` | flows and traces with participants, written, read back and listed in pages |
| `GraphQueries` | `Neighborhood`, `Path` and `EntityProfile` statement by statement beside the writer |
| `AlertLifecycle` | `Reconcile`, `purgeOrphanAlerts` and the merge of a progress snapshot, as operators on the table of alerts |
| `CollectorCycle` | `runOnce` and `runMergeOnly` as steps of one process per role, on `AlertLifecycle`, with watermarks, dead letters, feeds, a clock and deaths |
| `CollectorHistory`, `CollectorHistory_proofs` | `CollectorCycle` with a history variable, the fairness and the properties of the collector; theorems about it |
| `SourceRegistry` | the rows of `sources` and what each writer makes of them, as operators |
| `SourceDiscovery`, `SourceDiscovery_proofs` | discovery loop, registry sync and hinting sweep around table and queue file, with deaths, stops and restarts; the theorem about a pass |
| `FeedFetch` | the fetches of one source sweep after sweep: what its kind of fetcher can answer, the retry, the watermark |
| `InterpolBackfill` | the pages of Interpol's notices and the cursor between sweeps |
| `KafkaConnector` | the connector of a sweep, its group's offsets, and the save |
| `AlertFilter` | noise gate, classifier, duplicates, lanes and thresholds of a batch |
| `IncidentClusters`, `IncidentOverview` | links, union-find, names and saving of incidents; the graph the API draws of one |
| `DatasetCache` | the paged read of a dataset and its cache; its theorem |
| `ZoneBriefings` | the runs of `writeZoneBriefings` and the API's request for a narrative on files and table they share |
| `TerrorAnalysis` | evidence, decision to ask, and cache of the terror assessments |
| `ItemLists` | what filters do with the items of a document: `Chosen`, for `FeedFetch` and `AlertFilter` |
| `Sources_proofs` | theorems about `KafkaConnector`, `FeedFetch` and `AlertFilter` |
| `Briefings_proofs` | theorems about `DatasetCache`, `ZoneBriefings` and `TerrorAnalysis` |
| `TermTrends`, `AlertSearch` | counts by day with spikes and digests; the table and index of alerts with search |
| `RateLimiter` | token buckets and their eviction |
| `Alerts_proofs` | theorems about `IncidentClusters`, `IncidentOverview`, `AlertSearch` and `RateLimiter` |
| `Analyst_proofs` | theorems about `AgentPages`, `GraphQueries` and `TermTrends` |
| `MCAgentIngest`, `MCAgentReplay`, `MCCollector`, `MCDiscovery` | constants for the runs |
| `MCSources`, `MCBriefings`, `MCAnalyst`, `MCAlerts`, `MCFeed` | constants, and which of several parts of the system that share no state a behaviour is of (`part`) |

Composition: `AgentReplay` extends `AgentIngest`, which extends `AgentStore`; `CollectorHistory` extends `CollectorCycle` and `AlertLifecycle`; `SourceDiscovery` extends
`SourceRegistry`; `IncidentOverview` extends `IncidentClusters`; `FeedFetch` and `AlertFilter` extend
`ItemLists`. `AgentIngest` and `AgentReplay` are
shown to implement `AtLeastOnce`.

### How state and steps correspond to the code

**Store.** `SqliteStore` runs `Update` and `Apply` under one mutex and each in one SQL transaction,
so each is one step. `doc` is `SqliteStore.doc`; `db` is what `readDocument` would read; `edges`,
`entities` (`last_seen`) and `prov` are the graph tables. The document is reduced to what the
properties tell apart: which messages are retained, how many were folded into each flow and trace,
the last status of each task, and the counters of `Health`.

`Update` is the whole of `replaceWithDocument`. Its `DELETE FROM messages` fires the foreign key
`edges.evidence_msg ... ON DELETE SET NULL`, so every edge loses its evidence (`NoEvidence`), unless
two edges would then be equal under `idx_edges_dedupe`: then the statement fails and so does the
transaction (`UpdateFails`, guard `RewriteFits`). `AppendGraph` inserts the edges of a record, closes
open edges into a task that has ended, maximises `last_seen`, writes provenance and ends with
`reload`. It fails when the record is no longer in `messages` (foreign key) or when closing an edge
makes two rows equal.

`sort.Slice` is not stable, so among equal timestamps `Retained` leaves open which messages survive
the cap.

**Loop.** `pc` is where the goroutine is. `handleRecord`'s refusals (unknown topic, undecodable
envelope) are a field of the record, since they depend on nothing else. `acceptMessage` is two
actions, `UpdateDocument` and `UpdateGraph`, because it is two transactions and a death or another
goroutine may come between. `Mirror` produces to the reject topic or fails; `Reject` is the `Update`
after it, whose error the code drops. `Commit` commits the batch. `CommitFails` may have reached the
broker. `Pick` goes through the batch partition by partition, as `EachRecord` does, in any order of
partitions. `Crash` loses what was in memory; the next `Start` reads the tables and resumes at the
committed offsets.

**Replay.** `Claim`, `BeginRequested`, `Register`, `Answer`, `Note` are the transactions of
`processReplayRequests` and `startReplayWithTopics` in order; the tracking loop cannot poll in
between, because they run in its goroutine. `BeginByHand` is `StartReplay` called from the
collector's HTTP server in a goroutine of its own. A replay goroutine goes through `Join`, polls,
`Handle`, the two transactions of `acceptMessage`, `CommitReplay`, `Finish` (under `replayMu`) and
`WriteEnd` (after it). Group ids are `...-replay-<yyyymmddThhmmss>`, so a replay shares the second of
the one before or has a later one; the members of a group divide the partitions and whoever gets a
partition starts at its committed offset, or at the first one. `cancelReplay` has no caller outside
the tests.

**Collector.** A `proc` is one process of a role with what its current sweep holds in memory: the
previous alerts (`prev`), the batch, the watermarks and dead letters it read at the start, the sources
still to do. `table`, `staged`, `mark` and `dead` are what it shares with other roles and with the
next sweep. `Begin` is the head of `runOnce` up to `loadAllWatermarks`. A table that cannot be read is a
warning in the code, so `prev` is then empty.

The workers of a lane fetch in parallel and meet in the section under `mu`. The fetch touches nothing
shared, so fetch and section are one action per outcome: `FetchFull`, `FetchUnchanged` (a version that
has not moved), `FetchFails`. The section ends with a snapshot when one is due; the dead letters are
written after it (`Flush`, still under `mu`). `Record` is `recordSourceRun`, which the fast and the api
lane call after they have left `mu`; the browser lane runs one source after another and records in
place. `LaneEnd` is `wg.Wait` and the snapshot after it. `Skip` is a dead letter, `Pace` the cadence
gate, `Defer` the browser lane without a browser. `Finish` writes the dead letters and gives up on a
critical gap; `Save` and `Stage` are the two ends of `runOnce`. `MergeLoad` takes staged alerts and
table in one step: in between nothing is written by the merge, and a worker's snapshot that falls
there could as well have come before or after. `Crash` takes everything in `proc`.

The code goes on without a run record that cannot be written (`run.go:5702`; up to twelve goroutines write them at a
time), without the dead letters (`run.go:318`, `400`, `518`, `530`) and without a snapshot. So in the model each such
write may be lost (`Losing`, `Tries`): the old mark stays, with its hash; the letters stay, or, since `os.WriteFile`
truncates first, are none (`WriteLetters`, also when the process dies there). One failure may take several writes of
one step, as when the database is locked. `past.lost` and `past.known` tell the properties which records and
letters these were.

Not all of a batch is fetched: every role's starts with `normalize.StaticInterpolEntry` (`run.go:247`, `Static`), and
topics bring alerts of whatever source a mapper names after the last lane (`run.go:522`, `streams`). The purge keeps
what is known of the role's own sources and of those in the batch (`Reconciled`, `run.go:549`), so the alerts of a
source that is not in the registry (`Outside`) stay in the table only with the batches that bring it.

A feed serves a set of alerts and has a version that grows with every change. An alert is dated when
it is read, as `normalize` dates an item without a date; `Reconcile` looks at `last_seen` only. Only
`opensanctions-json` sources have a version: `fetchOneSource` remembers `ETag` and `Last-Modified` of
others only if it had one before, so for them the conditional request never starts and the content
hash is the only gate. After the gate has hidden a batch the recorded hash is empty, so the next sweep
reads in full again.

**Analyst reads.** `AgentPages` folds records into flows and traces as `updateFlow` and
`updateTraceMessage` do, writes them with their participants and reads the whole document back after
every record, since `Apply` ends with `reload`. `Attached` is where `readFlows` loses participants: it
keeps pointers into a slice that moves when it grows. A page is one query below the cursor `(last_seen,
id)`; the reader takes as many pages as there are while records go on. In `GraphQueries` every SQL
statement of a request is a step, the search of `Path` in memory runs queue entry by queue entry, and
`Write` appends or closes an edge between any two of them.

**Registry and discovery.** `SourceRegistry` is the conflict clause of `upsertSource` and what surrounds
it, as operators on rows reduced to feed and promotion status. `SourceDiscovery` has a variable per
goroutine: `pass` for `discover.Run`, `sync` for `syncRegistrySeed`, `hinting` for the sweep. A pass
goes `Begin`, `Generate`, `Load`, then its workers `Takes`, `Refuse`, `Discover` or `Miss` (with
`Reserved` under the mutex), `Vet`, `Promote`, `WriteQueue`, `FillQueue`; a sweep goes `HintRead`, `HintWrite`, `HintFill`. Each file read,
file write and transaction may fail within the bound of the deployment; `Crash` takes the process, `Cancel`
its context. The queue file has no lock: `os.WriteFile` truncates it (`WriteQueue`, `HintWrite`), then fills
it (`FillQueue`, `HintFill`), a write may be cut short, and both readers take a file that cannot be
read or parsed, as one that is `Torn`, for one without candidates (`Reads`, `Fills`), whereupon their
caller writes over it. `blind` remembers that this has happened; without it `QueuedIsCrawled` is false
(`QueueIsNeverLost`, section 4).

**Fetching.** A kind of source in `FeedFetch` is an operator: the set of answers it can give when each of
its requests may fail and the site may change in between, with filters, the dictionary of the category
(`Kept`, `filterCategoryItems`, which `fetchHTML`, `fetchTelegram` and `fetchX` call), the gate, sorting and limit
in the order of the code. ACLED and UCDP answer nothing, without an error, when the settings have no credentials for
them (`Unkeyed`). `Start`, `NotModified` and `Ask` are the conditional request, `Check`, `Index` and
`Stream` the three requests of OpenSanctions, `Fetch` everything else; what comes through meets the gate on the hash of the last run
(`Through`, `Same`), and `Answer` records what `recordSourceRun` does. The `html` kinds share `Page`, the JSON and XML lists `List`, since they differ
in parsing only. `InterpolBackfill` reads page by page, with the cursor as `cursors.json` holds it.
Its limit may fall within a page: `tails` remembers the notices that are read and then cut off.
`KafkaConnector` is `collectKafkaAlerts` call by call; the rest of the sweep is the one step `Save` with
its purge of orphans.

**Filtering and incidents.** `Read` gives the outcomes of one source's document in the order of the
workers, `Sort` is the sort of the full batch; both choose freely where Go does (maps, unstable sorts).
Scores are per mille, ages hours. `IncidentClusters` adds the pairs in any order, one `Union` at a time
with the path compression of `find`; `Finalize` makes the incidents and the dedup, `SaveIncidents` replaces
the table. What extractors find in a text (tokens, CVEs, actors, indicators, sectors) is given per alert and edition: a
later sweep may find another title, category or country under one alert id (`AlertId`, `OneEdition`). `IncidentOverview`
keeps the rows of the table beside the incidents: what is shared comes from what was stored with the incident,
which alert has it from the row of now. A sweep saves the alerts well before the incidents, so
`OverviewHangsTogether` is about the time between the save of the incidents and the next save of alerts (`linked`); that
it fails in between is `AlwaysHangsTogether` of section 4.

**Briefings.** `DatasetCache` has a step per page and per transaction, `ZoneBriefings` a step per file and
per row; the run, the request and a death interleave at these. Files are reduced to the fields that the
next run, the request or the web looks at. The model's answer is chosen. A process started without an access
token of the datasets writes empty lists over the briefings and the conflicts (`EmptyBriefings`, `EmptyCurrent`); a
read of the conflicts whose later pages fail gives some of them without an error (`run.read`). `TerrorAnalysis` keeps the
weights of `terrorSignalEvidence`, the order and the limits of the evidence.

**Trends, search, limiter.** A sweep of `TermTrends` records, prunes and detects in separate
statements; `Digest` is the query at any state. Rows and digests are by term and category, as the key of the table
and the `GROUP BY` are; a country whose query fails is missing in `AllDigests`. (An error of the rows that comes
while they are read is not looked at by the code, and not modelled.) `AlertSearch` goes `Collect` (Reconcile), `Save` (rows
and index in one transaction), `Blend`, `Write`; a search is evaluated at any state. A query
is the beginning of a word of title, category, region or source, or none, with a category, a region, a lane and a
status; the lane of a row without one is inferred as `inferSignalLane` does. `RateLimiter` counts in the
ticks in which one unit is refilled; a token is `Cost` units, so fractions of a token are units.

External behaviour is modelled from how the code uses it: polls return a stretch of
some partitions, commits are per group, a rebalance gives every partition to some member; sites, services
and language models answer anything their callers accept, or fail; SQLite transactions are atomic.

## 3. Runs

| Run | Question | Instance |
|---|---|---|
| `ingest` | Does the loop skip, double-count, lose edges or stop, with a death and a broker fault at any point? | four records on two partitions: a request, an undecodable record, a terminal response older than the request, a second response in the same second; caps 1 and 4; one death, one fault; reject topic set |
| `replay` | Do a queued replay, one started by hand and the loop disturb each other? | two records of one flow, caps 1 and 2, one session kept |
| `replay_restart` | Does a request start one replay, and does every replay end, with a death and a failing poll? | one record, cap 2 |
| `collector` | Do statuses follow the last sighting, does the hash gate hide only what is stored, are dead sources left alone, does a worker stage only its own, when run records and files may be lost? | a feed with one alert and one with two, a versioned list, a page that accumulates and has a filtered alert; the static entry in every batch, a topic with two alerts; twelve deployments, one or two sources at a time |
| `collector_live` | Is what a feed keeps serving in the table again and again? | one feed, role `all`, one change, one failure; a worker and the merge, one failure |
| `discovery` | Is a feed taken once, does a rejection last, is what waits crawled in the end? | two sites, three candidates and a hint, two workers, two editions of the seed; four deployments with a fault, which may tear the file, a stop, an entrypoint's merge, or no vetter |
| `sources` | Is nothing passed over by the connector or the backfill, and do empty and unchanged answers mean what they say? | two partitions with dropped records between good ones, cap and fetch size 2; eleven kinds of sources over five documents, with credentials for ACLED and none for UCDP, three edits, three failures; six notices in pages of two, with limits of 3, 4 and 6 |
| `briefings` | Is what a cache gives as new as its first page, are narratives kept, do the two decisions agree? | four datasets of four chunks, three editions, two mishaps; one country, three days, with and without a token, a request beside the runs; three alerts of different weight and 72 hours |
| `analyst` | Do pages and paths give what they say while the observer writes? | five records of three flows, two in one second and one late, cap 4, pages of one row; five links with a short and a long way |
| `alerts` | Is the gate obeyed, is the result independent of order, are incidents components with graphs that hang together? | six entries of a feed and a page: copies, one link under two titles, both policies; any set of six alerts, one of them in two editions, that are linked in chains, two sweeps |
| `feed` | Does a digest count each sighting once, does a search find the rows, is the budget kept? | three alerts in two categories over four days with two sweeps each; three rows, two without a lane, one with a changing title, one whose source is named like a title; one client over twelve ticks |
| `participants` | Does a flow keep the participants of its messages? **No** | as `analyst` |

**Bounds.** `MaxCrashes = 1` and `MaxFaults = 1` let one failure fall between any two steps, and the
run of the whole loop after it covers recovery; the invariants that carry most weight do not depend
on these bounds, since section 5 proves them for all. Two partitions are the least that distinguish
per-partition from global order; the logs of length two give a batch a middle. Cap 1 makes every
second message evict one, cap 4 none. `KeptSessions = 1` and `IdlePolls = 1` in the passing replay
runs stand for 10 and 3: the trim happens at the second session and every empty poll may be the last.
`MaxRequests` and `MaxByHand` bound rows and calls.

The collector's horizons are 0, 1 and 2 units of the clock, so five units bring an alert through every
status and out of the table. `SnapshotEvery = 2` puts a snapshot after the first and the last of two
sources, in the middle and at the end of a sweep; `RetryInterval` and `ScrapeInterval` are 2, so that one
sweep falls inside an interval and one behind it. A deployment bounds the clock (`until`), the changes of
each feed (`edits`) and deaths plus steps whose reads and writes fail (`failures`, at most one). What
two sources can do to each other is in the deployments with two, what the horizons can do in those with
one; sources meet only in the snapshots and in `completed`.

In `discovery` two workers are the least that can meet one feed, and a site has one feed; three
candidates give a site reached twice and one whose id the seed rejects. In `sources` page size and cap are 2
with up to four items or six notices, so documents span pages, a fetch exceeds the cap, and pages shift
by one; of the limits one ends within a page, one with it, and one takes all. Four chunks of a dataset are the hashed head, the rest of its page and two more pages. Three days
and 72 hours pass both ages of a briefing and of an assessment. Pages of one row put a boundary between
any two rows. Six alerts with seven kinds of links give a chain that no pair spans. Four days with
`Lookback = Retention = 2` let a day be counted against, digested and pruned. The bucket of four units at a cost of
two, evicted after four ticks, is drained, refilled and evicted within twelve; its theorems are for every size.

**Fairness.** `Fairness` of the loop is weak fairness of `Loop` (the Go scheduler runs a runnable
goroutine, and every call in the loop has a timeout or returns) and strong fairness of `PollRecords`
(a broker that has records does not answer every poll with nothing). Nothing is assumed of `Crash`,
and `ForwardProgress` is stated only of behaviours that end up running: `run` returns on a fatal error
and nothing but a restart brings it back. A replay needs only weak fairness per goroutine, because
each poll has a deadline. In the collector every process that can go on does (weak
fairness of all its steps but its death), and a source that is asked again and again answers in full
some time (strong fairness; `PublishedIsStored` is about feeds that keep serving and are not in the dead
letters). Nothing is assumed of deaths, failed saves, feeds or the clock. In `discovery` the process is
started again after it ended (the container's restart policy), and pass and sync go on; their failures are
bounded by the deployment, so `QueuedIsCrawled` says that no finite number of them hides a candidate, unless one
hit the queue file itself or both goroutines were at that file at once. In
`sources` sweeps go on (the watch loop), and a poll that is tried again and again brings all there is for each
partition in turn (strong fairness of `Reach`); failing pages are bounded.

**Deadlock** is checked in the observer's and the collector's runs, where `Stopped` is the end of a process that
`run` has left with an error. The others say `CHECK_DEADLOCK FALSE`, because their behaviours end: documents,
days, editions and sweeps are finite in number, and a process that was told to stop stays stopped.

**Mutants.** Each property of a passing run has a mutant of the code it depends on (an operator next
to the one it replaces, commented "Mutant of"), under which TLC finds it violated.

**Properties checked by hand.** To keep the runs few, some properties that are stated in the modules are no
part of a listed run; each was checked by putting it in place of the properties of the configuration
named here, and holds there: `GraphConsistent`, `ConsumesAtLeastOnce`, `DocumentOnDisk` and `RejectsBalance`
(`MCAgentIngest.cfg`), `ReplayTypeOK` and `WithinLimit` (`MCAgentReplay.cfg`), `CountedOnce`
(`MCReplayRestart.cfg`), `CycleTypeOK` (`MCCollector.cfg`), `DiscoveryTypeOK`, `ApprovedIsKept` and
`SyncedIsMerged` (`MCDiscovery.cfg`), `KafkaTypeOK`, `CommittedIsStored` and `NewestIsDelivered`
(`MCSources.cfg`), `LastGoodIsKept` and `CutIsMadeGood` (`MCBriefings.cfg`), `NeighborhoodHangsTogether` and
`ProfileCoversCounts` (`MCAnalyst.cfg`), `BetterTakesPlace` (`MCAlerts.cfg`), `BlendedOnce`,
`SpikesStandForTheDay` and `RetryIsServed` (`MCFeed.cfg`).

## 4. What the checks found

The run `participants` is listed; the others are shown by the configuration in the second column, or by putting the
property in place of those of the configuration in brackets. TLC then reports the violation.

| Property | Configuration | What the code does |
|---|---|---|
| `FlowsKeepParticipants` | `MCParticipants.cfg` | `readFlows` and `readTraces` (`sqlite_store.go:535`) attach participants to rows that a growing slice has left behind; the next `Update` writes the document without them. |
| `EvidenceKept` | (`MCAgentIngest.cfg`) | Every `Update` empties `edges.evidence_msg` of the whole graph (`sqlite_store.go:149`), while `docs/architecture.md:111` says edges "reference messages(record_id) for audit trail". What remains is the provenance (`GraphConsistent`). |
| `DuplicateIsNoop` | (`MCAgentIngest.cfg`) | A redelivered record inserts its edges a second time (`runtime.go:459`); the two rows differ only in their evidence, and from then on every `Update` is refused (`UnwritableForever`, proved), after a restart the first one too. `ForwardProgress` still holds while the process lives. |
| `TerminalStatusWritten` | (`MCAgentReplay.cfg`) | A replay reads stored records again, which is the case above; `finishReplay` drops the error of its `Update` and the session stays `running`. |
| `ActiveReturnsToZero` | `MCReplayActive.cfg` | `finishReplay` counts under `replayMu` and writes later (`runtime.go:740`): two replays that end together may leave `ReplayActive` at 1. |
| `StartsAtEarliest` | (`MCReplayActive.cfg`) | Two replays of one second share a consumer group (`runtime.go:981`) and the second continues where the first has committed. |
| `CadenceCountsScrapes` | `MCCollectorScrapes.cfg` | A skip by the cadence gate is recorded with the probe's status, and every 2xx moves `last_success_at` (`db.go:904`), which the gate reads: a page probed more often than the interval is scraped once and never again. |
| `UnchangedIsCarried` | `MCCollectorUnchanged.cfg` | A source that has not changed returns nothing, and `Reconcile` ages its alerts like missing ones (`run.go:972`) until they are dropped, although `run.go:228` and `run.go:944` say they are carried forward. |
| `NotDroppedOnFirstMiss` | (`MCSources.cfg`) | Alerts whose source the registry does not name, as those of Kafka mappers, are purged as orphans by the first sweep without a record of it (`run.go:1184`); `docs/operations.md:320`. |
| `OlderNoticesCome` | `MCInterpol.cfg` | With a limit of one page or less, which is the default, page 1 fills it and the backfill never runs (`run.go:1683`), although `run.go:1678` says "Resume from cursor to backfill older pages". A larger limit that is no multiple of the page size cuts the tail off a page for good (`run.go:1719`); `NoticesDrain` of the run `sources` allows for that cut and for nothing else. |
| `DatasetIsFull` | (`MCBriefings.cfg`) | A page that fails ends the read without an error; the rows are kept under the hash of page 0 and used again until that changes (`run.go:4206`). |
| `RowsAreWhole` | (`MCBriefings.cfg`) | The request for a narrative writes all rows back without the fields its type does not have (`api.go:558`). |
| `WindowIsAnswered` | (`MCAnalyst.cfg`) | A neighbourhood with a window names an alias its statement does not have (`graph/query.go:360`). |
| `IncidentIdSurvives` | (`MCAlerts.cfg`) | An alert published earlier that arrives later becomes the anchor and renames the incident (`incidents.go:572`). |
| `SpikesAreMentions` | (`MCFeed.cfg`) | Each sweep records all alerts in force again, so one alert is a spike at the third sweep (`trends.go:139`). |
| `GateIsObeyed` | (`MCAlerts.cfg`) | The decision is looked up under the original title, which the translation has replaced (`run.go:1325`). |
| `WithinSourceOnly` | (`MCAlerts.cfg`) | The first round of `Deduplicate` has no source in its key (`normalize.go:2029`); `docs/architecture.md:189` says "within-source only". |
| `LeavesCrawled` | (`MCDiscovery.cfg`) | Trend hints have no URL: a pass drops them and writes the queue without them (`discover.go:581`, `:629`), although they are queued "so the discovery system can find new sources". |
| `QueueIsNeverLost` | (`MCDiscovery.cfg`) | A queue file that cannot be read, or that another goroutine has truncated and not yet filled, is taken for one without candidates and written over (`run.go:6190`, `discover.go:629`), although hints are "appended" (`run.go:6182`). |
| `QueuedUntilVetted` | (`MCDiscovery.cfg`) | Without a vetter a pass treats its candidates as refused and they leave the queue; `docs/operations.md:233` says they are queued until vetting is re-enabled. |
| `AlwaysHangsTogether` | (`MCAlerts.cfg`) | What an overview shows as shared was stored with the incident, who has it is read from the rows of now (`incident_overview.go:222`); between the save of the alerts and that of the incidents, or after the latter failed, a shared thing may have no edge and the primary no row. |
| `RatioBreaksTies` | (`MCFeed.cfg`) | The digest's ties are broken by the count (`trends.go:345`); the spike ratio is computed after the cut, although `trends.go:320` calls it the tiebreaker. |
| `TopTermsAreGiven` | (`MCFeed.cfg`) | A term of two categories is two rows with a part of its weight each (`trends.go:343`): the limit may leave it out although no other term outweighs it, or give it twice. |
| `LastGoodIsAlwaysKept` | (`MCBriefings.cfg`) | A later page that fails is no error (`run.go:4300`); when the pages before it have no conflict that goes on, the file that `run.go:2631` would preserve is emptied. |

Observed besides, where no document promises otherwise: sessions
that run when the process dies stay `running`; requests of the queue start replays also when
`AGENTOPS_REPLAY_ENABLED` is false; role workers overwrite each other's dead letters; a worker's
snapshots go to the merge's table; the merge takes staged rows of any status as seen now, so in role
mode an alert may never leave `active`; after a death the next sweep starts from a snapshot, which has
dropped what its sources missed; the connector's startup test throws away records that its commit then covers
(`kafka.go:108`), its offsets are committed before the alerts are saved, and a fetch of nothing but bad
records is fetched again in every cycle (`kafka.go:155`); the roles `api-ucdp`, `api-acled` and
`api-gdelt` select types that no source has (`run.go:905`); among equally relevant duplicates the order of the answers decides
(`run.go:537`); a noise policy that cannot be read leaves the sweep without a gate (`run.go:123`);
`updateFlow` sets `last_seen` to the record's time also when that is earlier (`runtime.go:516`), so a flow may
be listed twice while it is paged; a registry that fails to load makes every candidate new
(`discover.go:98`), and a sync during a pass may leave two sources with one feed; `crossSourceDedup` never finds
anything, because the incidents have linked it before; digests may be asked for 90 days while rows are
kept 30 (`run.go:6162`); search cuts at its limit before it filters by status, lane and place
(`api.go:158`); run records and dead letters that cannot be written are dropped without a word
(`run.go:5702`, `318`, `400`, `518`), so an old hash with a good status may outlive the alerts it stands for; every role stages the
static INTERPOL entry and what the topics bring (`run.go:247`, `522`); ACLED without credentials and UCDP without a
token answer nothing and are healthy (`run.go:1906`, `2497`); a process without a token of the datasets empties
briefings and conflicts (`run.go:2577`).

## 5. Proofs

`AgentIngest_proofs` proves, for every finite set of records, every content
(`MetaOf`), every log, every set of caps and every bound on deaths and faults:

| Theorem | Property | Argument |
|---|---|---|
| `TypeCorrect` | `TypeOK` | inductive as it stands; one case per action, lemmas for what each store operation does to the types |
| `NothingSkipped` | `CommittedResolved` | inductive invariant `Inv` |
| `ImplementsConsumer` | `ConsumesAtLeastOnce` | `Inv`, with `resolved <- Resolved`: giving an outcome is `Resolve` or a stutter, committing is `Commit` |
| `MemoryIsDisk` | `DocumentOnDisk` | by `StoreStep`, which lists what a step may do to the store |
| `HistoryKept` | `EdgesAreHistory` | `StoreStep`, then `Update` and `AppendGraph` edge by edge |
| `NeverWritableAgain` | `UnwritableForever` | what `CloseOpenEdges` closes depends on link and end only, so both twins are closed or neither |
| `AcceptanceKept` | `AcceptedInGraph` | only `UpdateGraph` reports acceptance, after `AppendGraph`; edges stay |
| `GraphAgrees` | `GraphConsistent` | per edge: its evidence, `last_seen` and provenance survive each store step |
| `CountersBalance` | `RejectsBalance` | inductive invariant `RejectInv` |
| `RedeliveryCountsOnce` | `CountedOnce` | `Counted` of the document: a record is looked up among the messages before it is counted, and cardinalities grow by one with each record that is new |
| `NewestStay` | `WindowIsNewest` | inductive invariant `WindowInv` |

`CommittedResolved` is not inductive: a commit takes the offsets of the batch, so `Inv` adds that
everything below `next` is resolved but for the record in the handler (`BatchHandled`) and where that
record is (`RecordInFlight`). `RejectsBalance` is not either: `RejectInv` adds that a mirrored record
not yet counted leaves room in `produced`, and that what `Reject` counts is the document on disk.
`WindowInv` adds to `WindowIsNewest` that the window never holds more than the cap: only then does a record
that is evicted leave a full window behind, of which none is older.
TLC checked both strengthenings on the `ingest` instance before they were proved.

`AgentReplay_proofs` proves, for any number of requests, replays and groups besides:

| Theorem | Property | Argument |
|---|---|---|
| `LoopUndisturbed` | `ConsumesAtLeastOnce` | `KeptInv`, which is `Inv` with the places of the loop inside the queue; `Beside` lists what a step beside the loop leaves alone: its batch, its offsets, its outcomes |
| `GraphUndisturbed` | `GraphConsistent` | a replay writes the store by the operations of the loop, for which `GraphStep` of `AgentIngest_proofs` holds |
| `RequestsStartOnce` | `OneReplayPerRequest` | inductive invariant `QueueInv` |
| `CommitsWereHandled` | `GroupCommitsHandled` | inductive invariant `HandInv` |
| `EndsKept` | `EndIsFinal` | inductive invariant `SessionsInv` |

Two replays can carry one request only if a row is claimed twice, so `QueueInv` says where a claimed
row is: only the loop registers requested replays, one at a time (`StartInv`); the row in its hand has no
replay yet, and a row with a replay is never pending again (`OnceInv`). A group commits what a member
fetched, so `HandInv` adds that what lies below the position of a partition is handled by some member or
in the batch of the one who holds it (`FetchedInHand`); that in a batch what comes before the next record
is handled (`BatchBehind`); that who holds a partition is a member; and that a replay that was never
started is in no group. Partitions move between members, so a batch is of one member while `Handled` is
of the whole group. An end could be
overwritten by a late writer, so `SessionsInv` says that each session has one row, and that the goroutine of a row
with an end is gone.

`CollectorHistory_proofs` proves, for every registry, set of alerts, horizons, intervals and deployments:

| Theorem | Property | Argument |
|---|---|---|
| `CollectorTypes` | `CycleTypeOK` | inductive as it stands; a lemma per operator on the table and per kind of step |
| `WorkersStageOwn` | `StagedAreOwn` | inductive invariant `OwnInv`: feeds serve alerts of their own, a worker's batch is of its lane but for the static entry and the topics; `Reconcile` keeps what was fetched or what `Purged` leaves (`KeptWasKnown`) |
| `AlertsAgeBySighting` | `AgesByLastSighting` | inductive invariant `LoneInv`, part `Aged` |
| `HashesStandForStored` | `KnownContentIsStored` | `LoneInv`, parts `Hashes` and `Aged`; the hash of a lost record stands for alerts that were saved at some time, of any other for those of the last sweep |
| `DeadSourcesRest` | `DeadAreLeftAlone` | `LoneInv`, part `Letters`, then a case per step that takes a source off the list |

`StagedAreOwn` is not inductive: what is staged was in the batch or in the table before, so
`OwnInv` adds where the batch comes from; the table may hold anything. The other three speak of the time
between two sweeps and are broken and mended within each, so `SweepInv` (which `LoneInv` claims where one
process has all lanes) says what holds at every step of a sweep: the table the sweep has read follows the
sightings (`Aged`) while snapshots already hold other rows; each hash of a source that is done stands for alerts of the batch
(`Hashes`), which become the latest sightings when the sweep is saved, unless the record of that source was lost; what the
sweep has read of the dead letters is never older than the failures that the file told (`Letters`).

`SourceDiscovery_proofs` proves, for every set of candidates, sites and seeds, number of workers, and bound on
deaths and failures:

| Theorem | Property | Argument |
|---|---|---|
| `FeedsTakenOnce` | `FeedTakenOnce` | `TakenInv` adds that every feed in vetting, vetted or promoted is among the feeds known to the pass, where a worker has reserved it under the mutex |
| `RefusedStayOut` | `RefusedIsNotCollected` | `RegistryInv`: every refused source has a row that says `rejected`; a merge keeps that status unless the seed calls it `validated` (`AtWork`) |
| `RecordedAreMerged` | `SyncedIsMerged` | `RegistryInv`: an edition is merged before its hash is recorded, and no writer takes a row out of the table |
| `ApprovedAreKept` | `ApprovedIsKept` | `RegistryInv`: a pass that writes the queue has its approved sources in the table |

A seed is merged entry by entry, which the model writes as a recursive function. That an invariant of one
entry is one of the merge (`MergeInduction`) is induction over a length; it rests on `SetInduction`, which
follows from the least element of a set of naturals (`LeastOf`, from the library's `WFMin`).

`Sources_proofs` is about the ways alerts come in, for every log, cap, site, policy and document:

| Theorem | Property | Argument |
|---|---|---|
| `ConnectorSkipsNothing` | `NothingSkipped` | inductive invariant `CoverInv` |
| `CommitsAreStored` | `CommittedIsStored` | `HeldInv` adds that without a death what was taken is stored or in the batch |
| `UnmodifiedWasDelivered` | `NotModifiedIsKnown` | `EditionsInv` adds that neither mark is beyond what was delivered, and what a conditional request brought is not beyond the site |
| `NoiseIsInfo` | `NoiseStaysInfo` | `NoiseInv` adds that each alert collected already bears the severity its gate decision asks for (`Judged`); a decision is found under each title and link that was let in (`DecisionFound`), and `Lane` sends no `info` elsewhere |
| `EmptyWasEmpty` | `EmptyMeansEmpty` | inductive invariant `EmptyInv`; a lemma per kind of fetcher (`FeedSpent`, `PageSpent`, `PagesSpent`, ...) on what an answer without items says; `ACLED` and `UCDP` with their credentials only |
| `OrderIsIrrelevant` | `OrderDoesNotMatter` | `KeptInv` says that what was sorted is one result of `Deduplicate`; the rest is about the operators: without ties each round keeps the same alerts whatever the order (`VariantsPicked`) |

The connector's batch is filled partition by partition and cut by the cap, so `CoverInv` says how far each of
its positions is covered: the committed offset from where the group began, the client's position from the
committed offset, and, before the commit, every record of the batch from the position. `Chosen`, which passes over
the items of a document, is a recursive function, so that induction over the prefixes says what it returns:
items of the document and of the set (`ChosenIs`), each at a place of its own, in the order of the places (`ChosenPlaces`).
`EmptyMeansEmpty` needs more, since a fetcher sorts by date, filters and then cuts. An item that
is chosen by its rank has that rank among the others (`Ranks`, `NewestIs`); an item among
the newest of a list is among the newest of any part of it (`PartKeepsNewest`), so what a cut before a filter can leave out is left
out after it too; and a cut that leaves nothing was of nothing (`CutIs`).

`Briefings_proofs` is about datasets, briefings and terror assessments:

| Theorem | Property | Argument |
|---|---|---|
| `AnswersAreFresh` | `FreshHead` | `HeadInv` adds that the rows read, the rows kept and the rows of the lens are of the head noted beside them or of a later one, which holds of the lens because its events are written before its state |
| `LastGoodStays` | `LastGoodIsKept` | `IndexInv`: a run that would write no conflict over some has found none or has read some pages only, and one that empties the files has no token |
| `CutRunsRepeat` | `CutIsMadeGood` | `CutInv`: a run cut off its events asks for no narrative, and the rows it has written lack their texts |
| `NarrativesStay` | `NarrativeIsKept` | the types of `ZoneInv`, and that `told` is merged over what is stored |
| `ChecksAgree` | `DueMeansAsked` | `DueInv`: while nothing has changed since the check, `due` is what the refresh will find; a cache that is known has assessments |

`Alerts_proofs` is about what is made of the alerts in force:

| Theorem | Property | Argument |
|---|---|---|
| `ComponentsFound` | `ClustersAreComponents` | inductive invariant `ForestInv` of the union-find |
| `OverviewsHang` | `OverviewHangsTogether` | inductive invariant: an alert in force is in one edition, which is its row while `linked`; `PrimariesIn`: the primary alert of an incident is one of its members |
| `SearchesFindRows` | `SearchFindsTheRows` | `IndexInv`: the index has the words of every row, of its title and of its category, region and source, at each step of a sweep; a sort by rank loses and repeats nothing |
| `LimiterTypeCorrect` | `LimiterTypeOK` | inductive as it stands |
| `Budget` | `BudgetHolds` | `LimiterInv` adds `Room`: in every window what was served and what the bucket holds are together within the allowance, also for a bucket that was evicted and is full when it comes back |
| `Retry` | `RetryIsServed` | arithmetic of the refill: after `Retry-After` the bucket holds a whole token or has been evicted |

`ClustersAreComponents` speaks of the end of the unions only. While they go on, `ForestInv` says that the
parents form a forest in which every alert has a root (`Forests`: no parent has a greater index than its child, which both
compression and union keep),
that the alerts of each united pair have one root, and that no tree crosses a set that holds both or neither alert of each united pair.
The last part is what makes two alerts of one tree connected: the set of alerts that links reach from one of them is such a set. That
the set is reached after finitely many steps of the fixed point is an induction over the number of alerts, and that an
incident has a best alert to name it is one over a finite set (`FiniteInduction`).

`Analyst_proofs` is about what analysts and the desk read:

| Theorem | Property | Argument |
|---|---|---|
| `PagesAreComplete` | `StandingRowsAreGiven` | inductive invariant `PagerInv` |
| `PathsAreShortest` | `PathIsShortest` | inductive invariants `RowsInv`, `StageInv`, `NodesInv`, `EdgesInv` and `SearchInv` of the statements of a query |
| `DigestsCount` | `DigestCountsSightings` | inductive invariants `TrendsTypeInv` and `TalliesInv`, with lemmas on sums |

`PagerInv` says of each row that has stood unchanged since the first page: above the cursor, it has been given
once; below it, never. A page is the greatest keys below the cursor, in order, so its last key divides what is
given from what is left, whatever else came, moved or went. `SearchInv` is the argument of a breadth-first search, on
edges read earlier than they are used: parents and depths form a tree of known edges, the queue is in order of depth
and spans one level at most, and a node that has left the queue has all its neighbours marked no deeper than
one level below. With `NodesInv` and `EdgesInv`, by which the two statements before have read whatever
was there when the query came (edges only grow), a node within the depth cannot be missed, and none is marked too deep.
The order of the adjacent edges is any of those that `NewestFirst` admits. `TalliesInv` says of every day that retention still covers,
term, category and country: count and weight of the row are the sums over the alerts seen that day. Recording adds the
mentions of a sweep to both sides (`TotalAdds`); a digest sums over days what each of them sums over alerts, and
`TotalTwice` exchanges the two sums.

The dataset is for any number of chunks above one, editions, releases and mishaps; the briefings for every
set of countries and bound on mishaps and requests; the assessments for every set of alerts, weights and
limits; the limiter for every set of clients and every cost, burst and eviction age that `LimiterTyped` admits.
TLC checked every strengthening on the instance of its run before it was proved. `ForestInv`, which ranges over the
sets of alerts, was checked for one sweep of five alerts.

Assumptions are the named `ASSUME`s of the modules. They type the constants; what they say beyond that
is: caps are positive (`LimitsTyped`: `ValidatePolicy` refuses others), `Null` is no record
(`NullIsNoRecord`), records are identified by topic, partition and offset (`RecordIdsUnique`), there is a
partition (`SomePartition`), partitions are finitely many (`ConnectorTyped`), the owners of rows that
sources removed since have left behind are not in the registry (`CollectorTyped`, by the meaning of orphan), a dataset has at least a head and one more chunk and one release
(`CacheTyped`), trend hints have no address and no seed calls a source `candidate` (`DiscoveryTyped`: `HintsToCandidates`
makes the ones, no writer of seeds the other), no country has the name of a stage of a run (`BriefingsTyped`) and no item the
number 0 (`FilterTyped`), which the models use otherwise, and a bucket holds a
token, is full before it is old enough to be evicted, and gets one token at least in `RetryAfter`
(`LimiterTyped`, as the arguments of `newRateLimiter` and the header do). Alerts, items and terms are
finitely many (`IncidentsTyped`, `SearchTyped`, `TrendsTyped`), and alerts, items and records have numbers for names, since the code
compares names to break a tie (`IncidentsTyped`, `SearchTyped`, `PagesTyped`); an edge has two ends and a type (`QueriesTyped`). The horizons of the
collector need not grow. TLC evaluates each
assumption in the runs of the modules that extend its module.

Every invariant and every action property of a passing run is stated by one of these theorems. Only model-checked is liveness:
`ForwardProgress`, `ReplaysEnd`, `PublishedIsStored`, `QueuedIsCrawled`, `KafkaDrains` and `NoticesDrain`, which need
fairness and `ENABLED`. So is what the properties of section 4 that fail show, by their counterexamples. The library's folds over sets
(`MapThenSumSet`, `SelectSeq`), whose definitions the provers cannot use, appear in models proved about only
where a lemma can do without: sums are unfolded once, by the library's own recursion over finite sets, and filters of lists are `Chosen`.

## 6. Not modelled, and why

* *Ontology packs, desk, build tooling, generated clients*: packs are read once at start and never change;
  the desk keeps nothing the services depend on; the rest is no part of the running system.
* *What a text means*: parsing of feeds and pages, translation, geocoding, relevance scores, keyword
  tables, tokens of clustering, wording of prompts. Where a property depends on the result, the result
  is chosen freely or given per alert.
* *HTTP, TLS, browser, retries inside a client*: a call answers or fails.
* *Observer*: the search boxes of the analyst API (`LIKE` over summaries with a limit of 20 rows), previews, topic statistics, operator inventory, geometries with `Nearby`, `Intersects` and
  `WithinBBox` (nothing in the observer writes geometries).
* *Collector*: operators, phrases and several words in a search of the alerts; a context cancelled in the middle of a sweep (the process ends soon after, but lanes stop
  between sources and the sweep is saved); the roles `api-*`; the statuses `updated` and `removed`; noise
  feedback, rows of a table that only statistics read; output files that are written anew in each sweep.

Hazards without a property in a run, in `PROJECT.json` with the reason: the write after the count in
`finishReplay`, unchanged sources in `Reconcile`, `last_success_at`, what a death after a snapshot costs,
staged rows that count as seen now, and the file of current conflicts. The first three are shown by properties of
section 4 that fail, the last is proved (`LastGoodStays`).

## 7. What is left

1. Proofs of the properties that are stated and not in a run (`NewestIsDelivered`, `BlendedOnce`,
   `SpikesStandForTheDay`, `BetterTakesPlace`, `NeighborhoodHangsTogether`, `ProfileCoversCounts`).
2. An instance of the merge with two workers, and a property that says what a death after a snapshot may
   cost at most.
3. Noise feedback, the detectors and map layers of the packs, and the inventory of the operator API.
4. A cancelled context inside a lane.
