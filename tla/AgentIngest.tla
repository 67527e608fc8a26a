------------------------------ MODULE AgentIngest ------------------------------
(***************************************************************************)
(* The live loop of kafka.Service.run: poll the tracking group, take each   *)
(* record through handleRecord, mirror and count what is turned away, and   *)
(* commit the batch.  The process may die between any two steps; the broker *)
(* then delivers everything above the committed offset again.               *)
(***************************************************************************)
EXTENDS AgentStore, Sequences

CONSTANTS Partitions,
          Log,          \* [Partitions -> sequence of records, by offset]
          MirrorTopic,  \* TRUE when AGENTOPS_REJECT_TOPIC is set
          MaxCrashes,   \* bound on the deaths of the process
          MaxFaults     \* bound on fatal poll errors and failed commits

ASSUME PartitionsFinite == IsFiniteSet(Partitions)
ASSUME LogTyped == Log \in [Partitions -> Seq(Records)]
ASSUME BoundsTyped == MaxCrashes \in Nat /\ MaxFaults \in Nat /\ MirrorTopic \in BOOLEAN

\* A record is identified by its topic, partition and offset.
ASSUME RecordIdsUnique ==
    \A p, q \in Partitions : \A i \in DOMAIN Log[p], j \in DOMAIN Log[q] :
        Log[p][i] = Log[q][j] => p = q /\ i = j

VARIABLES pc,         \* where the goroutine of Service.run is
          committed,  \* committed offset of the tracking group, per partition
          next,       \* offset of the next record of the batch to handle
          fetched,    \* end of the fetched batch, per partition
          at,         \* partition EachRecord is going through
          rec,        \* the record in handleRecord
          reason,     \* reject reason of rec
          mirrored,   \* mirrorReject succeeded
          produced,   \* number of records in the reject topic
          crashes, faults,
          outcome     \* history: the outcomes each record has had

loopVars == <<pc, next, fetched, at, rec, reason, mirrored>>
vars == <<storeVars, loopVars, committed, produced, crashes, faults, outcome>>

PC == {"down", "configure", "requests", "poll", "pick", "update", "graph",
       "mirror", "reject", "failed"}

Outcomes == Reasons \cup {"accepted"}

Resolved == {r \in Records : outcome[r] # {}}

Zero == [p \in Partitions |-> 0]

\* Mutant of Idle: back to the start of the log.
IdleAtStart == next' = Zero /\ fetched' = committed /\ at' = CHOOSE p \in Partitions : TRUE

\* The goroutine is gone, or has no batch.
Idle == next' = committed /\ fetched' = committed /\ at' = CHOOSE p \in Partitions : TRUE
Offset(p) == next[p] < fetched[p]

ASSUME SomePartition == Partitions # {}

Init ==
    /\ StoreInit
    /\ pc = "down"
    /\ committed = Zero /\ next = Zero /\ fetched = Zero
    /\ at = CHOOSE p \in Partitions : TRUE
    /\ rec = Null /\ reason = "" /\ mirrored = FALSE
    /\ produced = 0 /\ crashes = 0 /\ faults = 0
    /\ outcome = [r \in Records |-> {}]

-----------------------------------------------------------------------------
\* Start: open the store, join the group at its committed offsets.
Start ==
    /\ pc = "down"
    /\ StoreOpened
    /\ pc' = "configure"
    /\ Idle
    /\ UNCHANGED <<rec, reason, mirrored, committed, produced, crashes, faults, outcome>>

\* The first Update of run, which writes the effective configuration; its error ends run.
Configure ==
    /\ pc = "configure"
    /\ \/ Update(doc) /\ pc' = "requests"
       \/ UpdateFails /\ pc' = "failed"
    /\ UNCHANGED <<next, fetched, at, rec, reason, mirrored,
                   committed, produced, crashes, faults, outcome>>

\* processReplayRequests with no pending request: an empty transaction and a reload.
CheckRequests ==
    /\ pc = "requests"
    /\ StoreOpened
    /\ pc' = "poll"
    /\ UNCHANGED <<next, fetched, at, rec, reason, mirrored,
                   committed, produced, crashes, faults, outcome>>

\* The poll timed out without records.
PollEmpty ==
    /\ pc = "poll"
    /\ TryUpdate(doc)
    /\ pc' = "requests"
    /\ UNCHANGED <<next, fetched, at, rec, reason, mirrored,
                   committed, produced, crashes, faults, outcome>>

\* The poll returned a non-empty batch: a stretch of each partition.
PollRecords ==
    /\ pc = "poll"
    /\ \E ends \in [Partitions -> UNION {0 .. Len(Log[p]) : p \in Partitions}] :
          /\ \A p \in Partitions : next[p] <= ends[p] /\ ends[p] <= Len(Log[p])
          /\ \E p \in Partitions : next[p] < ends[p]
          /\ fetched' = ends
    /\ pc' = "pick"
    /\ UNCHANGED <<storeVars, next, at, rec, reason, mirrored,
                   committed, produced, crashes, faults, outcome>>

\* firstFatalError: note it in Health, and end run.
PollFatal ==
    /\ pc = "poll"
    /\ faults < MaxFaults
    /\ faults' = faults + 1
    /\ TryUpdate(doc)
    /\ pc' = "failed"
    /\ UNCHANGED <<next, fetched, at, rec, reason, mirrored,
                   committed, produced, crashes, outcome>>

\* The next record in EachRecord's order, one partition after the other.
Pick(p) ==
    /\ pc = "pick"
    /\ Offset(p)
    /\ p = at \/ ~Offset(at)
    /\ at' = p
    /\ rec' = Log[p][next[p] + 1]
    /\ next' = [next EXCEPT ![p] = @ + 1]
    /\ reason' = Meta[Log[p][next[p] + 1]].refusal
    /\ pc' = IF Meta[Log[p][next[p] + 1]].refusal = "" THEN "update" ELSE "mirror"
    /\ UNCHANGED <<storeVars, fetched, mirrored, committed, produced, crashes, faults, outcome>>

\* Mutant of UpdateDocument: a duplicate is accepted without looking at the graph.
DuplicateReturns ==
    /\ pc = "update"
    /\ \E d \in AcceptMessage(doc, rec) : Update(d)
    /\ IF MessageExists(doc, rec)
         THEN pc' = "pick" /\ outcome' = [outcome EXCEPT ![rec] = @ \cup {"accepted"}]
         ELSE pc' = "graph" /\ UNCHANGED outcome
    /\ UNCHANGED <<next, fetched, at, rec, reason, mirrored, committed, produced, crashes, faults>>

\* acceptMessage, first transaction.
UpdateDocument ==
    /\ pc = "update"
    /\ \/ /\ \E d \in AcceptMessage(doc, rec) : Update(d)
          /\ pc' = "graph"
          /\ UNCHANGED reason
       \/ /\ UpdateFails
          /\ reason' = "store_update_failed"
          /\ pc' = "mirror"
    /\ UNCHANGED <<next, fetched, at, rec, mirrored,
                   committed, produced, crashes, faults, outcome>>

\* acceptMessage, second transaction.
UpdateGraph ==
    /\ pc = "graph"
    /\ \/ /\ AppendGraph(rec)
          /\ outcome' = [outcome EXCEPT ![rec] = @ \cup {"accepted"}]
          /\ pc' = "pick"
          /\ UNCHANGED reason
       \/ /\ GraphFails(rec)
          /\ reason' = "graph_write_failed"
          /\ pc' = "mirror"
          /\ UNCHANGED outcome
    /\ UNCHANGED <<next, fetched, at, rec, mirrored, committed, produced, crashes, faults>>

\* mirrorReject: without a reject topic, or when the broker refuses, an error.
Mirror ==
    /\ pc = "mirror"
    /\ \/ MirrorTopic /\ mirrored' = TRUE /\ produced' = produced + 1
       \/ mirrored' = FALSE /\ UNCHANGED produced
    /\ pc' = "reject"
    /\ UNCHANGED <<storeVars, next, fetched, at, rec, reason, committed, crashes, faults, outcome>>

\* Mutant of Reject: the handler insists on the write.
RejectInsists ==
    /\ pc = "reject"
    /\ Update(CountReject(doc, reason, mirrored))
    /\ outcome' = [outcome EXCEPT ![rec] = @ \cup {reason}]
    /\ pc' = "pick"
    /\ UNCHANGED <<next, fetched, at, rec, reason, mirrored, committed, produced, crashes, faults>>

\* The Update after a reject; its error is dropped.
Reject ==
    /\ pc = "reject"
    /\ TryUpdate(CountReject(doc, reason, mirrored))
    /\ outcome' = [outcome EXCEPT ![rec] = @ \cup {reason}]
    /\ pc' = "pick"
    /\ UNCHANGED <<next, fetched, at, rec, reason, mirrored, committed, produced, crashes, faults>>

\* Mutant of BatchDone: commit as soon as there is a batch.
BatchBegun == pc = "pick"

BatchDone == pc = "pick" /\ \A p \in Partitions : ~Offset(p)

\* CommitRecords commits, per partition, the offset after the last record.
Commit ==
    /\ BatchDone
    /\ committed' = fetched
    /\ pc' = "requests"
    /\ UNCHANGED <<storeVars, next, fetched, at, rec, reason, mirrored,
                   produced, crashes, faults, outcome>>

\* CommitRecords returns an error, which ends run; the broker may have the offsets.
CommitFails ==
    /\ BatchDone
    /\ faults < MaxFaults
    /\ faults' = faults + 1
    /\ committed' \in {committed, fetched}
    /\ pc' = "failed"
    /\ UNCHANGED <<storeVars, next, fetched, at, rec, reason, mirrored,
                   produced, crashes, outcome>>

\* The process dies or is restarted; app.Run has no other way to start the runtime again.
Crash ==
    /\ pc # "down"
    /\ crashes < MaxCrashes
    /\ crashes' = crashes + 1
    /\ StoreLost
    /\ pc' = "down"
    /\ Idle
    /\ rec' = Null /\ reason' = "" /\ mirrored' = FALSE
    /\ UNCHANGED <<committed, produced, faults, outcome>>

Loop == \/ Start \/ Configure \/ CheckRequests \/ PollEmpty \/ PollRecords \/ PollFatal
        \/ \E p \in Partitions : Pick(p)
        \/ UpdateDocument \/ UpdateGraph \/ Mirror \/ Reject \/ Commit \/ CommitFails

\* run has returned an error; without a restart nothing more happens.
Stopped == pc = "failed" /\ crashes = MaxCrashes /\ UNCHANGED vars

Next == Loop \/ Crash \/ Stopped

Spec == Init /\ [][Next]_vars

\* The goroutine is never left unscheduled, and the broker does not answer every
\* poll with nothing while it has records.
Fairness == WF_vars(Loop) /\ SF_vars(PollRecords)

FairSpec == Spec /\ Fairness

-----------------------------------------------------------------------------
(* Properties                                                               *)

\* Every variable of the store and the loop ranges over what the code can hold.
TypeOK ==
    /\ StoreTypeOK
    /\ pc \in PC
    /\ committed \in [Partitions -> Nat]
    /\ next \in [Partitions -> Nat]
    /\ fetched \in [Partitions -> Nat]
    /\ \A p \in Partitions : committed[p] <= next[p] /\ next[p] <= fetched[p] /\ fetched[p] <= Len(Log[p])
    /\ at \in Partitions
    /\ rec \in Records \cup {Null}
    /\ pc \in {"update", "graph", "mirror", "reject"} => rec \in Records
    /\ reason \in Reasons \cup {""}
    /\ pc \in {"mirror", "reject"} => reason \in Reasons
    /\ mirrored \in BOOLEAN
    /\ produced \in Nat /\ crashes \in Nat /\ faults \in Nat
    /\ outcome \in [Records -> SUBSET Outcomes]

\* While the runtime is up its in-memory document, which Snapshot and every
\* handler read, is the one on disk: Update publishes s.doc only after the
\* transaction, and Apply reloads.
DocumentOnDisk == pc # "down" => doc = db

\* "rejected records are committed after outcome resolution": nothing below a
\* committed offset was skipped, whatever died or failed in between.
CommittedResolved ==
    \A p \in Partitions : \A i \in 1 .. committed[p] : Log[p][i] \in Resolved

\* A record reported accepted is in the graph: all its links are there with its
\* date, although the message and the graph are written by two transactions and
\* a death between them leaves the message stored without its edges.
AcceptedInGraph ==
    \A r \in Records : "accepted" \in outcome[r] =>
        \A l \in Links(r) : \E e \in edges : e.link = l /\ e.from = Time(r)

\* The graph tables agree with each other and with `messages`: evidence names a
\* stored message, no end of an edge was last seen before the edge began, and
\* the provenance holds the insertion of every edge with the record that caused
\* it, which is all that is left of the evidence after the next Update.
GraphConsistent ==
    \A e \in edges :
        /\ e.ev \in db.messages \cup {Null}
        /\ entities[e.link.src] >= e.from /\ entities[e.link.dst] >= e.from
        /\ \E v \in prov : /\ v.link = e.link /\ v.from = e.from
                            /\ v.decision = "inserted"
                            /\ e.ev \in {v.ev, Null}

\* Redelivery after a death does not count a record twice: when the cap evicts
\* nothing, AcceptedCount is the number of stored messages and the count
\* of a flow or trace the number of its messages.
CountedOnce ==
    Cardinality(Records) <= limit =>
        /\ db.accepted = Cardinality(db.messages)
        /\ \A k \in RollupIds : db.rollup[k] = Cardinality({r \in db.messages : k \in Rollups(r)})

\* The cap keeps the newest messages: whatever was accepted and is gone is not
\* newer than anything kept, and nothing goes before the cap is reached.
WindowIsNewest ==
    \A r \in Records : "accepted" \in outcome[r] /\ r \notin db.messages =>
        /\ Cardinality(db.messages) = limit
        /\ \A m \in db.messages : Time(m) >= Time(r)

\* The reject counters balance and never claim a mirrored record that the reject
\* topic does not hold.
RejectsBalance ==
    /\ db.rejected = db.mirrored + db.mirrorFailed
    /\ db.rejected = db.byReason["unknown_topic"] + db.byReason["invalid_envelope"]
                     + db.byReason["store_update_failed"] + db.byReason["graph_write_failed"]
    /\ db.mirrored <= produced

\* Edges are history: none is deleted, none changes its ends or its start, and a
\* closed one keeps the end it was given.
EdgesAreHistory ==
    [][\A e \in edges : \E f \in edges' :
          f.link = e.link /\ f.from = e.from /\ (e.to # Open => f.to = e.to)]_vars

\* Once two edges differ only in their evidence, no step of the runtime, restart
\* included, ever makes the document tables writable again.
UnwritableForever == [][~RewriteFits => ~RewriteFits']_vars

\* "Bad records do not poison-loop the live tracker" and "mirror failure does not
\* block forward progress": while the loop runs, every record is committed in the
\* end, also when the store refuses every write.
Committed(r) == \E p \in Partitions : \E i \in 1 .. committed[p] : Log[p][i] = r
Logged == {r \in Records : \E p \in Partitions : \E i \in DOMAIN Log[p] : Log[p][i] = r}
ForwardProgress ==
    <>[](pc \notin {"down", "failed"}) => \A r \in Logged : <>Committed(r)

\* The loop implements the abstract consumer: outcome first, commit after it.
Consumer == INSTANCE AtLeastOnce WITH resolved <- Resolved
ConsumesAtLeastOnce == Consumer!Spec

\* docs/architecture.md: "Every accepted Kafka record can produce graph edges that
\* reference messages(record_id) for audit trail".  Stated of a step: an edge that
\* cites a message goes on citing it as long as the message is stored.
EvidenceKept ==
    [][\A e \in edges : e.ev \in db'.messages =>
          \E f \in edges' : f.link = e.link /\ f.from = e.from /\ f.ev = e.ev]_vars

\* runtime_test.go: "expected duplicate record to be treated as accepted noop".
\* Handling a record that is stored and in the graph leaves the store as writable
\* as it was.
DuplicateIsNoop ==
    [][pc = "graph" /\ "accepted" \in outcome[rec] /\ RewriteFits => RewriteFits']_vars
=============================================================================
