---------------------------- MODULE KafkaConnector ----------------------------
(***************************************************************************)
(* The sweep's Kafka connector (collectKafkaAlerts).  Every sweep makes a    *)
(* new client of one consumer group, tests it with a poll whose records are  *)
(* thrown away, polls once, maps what it got to alerts up to a cap, commits  *)
(* the records it mapped, and hands the alerts to the rest of the sweep,     *)
(* which saves them at its end.                                              *)
(*                                                                          *)
(* External: the broker keeps the log and the group's offsets, a client      *)
(* without a committed offset starts at the end, a poll returns any run of   *)
(* records from its position up to FetchSize per partition, or none; a       *)
(* commit that is reported as failed may have happened.                      *)
(***************************************************************************)
EXTENDS Integers, Sequences, FiniteSets, SequencesExt, FiniteSetsExt

CONSTANTS Partitions,
          Script,      \* what will be produced: per partition a sequence of records
          Registry,    \* source ids of the registry
          MaxPerCycle, \* KAFKA_MAX_PER_CYCLE, 500 by default
          FetchSize,   \* records of a partition in one poll
          Connectors   \* how the connector may be set up, with the bounds on the faults

\* A record by the source its topic's mapper names; Dropped stands for one
\* that is too large, has no mapper, or is no JSON object.
Dropped == "dropped"
ASSUME ConnectorTyped ==
    /\ Script \in [Partitions -> Seq(STRING)]
    /\ IsFiniteSet(Partitions) /\ MaxPerCycle \in Nat \ {0} /\ FetchSize \in Nat \ {0}
    /\ Connectors \subseteq [test : BOOLEAN,  \* KAFKA_TEST_ON_START
                              flaws : Nat,     \* bound on failed polls and commits
                              deaths : Nat]    \* bound on sweeps that end before their save

VARIABLES connector,
          produced,  \* records of each partition in the log
          committed, \* the group's offset: records behind it, or NoOffset
          stage, position, batch, previous, \* the sweep: its client, its alerts, the table it read
          table,     \* table alerts, as far as they come from records
          flaws, deaths,
          taken, tested, stored, \* history: records of batches and of test polls, saved alerts
          origin     \* history: where the client stood that committed first

NoOffset == -1
sweepVars == <<stage, position, batch, previous>>
bounds    == <<flaws, deaths>>
kafkaSeen == <<taken, tested, stored, origin>>
kafkaVars == <<connector, produced, committed, sweepVars, table, bounds, kafkaSeen>>

SourceOf(r) == Script[r[1]][r[2]]

KafkaInit ==
    /\ connector \in Connectors
    /\ produced = [p \in Partitions |-> 0]
    /\ committed = [p \in Partitions |-> NoOffset]
    /\ stage = "idle" /\ position = [p \in Partitions |-> 0] /\ batch = {} /\ previous = {}
    /\ table = {} /\ flaws = 0 /\ deaths = 0
    /\ taken = {} /\ tested = {} /\ stored = {} /\ origin = [p \in Partitions |-> NoOffset]

\* A call to the broker that may fail, within the bound.
Tries        == IF flaws < connector.flaws THEN BOOLEAN ELSE {TRUE}
Spends(done) == flaws' = IF done THEN flaws ELSE flaws + 1

Produce(p) ==
    /\ produced[p] < Len(Script[p])
    /\ produced' = [produced EXCEPT ![p] = @ + 1]
    /\ UNCHANGED <<connector, committed, sweepVars, table, bounds, kafkaSeen>>

-----------------------------------------------------------------------------
\* Mutant of Position: every client starts at the end.
PositionAtEnd(p) == produced[p]

\* Where the group's new client starts: ConsumeResetOffset is AtEnd.
Position(p) == IF committed[p] = NoOffset THEN produced[p] ELSE committed[p]

\* A mapper that cannot be loaded and a client that cannot be made end the
\* connector's part of the sweep like a failed poll.
Connect ==
    /\ stage = "idle" /\ previous' = table
    /\ position' = [p \in Partitions |-> Position(p)]
    /\ stage' = IF connector.test THEN "test" ELSE "poll"
    /\ UNCHANGED <<connector, produced, committed, batch, table, bounds, kafkaSeen>>

\* What a poll may return: how many records of each partition.
Batches == {n \in [Partitions -> 0 .. FetchSize] :
               \A p \in Partitions : position[p] + n[p] <= produced[p]}
Fetched(n) == UNION {{<<p, position[p] + j>> : j \in 1 .. n[p]} : p \in Partitions}

\* The next poll goes on behind the one whose records were thrown away.
TestPoll ==
    /\ stage = "test"
    /\ \E n \in Batches, done \in Tries :
          /\ Spends(done)
          /\ position' = [p \in Partitions |-> position[p] + n[p]]
          /\ tested' = tested \cup Fetched(n)
          /\ stage' = IF done THEN "poll" ELSE "save"
    /\ UNCHANGED <<connector, produced, committed, batch, previous, table, deaths, taken, stored, origin>>

\* A fetch goes through its partitions in some order.
Before(order, q, r) == \/ q[1] = r[1] /\ q[2] < r[2]
                       \/ \E k, l \in DOMAIN order : k < l /\ order[k] = q[1] /\ order[l] = r[1]

\* Mutant of Mapped: as many records, but not the first.
MappedAnyhow(fetch, order) ==
    LET good == {r \in fetch : SourceOf(r) # Dropped}
    IN  kSubset(Min({MaxPerCycle, Cardinality(good)}), good)

\* The records that map, the first of the fetch up to the cap; there is one such set.
Mapped(fetch, order) ==
    LET good == {r \in fetch : SourceOf(r) # Dropped}
    IN  {first \in kSubset(Min({MaxPerCycle, Cardinality(good)}), good) :
            \A r \in first, q \in good : Before(order, q, r) => q \in first}

\* Records that are dropped are not committed by themselves.
PollOf(n, order, done) ==
    /\ stage = "poll" /\ Spends(done)
    /\ batch' \in IF done THEN Mapped(Fetched(n), order) ELSE {{}}
    /\ stage' = IF batch' = {} THEN "save" ELSE "commit"
    /\ taken' = taken \cup batch'
    /\ UNCHANGED <<connector, produced, committed, position, previous, table, deaths, tested, stored, origin>>

Poll == \E n \in Batches, order \in SetToSeqs(Partitions), done \in Tries : PollOf(n, order, done)

\* CommitRecords: behind the last record of each partition.
Offsets == [p \in Partitions |->
              LET mine == {r[2] : r \in {b \in batch : b[1] = p}}
              IN  IF mine = {} THEN committed[p] ELSE Max(mine)]

\* The commit happens or not, and is reported as done or failed.
CommitOf(done) ==
    /\ stage = "commit" /\ stage' = "save"
    /\ Spends(done)
    /\ \E happens \in {done, TRUE} : committed' = IF happens THEN Offsets ELSE committed
    /\ origin' = [p \in Partitions |-> IF origin[p] # NoOffset \/ committed'[p] = NoOffset
                                       THEN origin[p] ELSE position[p]]
    /\ UNCHANGED <<connector, produced, position, previous, table, deaths, taken, tested, stored>>

\* The alerts go on either way.
Commit == (\E done \in Tries : CommitOf(done)) /\ UNCHANGED batch

-----------------------------------------------------------------------------
Ended == stage' = "idle" /\ batch' = {} /\ previous' = {} /\ position' = [p \in Partitions |-> 0]

\* What the sweep makes of the table it has read: alerts of a source that is
\* neither in the registry nor in this batch are purged as orphans.  Ageing
\* takes longer than any behaviour here.
Stays(r) == SourceOf(r) \in Registry \cup {SourceOf(b) : b \in batch}

Save ==
    /\ stage = "save" /\ Ended
    /\ table' = {r \in previous : Stays(r)} \cup batch
    /\ stored' = stored \cup batch
    /\ UNCHANGED <<connector, produced, committed, bounds, taken, tested, origin>>

\* The process dies, a critical source is missing, or the database refuses.
CutShort ==
    /\ stage # "idle" /\ deaths < connector.deaths /\ deaths' = deaths + 1
    /\ Ended
    /\ UNCHANGED <<connector, produced, committed, table, flaws, kafkaSeen>>

Sweep == Connect \/ TestPoll \/ Poll \/ Commit \/ Save
KafkaNext == Sweep \/ CutShort \/ \E p \in Partitions : Produce(p)

\* The watch loop goes on, and a poll that is tried again and again brings all
\* there is, each partition first in its turn.
Reach(p) == LET all == [q \in Partitions |-> Min({FetchSize, produced[q] - position[q]})]
            IN  \E order \in SetToSeqs(Partitions) : order[1] = p /\ PollOf(all, order, TRUE)
KafkaSpec == /\ KafkaInit /\ [][KafkaNext]_kafkaVars
             /\ WF_kafkaVars(Sweep)
             /\ \A p \in Partitions : SF_kafkaVars(Reach(p))

-----------------------------------------------------------------------------
\* The type invariant: the steps of runOnce (run.go:130-331) around the connector,
\* at most a cycle of records held, and nothing in the table that was not stored.
KafkaTypeOK ==
    /\ produced \in [Partitions -> Nat] /\ committed \in [Partitions -> Nat \cup {NoOffset}]
    /\ stage \in {"idle", "test", "poll", "commit", "save"}
    /\ Cardinality(batch) <= MaxPerCycle
    /\ table \cup previous \subseteq stored /\ stored \subseteq taken

\* A record that maps to an alert and lies behind the committed offset, after
\* the point where the group began, has been in a batch or in a test poll:
\* neither the cap, the order of partitions, dropped records nor a failed
\* commit lets the group pass it (collectKafkaAlerts, EachRecord and
\* CommitRecords).
NothingSkipped ==
    \A p \in Partitions : committed[p] # NoOffset =>
        \A i \in origin[p] + 1 .. committed[p] :
            SourceOf(<<p, i>>) # Dropped => <<p, i>> \in taken \cup tested

\* As long as every sweep reaches its save, what the group has committed and a
\* batch has taken is in the table by the end of the sweep, whatever the
\* broker reported about the commit.
CommittedIsStored ==
    deaths = 0 /\ stage = "idle" =>
        \A r \in taken : committed[r[1]] # NoOffset /\ r[2] <= committed[r[1]] => r \in stored

\* A record that maps is taken in the end once its group has an offset, unless
\* as many dropped records lie before it as a fetch holds.
GoodIsTaken ==
    \A p \in Partitions : \A i \in DOMAIN Script[p] :
        /\ SourceOf(<<p, i>>) # Dropped
        /\ \A k \in 1 .. i : k + FetchSize <= i =>
              \E j \in k .. k + FetchSize - 1 : SourceOf(<<p, j>>) # Dropped
        => (committed[p] # NoOffset /\ origin[p] < i /\ i <= produced[p])
              ~> (<<p, i>> \in taken \cup tested)

\* docs/operations.md:320, "Alerts are no longer dropped on first miss": a
\* sweep that brings no record of a source leaves its alerts in the table.
NotDroppedOnFirstMiss == [][table \subseteq table']_kafkaVars
=============================================================================
