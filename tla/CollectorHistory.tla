--------------------------- MODULE CollectorHistory ---------------------------
(***************************************************************************)
(* CollectorCycle with a record of what has happened, and what the collector *)
(* promises about it.  The record takes part in no step.                     *)
(***************************************************************************)
EXTENDS CollectorCycle

VARIABLE past

Past == [seen : [Alerts -> Nat],     \* start of the last saved sweep that fetched it
         saved : Nat,                \* start of the last saved sweep
         latest : SUBSET Alerts,                  \* what that sweep fetched
         intact : BOOLEAN,                        \* no sweep was lost, aborted or blind
         scraped : [Sources -> Nat], \* last full answer
         failed : [Sources -> Nat],  \* start of the sweep that found it dead
         known : [Sources -> Nat],   \* the same, as far as the file told
         lost : SUBSET Sources]      \* whose last run record was not written

Nothing == [a \in Alerts |-> Never]

HistoryInit ==
    /\ CycleInit
    /\ past = [seen |-> Nothing, saved |-> Never, latest |-> {}, intact |-> TRUE, scraped |-> NoLetters,
               failed |-> NoLetters, known |-> NoLetters, lost |-> {}]

Broken(h) == [h EXCEPT !.intact = FALSE, !.seen = Nothing, !.saved = Never, !.latest = {}]

\* What a sweep adds to the history when it is saved.
Kept(p) ==
    [past EXCEPT !.saved = proc[p].start,
                 !.latest = {a \in Alerts : proc[p].batch[a] # Gone},
                 !.seen = [a \in Alerts |-> IF proc[p].batch[a] # Gone THEN proc[p].start
                                            ELSE past.seen[a]]]

\* What the file tells after a step that may have written it.
Told(p) == IF dead' = proc[p].dlq THEN past.failed
           ELSE IF dead' = dead THEN past.known ELSE NoLetters

\* The sources without a run record after a step that should have written some.
Unrecorded(written) ==
    (past.lost \ written) \cup {s \in written : mark'[s] = mark[s] /\ failures' # failures}
Here(s) == IF InPlace(s) THEN {s} ELSE {}

\* A sweep that could not read the table is blind; one that could not read the
\* letters knows of none.
Opened(p) ==
    LET h == IF proc'[p].prev = table THEN past ELSE Broken(past)
    IN IF proc'[p].dlq = dead THEN h ELSE [h EXCEPT !.failed = NoLetters, !.known = NoLetters]

HistoryOfSweep(p) ==
    \/ Begin(p) /\ past' = Opened(p)
    \/ Save(p) /\ past' = IF failures' = failures /\ past.intact THEN Kept(p) ELSE Broken(past)
    \/ Finish(p)
       /\ past' = [(IF proc'[p].pc = "idle" THEN Broken(past) ELSE past)
                      EXCEPT !.known = Told(p), !.failed = Told(p)]
    \/ Flush(p) /\ past' = [past EXCEPT !.known = Told(p)]
    \/ Crash(p)
       /\ past' = [Broken(past) EXCEPT !.failed = IF dead' = dead THEN past.known ELSE NoLetters,
                                       !.known = IF dead' = dead THEN past.known ELSE NoLetters]
    \/ Defer(p) /\ past' = [past EXCEPT !.lost = Unrecorded(Current(p))]
    \/ (LaneEnd(p) \/ Stage(p)) /\ UNCHANGED past

HistoryOfSource(p, s) ==
    \/ Record(p, s) /\ past' = [past EXCEPT !.lost = Unrecorded({s})]
    \/ (Skip(p, s) \/ Pace(p, s)) /\ past' = [past EXCEPT !.lost = Unrecorded(Here(s))]
    \/ FetchFull(p, s) /\ past' = [past EXCEPT !.scraped[s] = clock, !.failed[s] = Never,
                                               !.lost = Unrecorded(Here(s))]
    \/ FetchUnchanged(p, s) /\ past' = [past EXCEPT !.failed[s] = Never,
                                                    !.lost = Unrecorded(Here(s))]
    \/ FetchFails(p, s)
       /\ past' = [past EXCEPT !.failed[s] =
                       IF proc'[p].dlq[s] = Never THEN Never ELSE proc[p].start,
                               !.lost = Unrecorded(Here(s))]

HistoryNext ==
    \/ World /\ UNCHANGED past
    \/ \E p \in deployment.roles :
          HistoryOfSweep(p) \/ \E s \in Sources : HistoryOfSource(p, s)
    \/ "merge" \in deployment.roles /\ Merges /\ UNCHANGED past

historyVars == <<cycleVars, past>>
HistorySpec == HistoryInit /\ [][HistoryNext]_historyVars

\* A process that can go on does, and a source that is asked again and again
\* answers in full some time.
Advances(p) ==
    /\ p \in deployment.roles
    /\ \/ HistoryOfSweep(p) /\ ~Crash(p)
       \/ \E s \in Sources : HistoryOfSource(p, s)
Fairness ==
    /\ \A p \in Roles \ {"merge"} : WF_historyVars(Advances(p))
    /\ \A s \in Sources : SF_historyVars(\E p \in deployment.roles :
                                           FetchFull(p, s) /\ HistoryOfSource(p, s))
    /\ WF_historyVars("merge" \in deployment.roles /\ Merges /\ UNCHANGED past)

FairSpec == HistorySpec /\ Fairness

-----------------------------------------------------------------------------
\* The program's state and the history have their types: statuses among those
\* the code writes, no failure beyond the bound.
CycleTypeOK == ProgramTypeOK /\ past \in Past

Alone == deployment.roles = {"all"}

\* Between two sweeps the status of an alert depends on the last saved sweep
\* that saw it and on nothing else: not on how many sweeps have aged it, and
\* not on the snapshots written in between.  Alerts of sources outside the
\* registry that a batch may hold aside: run.go:549 keeps what is known of such
\* a source only while it is in the batch.
AgesByLastSighting ==
    Alone /\ past.intact /\ past.saved # Never /\ proc["all"].pc = "idle" =>
        \A a \in Alerts :
            LET row == table[a]
                age == past.saved - past.seen[a]
            IN Owner[a] \notin Outside =>
               /\ past.seen[a] = Never => row = Gone
               /\ past.seen[a] # Never /\ row # Gone => row.last = past.seen[a]
               /\ past.seen[a] # Never =>
                    row.status = IF a \in past.latest \/ (Owner[a] \in Accumulating /\ a \notin Weak)
                                 THEN IF a \in Weak THEN "filtered" ELSE "active"
                                 ELSE StatusAtAge(age)

\* A hash that makes the next sweep skip a batch stands for alerts that some
\* sweep has saved; and unless the run record after it was lost (run.go:5702
\* drops the error), for alerts that the table holds as seen in the last sweep:
\* the gate never hides content that was not stored.
KnownContentIsStored ==
    Alone /\ past.intact /\ proc["all"].pc = "idle" =>
        \A s \in Sources : mark[s].ok =>
            \A a \in mark[s].hash :
                /\ past.seen[a] # Never
                /\ s \notin past.lost => table[a] # Gone /\ table[a].last = past.saved

\* A source that a dead letter file once held stays untouched for the
\* interval, also through re-probes, other lanes, deaths and restarts.
DeadAreLeftAlone ==
    [][\A s \in Sources :
          Alone /\ past.known[s] # Never
             /\ s \in proc["all"].todo /\ s \notin proc'["all"].todo
             /\ proc["all"].pc = "sweep"
             /\ proc["all"].start - past.known[s] < RetryInterval
          => Skip("all", s) \/ Defer("all") \/ Crash("all")]_historyVars

\* Of the sources of the registry a worker stages its own lane only, whatever
\* other roles and removed sources have left in the table it ages; what else it
\* stages is of a source that its batches bring from outside: the static entry
\* of run.go:247, and the topics.
StagedAreOwn ==
    \A w \in Workers : \A a \in Alerts :
        staged[w][a] # Gone =>
            \/ Owner[a] \in deployment.registry /\ Lane[Owner[a]] = w
            \/ Owner[a] \in Outside

\* What a plain feed keeps serving is in the table again and again, also when a
\* sweep dies after the hash of its content was recorded and before its alerts
\* were saved, or when a sweep could not read the table and overwrote it.  Dead
\* sources aside.
PublishedIsStored ==
    \A a \in Alerts :
        LET s == Owner[a] IN
        s \in deployment.registry /\ s \notin Versioned \cup Paced =>
            (<>[](a \in feed[s].items /\ dead[s] = Never) => []<>(table[a] # Gone))

-----------------------------------------------------------------------------
\* run.go:227: unchanged feeds carry forward their previous alerts.
UnchangedIsCarried ==
    [][\A s \in Sources : \A a \in feed[s].items :
          FetchUnchanged("all", s) /\ proc["all"].prev[a].status \in Shown
          => Reconciled("all")[a].status \in Shown]_historyVars

\* operations.md:305: the interval is one between successful full scrapes.
CadenceCountsScrapes ==
    [][\A s \in Paced : Pace("all", s) =>
          past.scraped[s] # Never /\ proc["all"].start - past.scraped[s] < ScrapeInterval
      ]_historyVars
=============================================================================
