------------------------------ MODULE AlertSearch ------------------------------
(***************************************************************************)
(* The alerts the collector saves for search, and the search of its API.  A  *)
(* sweep merges what it fetched with the rows it finds, saves the rows and   *)
(* their text index in one transaction, blends a corpus score into the       *)
(* copies in memory, and writes those to the alerts file.  Searches read at  *)
(* any moment.                                                               *)
(***************************************************************************)
EXTENDS Integers, FiniteSets, Sequences, SequencesExt, FiniteSetsExt

CONSTANTS Items, Traits,   \* alerts, and of each what its rows have in common (below)
          Titles,          \* Titles[a]: the sets of words its title may have
          Begins,          \* Begins[w]: the words that begin with w
          Limits, NoWord

\* Traits[a]: its category, region and severity, the lane it is saved with, its triage score if it
\* has one, the words of its category, region and source (tags), and whether its source is
\* the police's or of national security (official) or local law enforcement (local).
ASSUME SearchTyped ==
    /\ Items \subseteq Nat /\ IsFiniteSet(Items) /\ Limits \subseteq Nat
    /\ \A a \in Items : /\ Traits[a].rank \in Int /\ Traits[a].seen \in Nat /\ Traits[a].trust \in Nat
                        /\ Traits[a].triage = <<>> \/ \E n \in 0 .. 100 : Traits[a].triage = <<n>>

VARIABLES table,   \* rows of alerts: status, words of the title, times the score was blended
          index,   \* alerts_fts: the words of each alert, of its title and its tags
          memory,  \* fullState of the sweep
          file,    \* alerts.json: the times the score of each alert was blended
          phase
searchVars == <<table, index, memory, file, phase>>

None == [status |-> "none", words |-> {}, blended |-> 0]
Nothing == [a \in Items |-> None]
There(rows) == {a \in Items : rows[a] # None}
WordsOf(rows) == [a \in Items |-> IF rows[a] = None THEN {} ELSE rows[a].words \cup Traits[a].tags]

Legacy == [a \in Items |-> IF Traits[a].legacy THEN [None EXCEPT !.status = "removed", !.words = CHOOSE w \in Titles[a] : TRUE]
                           ELSE None]

SearchInit == /\ table \in {Nothing, Legacy} /\ index = WordsOf(table)
              /\ memory = Nothing /\ file = [a \in Items |-> 0] /\ phase = "rest"

-----------------------------------------------------------------------------
\* What a sweep makes of an alert it fetched, and of one it did not: it ages, then goes; the
\* rows `removed` of earlier versions stay for a retention of their own.
Fetched(a, words) == [status |-> IF Traits[a].weak THEN "filtered" ELSE "active", words |-> words, blended |-> 0]
Missed(a) == IF table[a].status = "removed" THEN {table[a], None}
             ELSE IF table[a].status \in {"none", "stale"} THEN {None}
             ELSE {[table[a] EXCEPT !.status = "stale"]}

\* loadPreviousAlerts: from the database.
Previous(a) == Missed(a)

Collect == /\ phase = "rest" /\ phase' = "save"
         /\ \E rows \in [Items -> UNION {{Fetched(a, w) : w \in Titles[a]} \cup Previous(a) : a \in Items}] :
               /\ \A a \in Items : rows[a] \in {Fetched(a, w) : w \in Titles[a]} \cup Previous(a)
               /\ memory' = rows
         /\ UNCHANGED <<table, index, file>>

\* Mutant of Indexed: alerts that had an entry keep it.
IndexedOnce(rows) == [a \in Items |-> IF a \in There(table) /\ a \in There(rows) THEN index[a] ELSE WordsOf(rows)[a]]

\* The rebuild of alerts_fts.
Indexed(rows) == WordsOf(rows)

\* SaveAlerts: the rows are cleared and written, and the index is rebuilt, in one transaction.
Save  == /\ phase = "save" /\ phase' = "blend"
         /\ table' = memory /\ index' = Indexed(memory) /\ UNCHANGED <<memory, file>>

\* CorpusScores: the active rows whose title has a word to match; the others have no score.
Scored == {a \in There(table) : table[a].status = "active" /\ table[a].words # {}}

\* applyCorpusScores, of the copies in memory; if it fails they stay as they are.
Blend == /\ phase = "blend" /\ phase' = "write"
         /\ memory' \in {memory, [a \in Items |-> IF a \in Scored THEN [memory[a] EXCEPT !.blended = @ + 1] ELSE memory[a]]}
         /\ UNCHANGED <<table, index, file>>
Write == /\ phase = "write" /\ phase' = "rest"
         /\ file' = [a \in Items |-> IF memory[a].status \in {"active", "stale"} THEN memory[a].blended ELSE 0]
         /\ memory' = Nothing /\ UNCHANGED <<table, index>>

\* A sweep that cannot save ends; so does one whose process dies.
GiveUp == /\ phase # "rest" /\ phase' = "rest" /\ memory' = Nothing /\ UNCHANGED <<table, index, file>>

SearchNext == Collect \/ Save \/ Blend \/ Write \/ GiveUp
SearchSpec == SearchInit /\ [][SearchNext]_searchVars

-----------------------------------------------------------------------------
(* The search.                                                               *)

\* inferSignalLane.
AlarmCategory(c) == c \in {"missing_person", "wanted_suspect", "conflict_monitoring", "maritime_security",
    "logistics_incident", "travel_warning", "health_emergency", "disease_outbreak", "environmental_disaster",
    "emergency_management", "terrorism_tip", "public_safety"}
Grave(t) == t.severity \in {"critical", "high"} \/ (t.triage # <<>> /\ t.triage[1] >= 72)
Inferred(t) ==
    IF t.category = "informational" \/ t.severity = "info" THEN "info"
    ELSE IF Grave(t) /\ (AlarmCategory(t.category) \/ t.official) THEN "alarm" ELSE "intel"

\* hydrateDerivedFields: an alert without a lane is given one.
Lane(a) == IF Traits[a].lane = "" THEN Inferred(Traits[a]) ELSE Traits[a].lane

\* A query is a word, taken for the beginning of one, or none, and the other parameters.
Queries == [word : DOMAIN Begins \cup {NoWord}, category : {Traits[a].category : a \in Items} \cup {""}, region : {"", "r"},
            status : {"", "filtered"}, filtered : BOOLEAN, removed : BOOLEAN,
            lane : {Lane(a) : a \in Items} \cup {""}, local : BOOLEAN, limit : Limits]

\* SearchAlerts: the rows the statement selects, those with the best rank (of the words, or
\* the latest), sorted by a score of rank, recency, trust and relevance.
Selected(word, category, region, status) ==
    {a \in There(table) : /\ word = NoWord \/ index[a] \cap Begins[word] # {}
                          /\ category \in {"", Traits[a].category}
                          /\ region \in {"", Traits[a].region}
                          /\ status \in {"", table[a].status}}
Sooner(word, a, b) == IF word = NoWord THEN Traits[a].seen > Traits[b].seen ELSE Traits[a].rank < Traits[b].rank
Limited(word, as, n) == {a \in as : Cardinality({b \in as : Sooner(word, b, a) \/ (~Sooner(word, a, b) /\ b < a)}) < n}
Score(word, as, a) ==
    LET worst == Max({Traits[b].rank : b \in as})
        best  == Min({Traits[b].rank : b \in as})
        bm25  == IF worst = best THEN 100 ELSE (100 * (worst - Traits[a].rank)) \div (worst - best)
        relevance == IF Traits[a].triage = <<>> THEN 50 ELSE Traits[a].triage[1]
    IN  IF word = NoWord THEN 45 * Traits[a].seen + 35 * Traits[a].trust + 20 * relevance
        ELSE 45 * bm25 + 25 * Traits[a].seen + 20 * Traits[a].trust + 10 * relevance
Later(a, b) == Traits[a].seen > Traits[b].seen \/ (Traits[a].seen = Traits[b].seen /\ a < b)
Above(word, as, a, b)  == Score(word, as, a) > Score(word, as, b) \/ (Score(word, as, a) = Score(word, as, b) /\ Later(a, b))
Sorted(word, as, kept) == [n \in 1 .. Cardinality(kept) |->
                             CHOOSE a \in kept : Cardinality({b \in kept : Above(word, as, b, a)}) = n - 1]

\* filterStatuses, filterLane and filterLocalLawEnforcement, of what was selected and cut.
KeepsStatus(q, status, a) == \/ status # ""
                             \/ /\ table[a].status = "filtered" => q.filtered
                                /\ table[a].status = "removed" => q.removed
KeepsLane(q, a)  == q.lane = "" \/ Lane(a) = q.lane
KeepsLocal(q, a) == q.local \/ q.region # "" \/ ~Traits[a].local

\* handleSearch: without a status and a flag only the active ones are asked for, and what
\* the filters keep stays in its order.
Asked(q)  == IF q.status = "" /\ ~q.filtered /\ ~q.removed THEN "active" ELSE q.status
Search(q) == LET as   == Limited(q.word, Selected(q.word, q.category, q.region, Asked(q)), q.limit)
                 kept == {a \in as : KeepsStatus(q, Asked(q), a) /\ KeepsLane(q, a) /\ KeepsLocal(q, a)}
             IN  IF q.word = NoWord /\ q.category = "" /\ q.region = "" THEN <<>> ELSE Sorted(q.word, as, kept)

-----------------------------------------------------------------------------
\* By the beginning of a word an alert is found by the title that its row has, or by its category,
\* region or source, at any moment of a sweep and after one that gave up: a search whose limit
\* cuts nothing off gives exactly the rows that it describes, those that are not in force only
\* if asked for, and local law enforcement only if asked for or of the region.
SearchFindsTheRows ==
    There(table) # {} =>
      \A q \in {x \in Queries : x.limit >= Cardinality(There(table)) /\ (x.word # NoWord \/ x.category # "" \/ x.region # "")} :
        ToSet(Search(q)) =
            {a \in There(table) :
                /\ q.word # NoWord => \E w \in table[a].words \cup Traits[a].tags : w \in Begins[q.word]
                /\ q.category = "" \/ Traits[a].category = q.category
                /\ q.region = "" \/ Traits[a].region = q.region
                /\ q.status # "" => table[a].status = q.status
                /\ (q.status = "" /\ ~q.filtered /\ ~q.removed) => table[a].status = "active"
                /\ (q.status = "" /\ table[a].status \in {"filtered", "removed"}) =>
                       (q.filtered /\ table[a].status = "filtered") \/ (q.removed /\ table[a].status = "removed")
                /\ q.lane # "" => Lane(a) = q.lane
                /\ Traits[a].local => q.local \/ q.region # ""}

\* However long an alert is carried from sweep to sweep, the corpus score is blended into the
\* score that is shown once at most, and never into the one that is kept.
BlendedOnce == \A a \in Items : file[a] <= 1 /\ table[a].blended = 0
=============================================================================
