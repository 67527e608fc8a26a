----------------------------- MODULE TerrorAnalysis -----------------------------
(***************************************************************************)
(* The terror assessments: the evidence is chosen from the alerts of the     *)
(* state file, a language model assesses the countries of it, and the answer *)
(* is kept in terror-analysis-llm.json until the evidence or the hours ask   *)
(* for another.  terrorAnalysisNeedsRefresh tells whether a run of the       *)
(* briefings is due for it, and refreshTerrorAnalysisFromLLM decides once    *)
(* more, on another read of the state file, whether to ask.                  *)
(***************************************************************************)
EXTENDS Naturals, Sequences, FiniteSets, SequencesExt, FiniteSetsExt

CONSTANTS TerrorAlerts,
          Seen,   \* what terrorSignalEvidence and the ranking see in an alert
          PerCountry, MaxCountries, MaxEvidence,  \* 4, 8, TERROR_ANALYSIS_MAX_EVIDENCE
          ZoneSignals,   \* minTerrorEvents365d, 3
          Window, RefreshAfter, UnchangedAfter,   \* in hours of the clock
          MaxHours                                \* bound

ASSUME TerrorTyped ==
    /\ Seen \in [TerrorAlerts -> [category : STRING, authority : STRING, event : STRING, actor : BOOLEAN,
                                  keyword : BOOLEAN, country : STRING, cluster : STRING,
                                  severity : 1 .. 5, sources : Nat, alarm : BOOLEAN]]
    /\ {PerCountry, MaxCountries, MaxEvidence, ZoneSignals, Window, RefreshAfter, MaxHours} \subseteq Nat \ {0}
    /\ UnchangedAfter \in Nat /\ UnchangedAfter >= RefreshAfter

VARIABLES hour,
          listed,   \* the state file: alerts and their last_seen
          kept,     \* the cache file: updated_at, evidence, countries assessed
          due,      \* what the staleness check of this run has found
          asked,    \* history: the run has asked
          stands,   \* history: nothing has changed since the check of this run
          zones     \* geo/terrorism-zones.geojson: a country's zone and whether it is assessed
terrorVars == <<hour, listed, kept, due, asked, stands, zones>>

\* isTerrorExcludedSourceType, isTerrorExcludedCategory.
Excluded(s) == \/ s.authority \in {"regulatory", "private_sector", "educational"}
               \/ s.category \in {"legislative", "fraud_alert", "travel_warning"}
HighTrust(s) == s.authority \in {"police", "intelligence", "military", "government"}
Points(cond, n) == IF cond THEN n ELSE 0

\* terrorSignalEvidence.
Signal(a) ==
    LET s == Seen[a] IN
    /\ ~Excluded(s) /\ s.event # ""
    /\ Points(s.category = "terrorism_tip", 2) + Points(s.actor, 2) + Points(s.keyword, 1) + Points(HighTrust(s), 1)
        + Points(s.actor /\ s.category \in {"conflict_monitoring", "public_safety", "terrorism_tip"}, 1) >= 3

Material(a) == Seen[a].severity >= 4 \/ Seen[a].sources >= 2 \/ Seen[a].alarm
\* RankingScore, of an alert of a state file at an hour; half a day of youth counts one.
Rank(file, now, a) == Seen[a].severity * 10 + Min({Seen[a].sources, 5}) * 4 + (file[a] + Window - now) \div 12

\* The candidates: signals of the window with a country.
InWindow(file, now, a) == file[a] + Window >= now
Candidates(file, now)  == {a \in DOMAIN file : Signal(a) /\ InWindow(file, now, a) /\ Seen[a].country # "INT"}
Before(file, now, a, b) == \/ Rank(file, now, a) > Rank(file, now, b)
                           \/ Rank(file, now, a) = Rank(file, now, b) /\ file[a] > file[b]
CandidateOrder(file, now) == SetToSortSeq(Candidates(file, now), LAMBDA a, b : Before(file, now, a, b))

\* buildTerrorAnalysisEvidence: the best first, while their country, its number
\* of alerts, the cluster and the whole leave room.
CountriesOf(s)   == {Seen[a].country : a \in ToSet(s)}
Room(s, a)     == /\ Len(s) < MaxEvidence
                  /\ Seen[a].country \in CountriesOf(s) \/ Cardinality(CountriesOf(s)) < MaxCountries
                  /\ Cardinality({b \in ToSet(s) : Seen[b].country = Seen[a].country}) < PerCountry
                  /\ \A b \in ToSet(s) : Seen[b].cluster # Seen[a].cluster
EvidenceOf(file, now) == FoldLeft(LAMBDA s, a : IF Room(s, a) THEN Append(s, a) ELSE s, <<>>, CandidateOrder(file, now))
Evidence == EvidenceOf(listed, hour)
\* hashTerrorEvidence, over the evidence with its times and severities.
Hash(s) == [i \in DOMAIN s |-> <<s[i], listed[s[i]]>>]

NothingKept == [at |-> 0, hash |-> <<>>, evidence |-> {}, assessed |-> {}, known |-> FALSE]
NewMaterial(s) == \E a \in ToSet(s) \ kept.evidence : Material(a)

TerrorInit == /\ hour = 0 /\ listed = <<>> /\ kept = NothingKept
              /\ due = FALSE /\ asked = FALSE /\ stands = FALSE /\ zones = {}

\* External: alerts come and are seen again, and age.
SeeAlert == /\ \E a \in TerrorAlerts : listed' = [b \in DOMAIN listed \cup {a} |-> IF b = a THEN hour ELSE listed[b]]
            /\ listed' # listed /\ stands' = FALSE
            /\ UNCHANGED <<hour, kept, due, asked, zones>>
HoursPass == /\ \E h \in {RefreshAfter, UnchangedAfter} : hour + h <= MaxHours /\ hour' = hour + h
             /\ due' = FALSE /\ asked' = FALSE /\ stands' = FALSE
             /\ UNCHANGED <<listed, kept, zones>>

\* terrorAnalysisNeedsRefresh.
NeedsRefresh ==
    /\ Evidence # <<>>
    /\ \/ ~kept.known \/ kept.assessed = {}
       \/ IF Hash(Evidence) = kept.hash THEN hour - kept.at >= UnchangedAfter
          ELSE hour - kept.at >= RefreshAfter \/ NewMaterial(Evidence)
Check == /\ due' = NeedsRefresh /\ asked' = FALSE /\ stands' = TRUE
         /\ UNCHANGED <<hour, listed, kept, zones>>

\* Mutant of Asks: new material does not hurry it.
AsksLater ==
    /\ Evidence # <<>>
    /\ kept.known => /\ Hash(Evidence) = kept.hash => hour - kept.at >= UnchangedAfter
                     /\ Hash(Evidence) # kept.hash => hour - kept.at >= RefreshAfter

\* refreshTerrorAnalysisFromLLM, up to the request.
Asks ==
    /\ Evidence # <<>>
    /\ kept.known => /\ Hash(Evidence) = kept.hash => hour - kept.at >= UnchangedAfter
                     /\ Hash(Evidence) # kept.hash => hour - kept.at >= RefreshAfter \/ NewMaterial(Evidence)

\* parseTerrorAssessments: countries of the evidence, each with evidence of its
\* own; an answer without any is an error.
Assessable == (SUBSET CountriesOf(Evidence)) \ {{}}

\* buildDynamicTerrorZonesFromAlerts: enough signals of a country make a
\* zone, with the assessment of it if there is one.
ZonesOf(assessed) ==
    LET signals(c) == {a \in DOMAIN listed : Signal(a) /\ Seen[a].country = c}
    IN  {[country |-> c, assessed |-> c \in assessed] :
            c \in {d \in {Seen[a].country : a \in DOMAIN listed} \ {"INT"} : Cardinality(signals(d)) >= ZoneSignals}}

Refresh ==
    /\ asked' = Asks /\ stands' = FALSE
    /\ \/ /\ Asks
          /\ \E cs \in Assessable :
                /\ kept' = [at |-> hour, hash |-> Hash(Evidence), evidence |-> ToSet(Evidence),
                            assessed |-> cs, known |-> TRUE]
                /\ zones' = ZonesOf(cs)
       \/ kept' = kept /\ zones' = ZonesOf(kept.assessed) \* kept, or the request fails
    /\ UNCHANGED <<hour, listed, due>>

TerrorNext == SeeAlert \/ HoursPass \/ Check \/ Refresh
TerrorSpec == TerrorInit /\ [][TerrorNext]_terrorVars

-----------------------------------------------------------------------------
\* The two decisions agree: when nothing has changed between the check and the
\* refresh, the model is asked exactly if the check has found the run due, so no
\* run of the briefings is made for assessments it then does not ask for.
DueMeansAsked == [][Refresh /\ stands => asked' = due]_terrorVars
=============================================================================
