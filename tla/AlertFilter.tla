------------------------------ MODULE AlertFilter ------------------------------
(***************************************************************************)
(* What of the documents of a sweep becomes an alert, and which alerts are   *)
(* shown: the noise gate (noisegate/engine.go) and its decisions, the        *)
(* classifier of pages, the titles that only inform, and the duplicates, the *)
(* lanes and the thresholds of the batch (normalize.go).  What a fetcher cuts *)
(* off before is in FeedFetch, what becomes of the alerts of earlier sweeps  *)
(* in AlertLifecycle.                                                        *)
(*                                                                          *)
(* External: what sites serve, what the classifier answers and how items     *)
(* hash to a policy.  Scores are in per mille, ages in hours.                *)
(***************************************************************************)
EXTENDS Integers, Sequences, FiniteSets, FiniteSetsExt, SequencesExt, ItemLists

CONSTANTS Origins,    \* sources, each with what the registry says of it
          Entries,    \* items, each with what the code extracts from it
          TitleFacts, \* titles, each with what its words say
          Translated, \* the title the classifier gives an item, if it does
          Documents,  \* what a source may serve
          Categories, \* what the classifier may call an item, and informational
          PolicyA, PolicyB, PercentB,
          AlarmScore, MissingScore, IncidentScore, MaxFresh

ASSUME FilterTyped ==
    /\ \A i \in DOMAIN Entries : Entries[i].title \in DOMAIN TitleFacts /\ Translated[i] \in DOMAIN TitleFacts
                               /\ Entries[i].score \in Int
    /\ DOMAIN Documents = DOMAIN Origins /\ DOMAIN Translated = DOMAIN Entries
    /\ \A s \in DOMAIN Documents : Documents[s] \subseteq Seq(DOMAIN Entries)
    /\ 0 \notin DOMAIN Entries
    /\ PercentB \in 0 .. 100 /\ MaxFresh \in Nat \ {0}
    /\ {AlarmScore, MissingScore, IncidentScore} \subseteq 0 .. 1000

VARIABLES gate,   \* the policies could be read
          read,   \* the document of each source that has answered
          collected, \* the alerts, as sources answered
          shown, hidden \* of what was collected, after the sweep
filterVars == <<gate, read, collected, shown, hidden>>

-----------------------------------------------------------------------------
(* The noise gate. *)

\* Evaluate looks for terms in the item, its source's category and authority.
Text(s, i) == Entries[i].words \cup {Origins[s].category, Origins[s].authority}
HasAny(s, i, terms) == Text(s, i) \cap terms # {}
Matches(s, i, terms) == Cardinality(Text(s, i) \cap terms)

\* selectPolicy: the same item always meets the same policy.
PolicyFor(i) == IF Entries[i].bucket < PercentB THEN PolicyB ELSE PolicyA

\* Rules of an effect whose two sets of terms both occur.
Cooccurring(s, i, effect) == Cardinality({r \in PolicyFor(i).rules :
    r.effect = effect /\ HasAny(s, i, r.requires) /\ HasAny(s, i, r.with)})

HitScore(hits, full, fallback) == IF hits = 0 THEN fallback ELSE Min({1000, (hits * 1000) \div full})

Actionability(s, i) ==
    LET hits  == Matches(s, i, PolicyFor(i).override) + 2 * Cooccurring(s, i, "keep")
        bonus == (IF Origins[s].curated THEN 80 ELSE 0) + (IF Origins[s].highValue THEN 80 ELSE 0)
    IN  Min({1000, HitScore(hits, 3, 150) + bonus})

Blocked(s, i) == HitScore(Matches(s, i, PolicyFor(i).block) + Cooccurring(s, i, "drop"), 2, 0) >= 900
Noisy(s, i)   == HitScore(Matches(s, i, PolicyFor(i).downgrade) + Cooccurring(s, i, "downgrade"), 3, 0) >= 600

Evaluate(s, i) ==
    IF ~gate THEN "none"
    ELSE IF Blocked(s, i) /\ Actionability(s, i) < 350 THEN "drop"
    ELSE IF Noisy(s, i) /\ Actionability(s, i) < 550 THEN "downgrade" ELSE "keep"

\* applyNoiseGate: what is left of a document, and the decision under each
\* title and link, where the last item with both decides.
Passing(s, doc) == Chosen(doc, {i \in ToSet(doc) : Evaluate(s, i) # "drop"})
Decision(s, doc, title, link) ==
    LET last == SelectLastInSeq(Passing(s, doc),
                    LAMBDA i : Entries[i].title = title /\ Entries[i].link = link)
    IN  IF last = 0 THEN "none" ELSE Evaluate(s, Passing(s, doc)[last])

-----------------------------------------------------------------------------
(* From items to alerts. *)

\* What goes to the normaliser: an item as it is, or what BatchLLM makes of
\* those it says yes to.
Plain(s, doc) == LET p == Passing(s, doc) IN
    [n \in DOMAIN p |-> [item |-> p[n], title |-> Entries[p[n]].title, category |-> Origins[s].category]]
Replies(doc) == [ToSet(doc) -> [yes : BOOLEAN, translated : BOOLEAN, category : Categories]]
Classified(s, doc, answer) == LET yes == Chosen(Passing(s, doc), {i \in ToSet(doc) : answer[i].yes}) IN
    [n \in DOMAIN yes |-> [item     |-> yes[n],
                           title    |-> IF answer[yes[n]].translated THEN Translated[yes[n]] ELSE Entries[yes[n]].title,
                           category |-> answer[yes[n]].category]]

\* fetchRSS, fetchHTML: with a classifier that fails all items go on.
Drafts(s, doc) == {Plain(s, doc)} \cup
    IF Origins[s].classifier THEN {Classified(s, doc, answer) : answer \in Replies(doc)} ELSE {}

\* inferSeverity, baseAlert.
Severity(title, category) == IF TitleFacts[title].informational \/ category = "informational"
                             THEN "info" ELSE TitleFacts[title].severity

\* downgradeNonActionable: titles of sources without keywords of their own.
OnlyInforms(s, title, category) ==
    /\ ~Origins[s].keywords /\ category # "informational" /\ Severity(title, category) # "info"
    /\ ~TitleFacts[title].actionable

\* The alert of a draft, with the decision found under its title and link.
Alert(s, doc, d) ==
    LET verdict == Decision(s, doc, d.title, Entries[d.item].link)
        lowered == verdict = "downgrade" \/ OnlyInforms(s, d.title, d.category)
    IN  [item |-> d.item, source |-> s, title |-> d.title, verdict |-> verdict, lane |-> "",
         category |-> IF lowered THEN "informational" ELSE d.category,
         severity |-> IF lowered THEN "info" ELSE Severity(d.title, d.category)]

-----------------------------------------------------------------------------
(* Duplicates.  Maps are read in any order, and sort.Slice is not stable. *)

Key(a)     == <<Entries[a.item].link, a.title>>
Id(a)      == <<a.source, Entries[a.item].link>>
\* buildVariantKey: the numbered copies of one page under one long headline.
Variant(a) == IF Entries[a.item].copyOf # "" /\ TitleFacts[a.title].long
              THEN <<a.source, Entries[a.item].copyOf, a.title>> ELSE <<"", Id(a), a.title>>

ScoreOf(a) == Entries[a.item].score
\* comparePreference.
Preferred(a, b) == \/ ScoreOf(a) > ScoreOf(b)
                   \/ ScoreOf(a) = ScoreOf(b) /\ Entries[a.item].date > Entries[b.item].date

\* Mutant of ByKey: the first under each key.
ByKeyFirst(alerts) == {alerts[n] : n \in {k \in DOMAIN alerts : \A l \in DOMAIN alerts :
    Key(alerts[l]) = Key(alerts[k]) => k <= l}}

\* The first of the best under each key.
ByKey(alerts) == {alerts[n] : n \in {k \in DOMAIN alerts : \A l \in DOMAIN alerts :
    Key(alerts[l]) = Key(alerts[k]) => \/ ScoreOf(alerts[k]) > ScoreOf(alerts[l])
                                       \/ ScoreOf(alerts[k]) = ScoreOf(alerts[l]) /\ k <= l}}

\* The choices of one of the best of each class.
Picks(alerts, Class(_), Better(_, _)) ==
    {kept \in SUBSET alerts : \A a \in alerts : Cardinality({k \in kept : Class(k) = Class(a)}) = 1
        /\ (a \in kept => ~\E b \in alerts : Class(b) = Class(a) /\ Better(b, a))}

Deduplicate(alerts) ==
    UNION {Picks(kept, Variant, Preferred) :
              kept \in Picks(ByKey(alerts), Id, LAMBDA a, b : ScoreOf(a) > ScoreOf(b))}

-----------------------------------------------------------------------------
(* Lanes and thresholds. *)

AlarmCategories == {"missing_person", "wanted_suspect", "conflict_monitoring", "maritime_security",
    "logistics_incident", "travel_warning", "health_emergency", "disease_outbreak",
    "environmental_disaster", "emergency_management", "terrorism_tip", "public_safety"}
FusionCategories == {"fraud_alert", "public_safety", "terrorism_tip", "conflict_monitoring", "travel_warning"}

\* shouldEscalateThreatFusion: a title that joins two kinds of crime.
Fused(a) == /\ TitleFacts[a.title].kinds >= 2 /\ a.category \in FusionCategories
            /\ ScoreOf(a) >= Max({600, AlarmScore - 80}) \/ a.severity = "critical"

Urgent(a) == ScoreOf(a) >= AlarmScore \/ a.severity \in {"critical", "high"}

\* Mutant of Lane: urgency before all.
LaneUrgentFirst(a) == IF Urgent(a) THEN "alarm" ELSE IF a.severity = "info" THEN "info" ELSE "intel"

\* classifySignalLane.
Lane(a) ==
    IF a.category = "informational" \/ a.severity = "info" THEN "info"
    ELSE IF Urgent(a) /\ (\/ Fused(a) \/ TitleFacts[a.title].strategic \/ a.category \in AlarmCategories
                          \/ Origins[a.source].authority \in {"police", "national_security"})
    THEN "alarm" ELSE "intel"

\* FilterActive: fresh enough, or of a kind that does not age, and relevant.
Lasting == {"wanted_suspect", "missing_person", "public_appeal"}
Slow    == {"national_security", "military", "seismic", "cert", "police", "law_enforcement",
            "emergency", "regulatory", "international_org"}
Fresh(a) == \/ a.category \in Lasting \/ Origins[a.source].standing
            \/ Entries[a.item].age <= MaxFresh * (IF Origins[a.source].authority \in Slow THEN 2 ELSE 1)
Relevant(a) == Max({0, ScoreOf(a)}) >= IF a.category = "missing_person" THEN MissingScore ELSE IncidentScore

-----------------------------------------------------------------------------
(* A sweep. *)

Unread == <<0>>
FilterInit == /\ gate \in BOOLEAN /\ read = [s \in DOMAIN Origins |-> Unread]
              /\ collected = <<>> /\ shown = {} /\ hidden = {}

\* A source answers; the workers of a lane answer in any order.
Read(s) == /\ read[s] = Unread
           /\ \E doc \in Documents[s] : \E drafts \in Drafts(s, doc) :
                 /\ read'  = [read EXCEPT ![s] = doc]
                 /\ collected' = collected \o [n \in DOMAIN drafts |-> Alert(s, doc, drafts[n])]
           /\ UNCHANGED <<gate, shown, hidden>>

Answered == \A s \in DOMAIN Origins : read[s] # Unread
Sort == /\ Answered /\ shown = {} /\ hidden = {} /\ collected # <<>>
        /\ \E kept \in Deduplicate(collected) :
              LET laned == {[a EXCEPT !.lane = Lane(a)] : a \in kept}
              IN  /\ shown'  = {a \in laned : Fresh(a) /\ Relevant(a)}
                  /\ hidden' = {a \in laned : ~(Fresh(a) /\ Relevant(a))}
        /\ UNCHANGED <<gate, read, collected>>

FilterNext == Sort \/ \E s \in DOMAIN Origins : Read(s)
FilterSpec == FilterInit /\ [][FilterNext]_filterVars

-----------------------------------------------------------------------------
Sorted == shown \cup hidden # {}

\* Items that bear a title and a link in the document of a source and were let in.
Namesakes(a) == {i \in ToSet(Passing(a.source, read[a.source])) :
                    Entries[i].title = Entries[a.item].title /\ Entries[i].link = Entries[a.item].link}
JudgedNoise(a) == \A i \in Namesakes(a) : Evaluate(a.source, i) = "downgrade"

\* What the gate takes for noise is shown for information and never as an alarm, whichever policy
\* the item has met, whatever the classifier makes of its category, and whichever of its copies is
\* left; of items that keep their title (applyNoiseDecision, classifySignalLane).
NoiseStaysInfo == \A a \in shown : JudgedNoise(a) /\ a.title = Entries[a.item].title => a.lane = "info"

\* The same of all items.  The decision is looked up by the title of the alert (itemDecisionKey),
\* and the title the classifier gives an item is not the one the gate has seen.
GateIsObeyed == \A a \in shown : JudgedNoise(a) => a.lane = "info"

Alike(a, b) == Key(a) = Key(b) \/ Id(a) = Id(b) \/ Variant(a) = Variant(b)

\* An alert is left out only for one that is at least as relevant and, over at most two others as
\* relevant, the same article, page or copy: three rounds of Deduplicate, each of which compares
\* only what the round before has left, never lose the best.
BetterTakesPlace == Sorted => \A a \in ToSet(collected) : \E b, c \in ToSet(collected), d \in shown \cup hidden :
    /\ Alike(a, b) /\ Alike(b, c) /\ Alike(c, d)
    /\ ScoreOf(a) <= ScoreOf(b) /\ ScoreOf(b) <= ScoreOf(c) /\ ScoreOf(c) <= ScoreOf(d)

\* Where no two alerts are equally relevant, neither the order in which the sources answer nor the
\* order of Go's maps decides what is kept (the batch of a lane is filled by its workers).
OrderDoesNotMatter ==
    (Sorted /\ \A k, l \in DOMAIN collected : k # l => ScoreOf(collected[k]) # ScoreOf(collected[l]))
       => \A p \in Bijection(DOMAIN collected, DOMAIN collected) :
             Deduplicate([n \in DOMAIN collected |-> collected[p[n]]])
                = {{[a EXCEPT !.lane = ""] : a \in shown \cup hidden}}

\* Duplicates are only removed within a source, as the pipeline of docs/architecture.md says.
WithinSourceOnly == Sorted => \A a \in ToSet(collected) : \E d \in shown \cup hidden : d.source = a.source /\
    \E b, c \in ToSet(collected) : Alike(a, b) /\ Alike(b, c) /\ Alike(c, d) /\ {b.source, c.source} = {a.source}
===============================================================================
