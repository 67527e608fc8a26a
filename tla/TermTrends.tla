------------------------------ MODULE TermTrends ------------------------------
(***************************************************************************)
(* Term trends of the collector.  Every sweep counts the terms in the titles *)
(* of the alerts in force, in two tables by day, one by category and region  *)
(* and one by country; old days are pruned; a term whose count of today      *)
(* exceeds its average over the days before is a spike, and spikes become    *)
(* hints for discovery.  The API answers digests of the countries meanwhile. *)
(***************************************************************************)
EXTENDS Naturals, FiniteSets, FiniteSetsExt

CONSTANTS Alerts, Facts,        \* Facts[a] = [terms, place, country, trust, noise]
          Terms, Places,        \* a place is a category and a region
          Countries, NoCountry,
          Lookback, Retention,  \* days
          MinRatio, MinCount,   \* when a count is a spike
          MaxDay, MaxSweeps     \* bounds; sweeps of a day

ASSUME TrendsTyped == /\ Lookback \in Nat /\ Retention \in Nat /\ MinRatio \in Nat /\ MinCount \in Nat \ {0}
                      /\ MaxDay \in Nat /\ MaxSweeps \in Nat /\ NoCountry \notin Countries
                      /\ IsFiniteSet(Alerts) /\ IsFiniteSet(Terms) /\ IsFiniteSet(Places) /\ \A a \in Alerts : Facts[a].trust \in Nat

VARIABLES today, live,   \* the day, and the alerts in force that a sweep was given
          regions,       \* term_trends
          countries,     \* term_country_trends
          spikes,        \* what the last sweep of the day found
          at, sweeps,
          seen           \* ghost: sightings recorded, of each day and alert
trendVars == <<today, live, regions, countries, spikes, at, sweeps, seen>>

Days == 0 .. MaxDay
RegionRows  == Terms \X Places
Topics      == Terms \X {p[1] : p \in Places}   \* a term in a category
CountryRows == Topics \X Countries

\* A count of zero is a row that is not there.
NoRegions   == [r \in RegionRows |-> 0]
NoCountries == [r \in CountryRows |-> [count |-> 0, weight |-> 0]]
TrendsInit == /\ today = 0 /\ live = {} /\ spikes = {} /\ at = "rest" /\ sweeps = 0
              /\ regions   = [d \in Days |-> NoRegions]
              /\ countries = [d \in Days |-> NoCountries]
              /\ seen      = [d \in Days |-> [a \in Alerts |-> 0]]

-----------------------------------------------------------------------------
NextDay == /\ at = "rest" /\ today < MaxDay /\ today' = today + 1 /\ sweeps' = 0
           /\ spikes' = {} /\ UNCHANGED <<live, regions, countries, at, seen>>

\* recordTrendsAndDetectSpikes begins with whatever alerts are in force.
Sweep == /\ at = "rest" /\ sweeps < MaxSweeps /\ sweeps' = sweeps + 1
         /\ live' \in SUBSET Alerts /\ at' = "record"
         /\ UNCHANGED <<today, regions, countries, spikes, seen>>

Counted == {a \in live : ~Facts[a].noise}
Mentions(t, p)          == {a \in Counted : t \in Facts[a].terms /\ Facts[a].place = p}
MentionsOfCountry(k, c) == {a \in Counted : k[1] \in Facts[a].terms /\ Facts[a].place[1] = k[2] /\ Facts[a].country = c}

\* SUM over rows.
Total(table, ds) == MapThenSumSet(LAMBDA d : table[d], ds)

\* ON CONFLICT DO UPDATE SET count = count + excluded.count.
Adding(count, more) == count + more

\* Record, one transaction.
Record == /\ at = "record" /\ at' = "prune" /\ live' = {}
          /\ regions' = [regions EXCEPT ![today] =
                [r \in RegionRows |-> Adding(@[r], Cardinality(Mentions(r[1], r[2])))]]
          /\ countries' = [countries EXCEPT ![today] =
                [r \in CountryRows |-> LET m == MentionsOfCountry(r[1], r[2]) IN
                    [count  |-> Adding(@[r].count, Cardinality(m)),
                     weight |-> Adding(@[r].weight, Total([a \in Alerts |-> Facts[a].trust], m))]]]
          /\ seen' = [seen EXCEPT ![today] = [a \in Alerts |-> @[a] + (IF a \in Counted THEN 1 ELSE 0)]]
          /\ UNCHANGED <<today, spikes, sweeps>>

\* If it fails the sweep goes on without trends.
RecordFails == /\ at = "record" /\ at' = "rest" /\ live' = {}
               /\ UNCHANGED <<today, regions, countries, spikes, sweeps, seen>>

\* Mutant of Old: the last day that is kept goes as well.
OldOrEqual(d) == d + Retention <= today

Old(d) == d + Retention < today

\* Prune: one DELETE after the other; a warning if it fails.
Prune == /\ at = "prune" /\ at' = "detect"
         /\ regions' = [d \in Days |-> IF Old(d) THEN NoRegions ELSE regions[d]]
         /\ countries' \in {[d \in Days |-> IF Old(d) THEN NoCountries ELSE countries[d]], countries}
         /\ UNCHANGED <<today, live, spikes, sweeps, seen>>
PruneFails == /\ at = "prune" /\ at' = "detect"
              /\ UNCHANGED <<today, live, regions, countries, spikes, sweeps, seen>>

\* The days before today that the window holds and that have a row.
Earlier(table, days) == {d \in Days : d < today /\ d + days >= today /\ table[d] > 0}

\* HAVING today_count >= ? AND (avg_count = 0 OR today_count > avg_count * ?); the average
\* is of the days that have a row.
Spiking(r) == LET count == [d \in Days |-> regions[d][r]]
                  past  == Earlier(count, Lookback)
              IN  /\ count[today] >= MinCount
                  /\ past # {} => count[today] * Cardinality(past) > Total(count, past) * MinRatio

\* BuildHints: the spikes by category and region, for queueTrendHints.
HintsOf(found) == {[place |-> p, terms |-> {r[1] : r \in {s \in found : s[2] = p}}] : p \in {r[2] : r \in found}}

DetectSpikes == /\ at = "detect" /\ at' = "rest"
                /\ spikes' = {r \in RegionRows : Spiking(r)}
                /\ UNCHANGED <<today, live, regions, countries, sweeps, seen>>

TrendsNext == NextDay \/ Sweep \/ Record \/ RecordFails \/ Prune \/ PruneFails \/ DetectSpikes
TrendsSpec == TrendsInit /\ [][TrendsNext]_trendVars

-----------------------------------------------------------------------------
\* CountryDigestQuery, before its limit, and AllCountryDigests.
Window(days) == {d \in Days : d <= today /\ d + days >= today}
DigestTerm(k, c, days) ==
    LET count == [d \in Days |-> countries[d][<<k, c>>].count]
        past  == Earlier(count, days)
    IN  [term |-> k[1], category |-> k[2], count |-> Total(count, Window(days)),
         weight |-> Total([d \in Days |-> countries[d][<<k, c>>].weight], Window(days)),
         today |-> count[today], past |-> Total(count, past), pastDays |-> Cardinality(past)]
Digest(c, days) == {x \in {DigestTerm(k, c, days) : k \in Topics} : x.count >= 1}
\* A country whose query fails is left out of the answer.
AllDigests(days, failing) ==
    {[country |-> c, terms |-> Digest(c, days)] : c \in {k \in Countries \ failing : Digest(k, days) # {}}}

\* handleDigest: ORDER BY total_weight DESC, total_count DESC LIMIT.
Heavier(x, y) == x.weight > y.weight \/ (x.weight = y.weight /\ x.count > y.count)
TopDigests(c, days, limit) ==
    LET digest == Digest(c, days)
    IN  {top \in kSubset(Min({limit, Cardinality(digest)}), digest) :
            \A x \in top, y \in digest \ top : ~Heavier(y, x)}

-----------------------------------------------------------------------------
\* What was sighted of a country in a window: alerts by term and category, each as often as it was recorded.
Sighted(c, days) ==
    LET of(k)  == {a \in Alerts : Facts[a].country = c /\ k[1] \in Facts[a].terms /\ Facts[a].place[1] = k[2]}
        all(a) == Total([d \in Days |-> seen[d][a]], Window(days))
    IN  {y \in {[term |-> k[1], category |-> k[2], count |-> Total([a \in Alerts |-> all(a)], of(k)),
                 weight |-> Total([a \in Alerts |-> all(a) * Facts[a].trust], of(k))] : k \in Topics} : y.count >= 1}

\* A digest of a window that retention covers counts every sighting of the window that was
\* recorded, once, with the weight of its source and in its category, and its limit leaves out
\* the lightest of these terms, whatever sweeps failed or pruned, at any moment of one; all
\* digests leave out the countries whose queries fail, and no other.
DigestCountsSightings ==
    \A days \in 1 .. Retention :
        /\ \A failing \in SUBSET Countries :
              {d.country : d \in AllDigests(days, failing)} = {c \in Countries \ failing : Sighted(c, days) # {}}
        /\ \A c \in Countries : LET sighted == Sighted(c, days) IN
             \A limit \in 1 .. Cardinality(Topics) : \A top \in TopDigests(c, days, limit) :
                LET given == {[term |-> x.term, category |-> x.category, count |-> x.count, weight |-> x.weight] : x \in top}
                IN  /\ given \subseteq sighted
                    /\ Cardinality(given) = Min({limit, Cardinality(sighted)})
                    /\ \A x \in given, y \in sighted \ given : ~Heavier(y, x)

\* "Returns the top trending terms" with the "dominant category" of each (trends.go:306, 319): no
\* term that is left out outweighs, over its categories, one that is given.
TopTermsAreGiven ==
    \A c \in Countries, days \in 1 .. Retention :
        LET digest    == Digest(c, days)
            weight(t) == MapThenSumSet(LAMBDA x : x.weight, {x \in digest : x.term = t})
        IN  \A limit \in 1 .. Cardinality(Topics) : \A top \in TopDigests(c, days, limit) :
                \A x \in top, t \in {y.term : y \in digest} \ {y.term : y \in top} : weight(t) <= weight(x.term)

\* "Terms are ranked by trust-weighted count, with spike ratio as a tiebreaker" (trends.go:320).
RatioBreaksTies ==
    \A c \in Countries, days \in 1 .. Retention : LET digest == Digest(c, days) IN
        \A limit \in 1 .. Cardinality(Topics) : \A top \in TopDigests(c, days, limit) :
            \A x \in top, y \in digest \ top : x.weight = y.weight /\ x.past > 0 /\ y.past > 0 =>
                y.today * y.pastDays * x.past <= x.today * x.pastDays * y.past

\* A term that spikes goes on spiking for the rest of the day, as its alerts go or stay, so
\* that its hint is given again to each sweep of the day, however late the
\* queue can be written.
SpikesStandForTheDay ==
    [][today' = today => \A h \in HintsOf(spikes) : \E g \in HintsOf(spikes') :
                            g.place = h.place /\ h.terms \subseteq g.terms]_trendVars

\* A spike is a term that more alerts mention (trends.go:205, "current-day count
\* significantly exceeds their rolling average"): not one alert, seen again by each sweep.
SpikesAreMentions ==
    \A r \in spikes : Cardinality({a \in Alerts : r[1] \in Facts[a].terms /\ Facts[a].place = r[2]
                                                 /\ seen[today][a] > 0}) >= MinCount
=============================================================================
