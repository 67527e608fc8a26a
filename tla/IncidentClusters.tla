--------------------------- MODULE IncidentClusters ---------------------------
(***************************************************************************)
(* How the collector bundles active alerts into incidents: pairs of alerts   *)
(* that share something, close enough in time, are united in a union-find    *)
(* forest; each tree with two alerts or more is an incident, named after     *)
(* its earliest alert; then duplicates across sources are taken out of the   *)
(* feed, and the incidents replace those of the last sweep.                  *)
(*                                                                          *)
(* A later sweep may find another title, category or country under the id of *)
(* an alert, so Alerts are the editions of alerts, numbered in the order of   *)
(* their ids; of each, what the pure extractors read from it is given: its    *)
(* fingerprint (words and entities), CVEs, actors, the one actor that the     *)
(* sanctions look for, malware indicators and sectors.                       *)
(***************************************************************************)
EXTENDS Naturals, FiniteSets, Sequences, SequencesExt, FiniteSetsExt

CONSTANTS Alerts, Facts,  \* editions of alerts, and of each its alert and what is extracted from it
          KnownActors,    \* canonical names of the alias file
          MaxSweeps       \* bound

ASSUME IncidentsTyped == /\ Alerts \subseteq Nat /\ IsFiniteSet(Alerts) /\ MaxSweeps \in Nat
                         /\ DOMAIN Facts = Alerts
                         /\ \A a \in Alerts : {Facts[a].id, Facts[a].time, Facts[a].score} \subseteq Nat
                         /\ \A a, b \in Alerts : a < b => Facts[a].id <= Facts[b].id

VARIABLES active,    \* the alerts of the sweep that are in force, each in its edition
          parent,    \* alertUnion
          reasons,   \* reasonsByAlert
          todo,      \* the pairs not united yet, with what they share
          feed,      \* what is written to the alerts file
          incidents, \* the table osint_incidents
          at, sweeps
incidentVars == <<active, parent, reasons, todo, feed, incidents, at, sweeps>>

IncidentsInit == /\ active = {} /\ parent = [a \in Alerts |-> a] /\ reasons = [a \in Alerts |-> {}]
                 /\ todo = {} /\ feed = {} /\ incidents = {} /\ at = "rest" /\ sweeps = 0

-----------------------------------------------------------------------------
\* A fingerprint of fewer than three words says nothing.
Usable == {a \in active : Cardinality(Facts[a].tokens) >= 3}

HoursApart(a, b) == IF Facts[a].time > Facts[b].time THEN Facts[a].time - Facts[b].time ELSE Facts[b].time - Facts[a].time
\* jaccardSimilarity, in hundredths, at least.
Similar(a, b, hundredths) ==
    100 * Cardinality(Facts[a].tokens \cap Facts[b].tokens) >= hundredths * Cardinality(Facts[a].tokens \cup Facts[b].tokens)
OtherSource(a, b) == Facts[a].source # Facts[b].source
Together(f, a, b) == Facts[a][f] \cap Facts[b][f]

\* The same event, in other words and by another source: 0.65 within a day.
SameEvent(a, b) == HoursApart(a, b) <= 24 /\ OtherSource(a, b) /\ Similar(a, b, 65)

\* The pair scan, over alerts in the order of their times.
JaccardPairs == {<<p[1], p[2], "jaccard", "">> : p \in {q \in Usable \X Usable : q[1] < q[2] /\ SameEvent(q[1], q[2])}}

\* forBucketPairs: alerts that have a key, close enough in time.
BucketPairs(f, hours, Link(_, _)) ==
    UNION {{<<p[1], p[2], f, k>> : k \in Together(f, p[1], p[2])} :
              p \in {q \in Usable \X Usable : q[1] < q[2] /\ HoursApart(q[1], q[2]) <= hours /\ Link(q[1], q[2])}}

CVEPairs == BucketPairs("cves", 14 * 24, OtherSource)

\* shouldEntityLink.
EntityCategory(c) == c \in {"terrorism_tip", "conflict_monitoring", "cyber_advisory", "maritime_security"}
ShouldEntityLink(a, b) ==
    /\ EntityCategory(Facts[a].category) \/ EntityCategory(Facts[b].category)
    /\ Facts[a].category = Facts[b].category \/ Together("actors", a, b) \cap KnownActors # {}
ActorPairs == BucketPairs("actors", 7 * 24, ShouldEntityLink)

\* shouldCountryLink; countryLinkCategory leaves out a few categories.
CountryCategory(c) == c \notin {"vulnerability", "other"}
ShouldCountryLink(a, b) ==
    /\ OtherSource(a, b) /\ CountryCategory(Facts[a].category) /\ Facts[a].category = Facts[b].category
    /\ Similar(a, b, 35) \/ Together("actors", a, b) # {} \/ Together("cves", a, b) # {}
CountryPairs == BucketPairs("country", 7 * 24, ShouldCountryLink)

\* shouldMalwareLink: a feed of indicators is one side, or the indicator is a hash.
ShouldMalwareLink(a, b) ==
    /\ Facts[a].category = "cyber_advisory" /\ Facts[b].category = "cyber_advisory" /\ OtherSource(a, b)
    /\ \/ Facts[a].source \in {"urlhaus", "feodo"} \/ Facts[b].source \in {"urlhaus", "feodo"}
       \/ "hash" \in Together("malware", a, b)
MalwarePairs == BucketPairs("malware", 14 * 24, ShouldMalwareLink)

ShouldSectorLink(a, b) == Facts[a].category = "cyber_advisory" /\ Facts[b].category = "cyber_advisory" /\ OtherSource(a, b)
SectorPairs == BucketPairs("sectors", 7 * 24, ShouldSectorLink)

\* A sanctions list and a tip that name the same actor, by MatchActorInText.
Sanctioned(a, b) == Facts[a].source = "sanctions" /\ Facts[b].category = "terrorism_tip" /\ OtherSource(a, b)
SanctionPairs == BucketPairs("named", 7 * 24, LAMBDA a, b : Sanctioned(a, b) \/ Sanctioned(b, a))

Pairs == JaccardPairs \cup CVEPairs \cup ActorPairs \cup CountryPairs \cup MalwarePairs \cup SectorPairs \cup SanctionPairs

-----------------------------------------------------------------------------
\* find: the root, to which the whole way then points.
Way(p, a) == LET way[x \in Alerts] == IF p[x] = x THEN {x} ELSE {x} \cup way[p[x]] IN way[a]
Root(p, a) == CHOOSE r \in Way(p, a) : p[r] = r
Found(p, a) == [x \in Alerts |-> IF x \in Way(p, a) THEN Root(p, a) ELSE p[x]]

\* Mutant of Union: the alerts are joined and not their roots.
UnionOfLeaves(p, a, b) == [p EXCEPT ![b] = a]

Union(p, a, b) ==
    LET q  == Found(Found(p, a), b)
        ra == Root(p, a)
        rb == Root(p, b)
    IN  IF ra < rb THEN [q EXCEPT ![rb] = ra] ELSE IF rb < ra THEN [q EXCEPT ![ra] = rb] ELSE q

\* The forest and the reasons are the sweep's own.
Forgotten == parent' = [a \in Alerts |-> a] /\ reasons' = [a \in Alerts |-> {}]

AlertId(a) == Facts[a].id
OneEdition(as) == \A a, b \in as : AlertId(a) = AlertId(b) => a = b

\* A sweep begins with any alerts in force: old ones have gone, new ones come, also
\* ones that were published before those that are known, and some in another edition.
Sweep == /\ at = "rest" /\ sweeps < MaxSweeps /\ sweeps' = sweeps + 1
         /\ \E now \in (SUBSET Alerts) \ {{}} : OneEdition(now) /\ active' = now
         /\ Forgotten
         /\ todo' = Pairs' /\ at' = "link"
         /\ UNCHANGED <<feed, incidents>>

\* addReason.  The buckets are Go maps, so the keys come in any order.
AddReason == /\ at = "link"
             /\ \E t \in todo :
                   /\ parent' = Union(parent, t[1], t[2])
                   /\ reasons' = [reasons EXCEPT ![t[1]] = @ \cup {<<t[3], t[4]>>}, ![t[2]] = @ \cup {<<t[3], t[4]>>}]
                   /\ todo' = todo \ {t}
             /\ UNCHANGED <<active, feed, incidents, at, sweeps>>

Groups == {{a \in Usable : Root(parent, a) = r} : r \in {Root(parent, a) : a \in Usable}}
Sources(ms) == {Facts[a].source : a \in ms}

\* BuildRelationAnchors: what authoritative feeds of the batch say.
Anchors == {<<"kev", c>> : c \in UNION {Facts[a].cves : a \in {b \in active : Facts[b].source = "kev"}}}
      \cup {<<"sanctioned", n>> : n \in UNION {Facts[a].named : a \in {b \in active : Facts[b].source = "sanctions"}}}
      \cup {<<"known_actor", n>> : n \in KnownActors}
\* ApplyAnchorCorroboration, of an incident's CVEs and actors.
Corroboration(ms) ==
    LET says == UNION {Facts[a].cves \cup Facts[a].actors : a \in ms} IN {x \in Anchors : x[2] \in says}

\* addClusterGeographyReasons.
Geography(ms) ==
    LET countries == UNION {Facts[a].country : a \in ms}
    IN  IF Cardinality(Sources(ms)) < 2 \/ countries = {} THEN {}
        ELSE IF Cardinality(countries) = 1 THEN {<<"country", CHOOSE c \in countries : TRUE>>}
        ELSE {<<"spread", "">>}

Before(a, b)  == Facts[a].time < Facts[b].time \/ (Facts[a].time = Facts[b].time /\ a < b)
\* clusterAnchorID.
Anchor(ms)    == CHOOSE a \in ms : \A b \in ms \ {a} : Before(a, b)
\* pickPrimaryAlert: the best score, of those the first seen.
Primary(ms)   == CHOOSE a \in ms : \A b \in ms \ {a} :
                    Facts[a].score > Facts[b].score \/ (Facts[a].score = Facts[b].score /\ Before(a, b))
\* maxMemberSeverity.
Severest(ms)  == Max({Facts[a].severity : a \in ms})
Incident(ms)  == [id |-> AlertId(Anchor(ms)), members |-> ms, primary |-> Primary(ms), severity |-> Severest(ms),
                  sources |-> Cardinality(Sources(ms)),
                  reasons |-> (UNION {reasons[a] : a \in ms}) \cup Geography(ms) \cup Corroboration(ms)]
Bundles == {Incident(ms) : ms \in {g \in Groups : Cardinality(g) >= 2}}

-----------------------------------------------------------------------------
\* crossSourceDedup: oldest first, each joins the first cluster whose first alert it is
\* like and that has no alert of its source.
Clusters ==
    LET inOrder == SetToSortSeq(Usable, Before)
        Joins(c, a) == /\ HoursApart(Head(c), a) <= 24 /\ Similar(Head(c), a, 65)
                       /\ \A i \in DOMAIN c : OtherSource(c[i], a)
        Add(cs, a) == IF \E i \in DOMAIN cs : Joins(cs[i], a)
                      THEN [cs EXCEPT ![Min({i \in DOMAIN cs : Joins(cs[i], a)})] = Append(@, a)]
                      ELSE Append(cs, <<a>>)
    IN  ToSet(FoldLeft(Add, <<>>, inOrder))

\* Mutant of IncidentMembers: bundles are collapsed as well.
NoMembers(c) == {}

\* incidentClusterMembers: the alerts of the one incident a cluster belongs to.
IncidentMembers(c) ==
    LET linked == {i \in Bundles : i.members \cap ToSet(c) # {}}
    IN  IF Len(c) < 2 \/ Cardinality(linked) # 1 THEN {} ELSE (UNION {i.members : i \in linked}) \cap ToSet(c)
Kept(c) == IF Len(c) = 1 THEN ToSet(c)
           ELSE IF Cardinality(IncidentMembers(c)) >= 2 THEN IncidentMembers(c)
           ELSE {Primary(ToSet(c))}

\* FinalizeActiveAlerts, and output.Write.
Finalize == /\ at = "link" /\ todo = {} /\ at' = "save"
            /\ feed' = (active \ Usable) \cup UNION {Kept(c) : c \in Clusters}
            /\ UNCHANGED <<active, parent, reasons, todo, incidents, sweeps>>

\* Mutant of SaveIncidents: the table is not cleared first.
SaveOverOld == /\ at = "save" /\ at' = "rest"
               /\ incidents' = Bundles \cup {i \in incidents : \A b \in Bundles : b.id # i.id}
               /\ Forgotten /\ UNCHANGED <<active, todo, feed, sweeps>>

\* SaveOSINTIncidents, in one transaction; if it fails there is a warning.
SaveIncidents == /\ at = "save" /\ at' = "rest" /\ incidents' = Bundles
                 /\ Forgotten /\ UNCHANGED <<active, todo, feed, sweeps>>
SaveFails     == /\ at = "save" /\ at' = "rest"
                 /\ Forgotten /\ UNCHANGED <<active, todo, feed, incidents, sweeps>>

-----------------------------------------------------------------------------
\* Whatever order the maps give the pairs in, the trees of the forest are the connected
\* components of the alerts under the pairs: two alerts are in one incident
\* exactly if a chain of pairs leads from one to the other.
ClustersAreComponents ==
    at = "save" =>
      LET linked  == {{t[1], t[2]} : t \in Pairs}
          step(s) == s \cup {b \in Usable : \E a \in s : {a, b} \in linked}
          reach[n \in 0 .. Cardinality(Alerts)] == [a \in Usable |-> IF n = 0 THEN {a} ELSE step(reach[n - 1][a])]
      IN  Groups = {reach[Cardinality(Alerts)][a] : a \in Usable}

\* What the dedup takes for one event the incidents have linked by the same measure
\* before, and it keeps what is linked: no alert leaves the feed, and every
\* alert of an incident that is saved with it is in it.
NothingSuppressed == at = "save" => feed = active

\* The earliest alert names the incident "so the incident ID survives new members joining
\* the cluster" (incidents.go:568).
IncidentIdSurvives ==
    [][\A i \in incidents, j \in incidents' : {AlertId(a) : a \in i.members} \subseteq {AlertId(a) : a \in j.members} => i.id = j.id]_incidentVars
=============================================================================
