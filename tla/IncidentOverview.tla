--------------------------- MODULE IncidentOverview ---------------------------
(***************************************************************************)
(* What the incidents API makes of a stored incident: it loads the rows of   *)
(* its alerts that are still there, one by one, and draws a timeline and a   *)
(* graph of alerts and of what they share.  What is shared was stored with    *)
(* the incident; which alert has it is read from the rows again.  A sweep     *)
(* saves the alerts well before the incidents, so in between, and after a     *)
(* save of incidents that failed, rows may have gone or be of another edition.*)
(***************************************************************************)
EXTENDS IncidentClusters

VARIABLES rows,   \* the table alerts: editions, one of an alert
          linked  \* history: no save of alerts since the incidents were saved
overviewVars == <<incidentVars, rows, linked>>

OverviewInit == IncidentsInit /\ rows = {} /\ linked = FALSE

\* saveAlertState comes before the linking of the same sweep and replaces the table, with
\* alerts that are no longer in force, or, as those of a source that left the registry, not.
SweepSaved ==
    /\ Sweep /\ linked' = FALSE
    /\ \E kept \in {rows, {}} : rows' = active' \cup {r \in kept : \A a \in active' : AlertId(a) # AlertId(r)}

SaveLinked == SaveIncidents /\ linked' = TRUE /\ UNCHANGED rows

OverviewNext == SweepSaved \/ SaveLinked \/ ((AddReason \/ Finalize \/ SaveFails) /\ UNCHANGED <<rows, linked>>)
OverviewSpec == OverviewInit /\ [][OverviewNext]_overviewVars

-----------------------------------------------------------------------------
\* GetOSINTIncident: the rows that the alerts of the incident have now.
Timeline(i) == {r \in rows : \E a \in i.members : AlertId(a) = AlertId(r)}

\* The countries of the summary and those of the rows: of the event, never of the publisher.
CountriesOf(as) == UNION {Facts[a].country : a \in as}

Kinds       == {"cves", "actors", "malware", "sectors"}
Stored(i)   == (UNION {{k} \X UNION {Facts[a][k] : a \in i.members} : k \in Kinds}) \cup ({"country"} \X CountriesOf(i.members))
Shared(i)   == Stored(i) \cup ({"country"} \X CountriesOf(Timeline(i)))
Evidence(r) == UNION {{k} \X Facts[r][k] : k \in Kinds \cup {"country"}}

\* Each alert to what its row has of what is shared, and the alerts to the primary.
Links(i)  == {l \in Timeline(i) \X Shared(i) : l[2] \in Evidence(l[1])}
Spokes(i) == {<<AlertId(r), AlertId(i.primary)>> : r \in {t \in Timeline(i) : AlertId(t) # AlertId(i.primary)}}

\* BuildIncidentOverview, as it is answered: nodes that are alerts, nodes that are shared, edges.
Overview(i) == [alerts |-> {AlertId(r) : r \in Timeline(i)}, shared |-> Shared(i),
                edges |-> {<<AlertId(l[1]), l[2]>> : l \in Links(i)}, spokes |-> Spokes(i)]

-----------------------------------------------------------------------------
\* The graph of an incident hangs together from the save of the incidents until alerts are saved
\* again, whatever was saved, lost or edited before: what is drawn as shared is drawn from an
\* alert of it, every alert but the primary is joined to the primary, and the primary is there.
HangsTogether(o, primary) ==
    /\ \A s \in o.shared : \E e \in o.edges : e[2] = s
    /\ \A e \in o.spokes : {e[1], e[2]} \subseteq o.alerts
    /\ \A a \in o.alerts : a = primary \/ <<a, primary>> \in o.spokes
OverviewHangsTogether == linked => \A i \in incidents : HangsTogether(Overview(i), AlertId(i.primary))

\* Without that premise: the window of a sweep, or a save of incidents that failed.
AlwaysHangsTogether == \A i \in incidents : HangsTogether(Overview(i), AlertId(i.primary))
=============================================================================
