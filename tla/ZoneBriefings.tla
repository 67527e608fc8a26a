----------------------------- MODULE ZoneBriefings -----------------------------
(***************************************************************************)
(* The zone briefings: writeZoneBriefings of the collector, which runs at    *)
(* the start of a sweep with 20 seconds to live and again at its end, and    *)
(* the request for one narrative in the collector's API, which runs at any   *)
(* time beside it.  They share the table zone_brief_llm and the file         *)
(* ucdp-conflict-stats.json, and neither locks the other out.                *)
(*                                                                          *)
(* A conflict is its country, of which the index keeps one.  A file is what  *)
(* of it the next run, the request or the web looks at.  The datasets come   *)
(* from DatasetCache's reads: here they come, or fail, or end early.         *)
(***************************************************************************)
EXTENDS Naturals, FiniteSets

CONSTANTS Countries,
          RefreshDays, Week,   \* ZONE_BRIEFING_REFRESH_HOURS; 7 days
          MaxDays, MaxTrouble, MaxRequests  \* bounds

Stages == {"rest", "conflicts", "emptied", "events", "briefings", "current", "narratives", "zones", "overlays"}
ASSUME BriefingsTyped == /\ {RefreshDays, Week, MaxDays} \subseteq Nat \ {0}
                         /\ {MaxTrouble, MaxRequests} \subseteq Nat
                         /\ Countries \cap Stages = {}  \* run.at names a country while its narrative is asked for

VARIABLES today,
          token,      \* whether the process was started with an access token of the datasets
          fighting,   \* external: the countries with a conflict of the latest year that has not ended
          briefings,  \* zone-briefings.json: when it was written, and of what
          current,    \* ucdp-current-conflicts.json
          stats,      \* ucdp-conflict-stats.json: a row for each of its conflicts
          overview,   \* geo/conflict-zones.geojson: the lenses of its features
          narratives, \* zone_brief_llm
          run,        \* the collector's run
          request,    \* the API's
          trouble, requests
briefingVars == <<today, token, fighting, briefings, current, stats, overview, narratives, run, request, trouble, requests>>

\* A day of 0 is an empty analysis, or a file without records.
Unwritten    == [history |-> FALSE, analysis |-> 0]
Rest         == [at |-> "rest", early |-> TRUE, cut |-> FALSE, read |-> "none", index |-> {}, cutEvents |-> FALSE,
                 todo |-> {}, row |-> Unwritten, told |-> [c \in Countries |-> Unwritten]]
NoRequest    == [at |-> "none", country |-> "", rows |-> <<>>, row |-> Unwritten]

\* ensureZoneBriefingArtifacts: each file that is not there, empty.
BriefingsInit ==
    /\ today = 1 /\ token \in BOOLEAN /\ fighting \in SUBSET Countries
    /\ briefings = [day |-> 0, cut |-> FALSE]
    /\ current = {} /\ stats = <<>> /\ overview = "empty"
    /\ narratives = [c \in Countries |-> Unwritten]
    /\ run = Rest /\ request = NoRequest /\ trouble = 0 /\ requests = 0

Trouble == trouble < MaxTrouble /\ trouble' = trouble + 1
Day     == /\ today < MaxDays /\ today' = today + 1
           /\ UNCHANGED <<token, fighting, briefings, current, stats, overview, narratives, run, request, trouble, requests>>
\* External: another dataset, between two sweeps.
War     == /\ Trouble /\ run = Rest
           /\ \E f \in SUBSET Countries : f # fighting /\ fighting' = f
           /\ UNCHANGED <<today, token, briefings, current, stats, overview, narratives, run, request, requests>>

-----------------------------------------------------------------------------
\* needsHistorical, needsAnalysis: the history is asked for once, the analysis
\* when it is a week old.
OldAnalysis(n)    == n.analysis = 0 \/ today - n.analysis >= Week
NeedsNarrative(n) == ~n.history \/ OldAnalysis(n)

\* conflictStatsNeedsLLMRefresh.
StatsNeedRefresh == stats = <<>> \/ \E c \in DOMAIN stats : NeedsNarrative(stats[c])

\* conflictZonesNeedsDynamicRefresh.
ZonesNeedRefresh  == overview = "lenses" \/ (overview = "empty" /\ current # {})

\* The staleness check; the terror analysis may want a run for its own sake.
Fresh == /\ briefings.day # 0 /\ today - briefings.day < RefreshDays
         /\ ~StatsNeedRefresh /\ ~ZonesNeedRefresh

Skip  == /\ run.at = "rest" /\ Fresh
         /\ run' = [Rest EXCEPT !.early = ~run.early]
         /\ UNCHANGED <<today, token, fighting, briefings, current, stats, overview, narratives, request, trouble, requests>>
Start == /\ run.at = "rest"
         /\ run' = [run EXCEPT !.at = "conflicts"]
         /\ UNCHANGED <<today, token, fighting, briefings, current, stats, overview, narratives, request, trouble, requests>>

\* The 20 seconds of the early run are up: no request and no transaction of
\* it succeeds any more, but its files are written.
Cut   == /\ run.at \notin {"rest"} /\ run.early /\ ~run.cut /\ Trouble
         /\ run' = [run EXCEPT !.cut = TRUE]
         /\ UNCHANGED <<today, token, fighting, briefings, current, stats, overview, narratives, request, requests>>

\* buildCurrentConflictIndex over what the dataset's pages brought, and what is
\* kept of the file when they brought nothing.
Indexed(found, failed) == IF failed /\ found = {} THEN current ELSE found

\* fetchUCDPConflictsCached: all of the dataset; or some pages of it, when a later one does not
\* come, which is no error, and those may have no conflict that goes on; or an error.
Conflicts ==
    /\ run.at = "conflicts" /\ token
    /\ \/ ~run.cut /\ run' = [run EXCEPT !.at = "events", !.read = "all", !.index = Indexed(fighting, FALSE)]
             /\ UNCHANGED trouble
       \/ /\ (run.cut /\ UNCHANGED trouble) \/ Trouble
          /\ \/ \E some \in SUBSET fighting :
                    run' = [run EXCEPT !.at = "events", !.read = "some", !.index = Indexed(some, FALSE)]
             \/ run' = [run EXCEPT !.at = "events", !.read = "none", !.index = Indexed({}, TRUE)]
    /\ UNCHANGED <<today, token, fighting, briefings, current, stats, overview, narratives, request, requests>>

\* Without a token the run empties the briefings and then the conflicts, and ends.
EmptyBriefings ==
    /\ run.at = "conflicts" /\ ~token
    /\ briefings' = [day |-> 0, cut |-> FALSE]
    /\ run' = [run EXCEPT !.at = "emptied"]
    /\ UNCHANGED <<today, token, fighting, current, stats, overview, narratives, request, trouble, requests>>
EmptyCurrent ==
    /\ run.at = "emptied"
    /\ current' = {}
    /\ run' = [Rest EXCEPT !.early = ~run.early]
    /\ UNCHANGED <<today, token, fighting, briefings, stats, overview, narratives, request, trouble, requests>>

\* The events of the lenses: lenses that cannot be fetched are left out.
Events ==
    /\ run.at = "events"
    /\ run' = [run EXCEPT !.at = "briefings", !.cutEvents = run.cut]
    /\ UNCHANGED <<today, token, fighting, briefings, current, stats, overview, narratives, request, trouble, requests>>
WriteBriefings ==
    /\ run.at = "briefings"
    /\ briefings' = [day |-> today, cut |-> run.cutEvents]
    /\ run' = [run EXCEPT !.at = "current"]
    /\ UNCHANGED <<today, token, fighting, current, stats, overview, narratives, request, trouble, requests>>
WriteCurrent ==
    /\ run.at = "current"
    /\ current' = run.index
    /\ run' = [run EXCEPT !.at = "narratives", !.todo = run.index]
    /\ UNCHANGED <<today, token, fighting, briefings, stats, overview, narratives, request, trouble, requests>>

-----------------------------------------------------------------------------
\* What the model makes of a narrative that needs one: either text may fail.
Asked(n) == {m \in [history : BOOLEAN, analysis : {n.analysis, today}] :
                /\ n.history => m.history
                /\ ~OldAnalysis(n) => m.analysis = n.analysis}

\* Mutant of Saved: the row is written as it is.
SavedAsItIs(old, new) == new

\* UpsertZoneBriefLLM: an empty text does not replace one.
Saved(old, new) == [history  |-> new.history \/ old.history,
                    analysis |-> IF new.analysis # 0 THEN new.analysis ELSE old.analysis]

\* ensureZoneBriefLLMSummary, for one conflict: the row, the requests, the row again.
Tell(c, n) == [run EXCEPT !.at = "narratives", !.todo = @ \ {c}, !.told[c] = n]
ReadNarrative ==
    /\ run.at = "narratives" /\ ~run.cut
    /\ \E c \in run.todo :
          IF NeedsNarrative(narratives[c])
          THEN run' = [run EXCEPT !.at = c, !.row = narratives[c]]
          ELSE run' = Tell(c, narratives[c])
    /\ UNCHANGED <<today, token, fighting, briefings, current, stats, overview, narratives, request, trouble, requests>>
SaveNarrative ==
    /\ run.at \in Countries /\ ~run.cut
    /\ \E n \in Asked(run.row) :
          /\ narratives' = [narratives EXCEPT ![run.at] = Saved(@, n)]
          /\ run' = Tell(run.at, n)
    /\ UNCHANGED <<today, token, fighting, briefings, current, stats, overview, request, trouble, requests>>
\* After the cut no row can be read or written, and the country goes without.
Untold ==
    /\ run.cut /\ run.at \in Countries \cup {"narratives"} /\ run.todo # {}
    /\ run' = [run EXCEPT !.at = "narratives", !.todo = {}]
    /\ UNCHANGED <<today, token, fighting, briefings, current, stats, overview, narratives, request, trouble, requests>>

\* buildCurrentConflictStats; whole: with the countries, the lenses, the overlay
\* codes and the rest that the web's type has.
WriteStats ==
    /\ run.at = "narratives" /\ run.todo = {}
    /\ stats' = [c \in run.index |-> [history |-> run.told[c].history, analysis |-> run.told[c].analysis, whole |-> TRUE]]
    /\ run' = [run EXCEPT !.at = "zones"]
    /\ UNCHANGED <<today, token, fighting, briefings, current, overview, narratives, request, trouble, requests>>

\* BuildConflictZonesGeoJSON, of the six lenses, and over it, once more, what
\* buildDynamicConflictOverlays has of the current conflicts.
WriteZones ==
    /\ run.at = "zones" /\ overview' = "lenses"
    /\ run' = [run EXCEPT !.at = "overlays"]
    /\ UNCHANGED <<today, token, fighting, briefings, current, stats, narratives, request, trouble, requests>>
WriteOverlays ==
    /\ run.at = "overlays"
    /\ overview' = IF run.index # {} THEN "conflicts" ELSE overview
    /\ run' = [Rest EXCEPT !.early = ~run.early]
    /\ UNCHANGED <<today, token, fighting, briefings, current, stats, narratives, request, trouble, requests>>

-----------------------------------------------------------------------------
\* handleZoneBriefLLM: the file, the row of the country, the requests; an answer
\* that fails ends it, and an answer before that is lost.
Request ==
    /\ request.at = "none" /\ requests < MaxRequests /\ requests' = requests + 1
    /\ \E c \in DOMAIN stats :
          request' = [at |-> IF NeedsNarrative(narratives[c]) THEN "asking" ELSE "told",
                      country |-> c, rows |-> stats, row |-> narratives[c]]
    /\ UNCHANGED <<today, token, fighting, briefings, current, stats, overview, narratives, run, trouble>>
AnswerRequest ==
    /\ request.at = "asking"
    /\ \E n \in Asked(request.row) :
          /\ narratives' = [narratives EXCEPT ![request.country] = Saved(@, n)]
          /\ request' = [request EXCEPT !.at = "told", !.row = n]
    /\ UNCHANGED <<today, token, fighting, briefings, current, stats, overview, run, trouble, requests>>
RequestFails ==
    /\ request.at = "asking" /\ Trouble /\ request' = NoRequest
    /\ UNCHANGED <<today, token, fighting, briefings, current, stats, overview, narratives, run, requests>>
\* writeConflictStatsArtifact: the rows that were read, as conflictStatRow has them.
WriteAnswer ==
    /\ request.at = "told"
    /\ stats' = [c \in DOMAIN request.rows |->
                    IF c = request.country
                    THEN [history |-> request.row.history, analysis |-> request.row.analysis, whole |-> FALSE]
                    ELSE [request.rows[c] EXCEPT !.whole = FALSE]]
    /\ request' = NoRequest
    /\ UNCHANGED <<today, token, fighting, briefings, current, overview, narratives, run, trouble, requests>>

\* The collector dies with its API and starts again, with a token or without; RESET_ZONE_BRIEF_LLM
\* empties the table and then the texts in the file.
Restart == /\ Trouble /\ run' = Rest /\ request' = NoRequest /\ token' \in BOOLEAN
           /\ UNCHANGED <<today, fighting, briefings, current, overview, requests>>
Death   == Restart /\ (run # Rest \/ request # NoRequest) /\ UNCHANGED <<stats, narratives>>
Reset   == /\ Restart /\ narratives' = [c \in Countries |-> Unwritten]
           /\ stats' = [c \in DOMAIN stats |-> [stats[c] EXCEPT !.history = FALSE, !.analysis = 0]]

Running == \/ Skip \/ Start \/ Conflicts \/ EmptyBriefings \/ EmptyCurrent \/ Events \/ WriteBriefings \/ WriteCurrent \/ ReadNarrative
           \/ SaveNarrative \/ Untold \/ WriteStats \/ WriteZones \/ WriteOverlays
Api     == Request \/ AnswerRequest \/ RequestFails \/ WriteAnswer
BriefingsNext == Day \/ War \/ Cut \/ Running \/ Api \/ Death \/ Reset
BriefingsSpec == BriefingsInit /\ [][BriefingsNext]_briefingVars

-----------------------------------------------------------------------------
\* run.go:2630-2633: the file of conflicts is kept over a read that failed, whatever comes between
\* the read and the write: a run with a token that got nothing, or all of the dataset, empties
\* it only if there is no conflict.
LastGoodIsKept ==
    [][current # {} /\ current' = {} => ~token \/ run.read = "some" \/ fighting = {}]_briefingVars

\* run.go:2631, "Preserve last-known-good overlays/index instead of wiping runtime files on
\* transient UCDP failures": no run empties the file of an earlier one although there are conflicts.
LastGoodIsAlwaysKept ==
    [][current # {} /\ current' = {} => ~token \/ fighting = {}]_briefingVars

\* zone_brief_llm.go:73-88: a text that is stored is never lost again, whichever of
\* the run and the request stores last and whose request has failed.
NarrativeIsKept ==
    [][~Reset => \A c \in Countries : /\ narratives[c].history => narratives'[c].history
                                      /\ narratives[c].analysis # 0 => narratives'[c].analysis # 0]_briefingVars

\* Briefings that an early run wrote without the events it had no time for do
\* not pass for fresh when the run is through, so the one at the end of the sweep
\* writes them again.  (A death before that, or a request that fills in the
\* narratives which the cut run could not read, makes them pass.)
CutIsMadeGood ==
    [][WriteOverlays /\ requests = 0 /\ briefings'.cut => ~Fresh']_briefingVars

\* src/types/conflict-stats.ts:31-37: the rows that the web reads have their lenses,
\* overlay codes and countries.
RowsAreWhole == \A c \in DOMAIN stats : stats[c].whole
=============================================================================
