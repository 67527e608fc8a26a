------------------------------ MODULE MCBriefings ------------------------------
(***************************************************************************)
(* What the zone briefings are made of, each with its own state: the cached  *)
(* reads of the datasets, the runs that write the files beside the requests  *)
(* for narratives, and the terror assessments.  A behaviour is one of them;  *)
(* the others rest.                                                          *)
(***************************************************************************)
EXTENDS DatasetCache, ZoneBriefings, TerrorAnalysis, TLC

VARIABLE part

\* A warning that is no signal, a tip that is material, and a report that is not;
\* there is room for one of the two.
MCSignal(category, authority, actor, country, cluster, severity) ==
    [category |-> category, authority |-> authority, event |-> "bombing", actor |-> actor, keyword |-> actor,
     country |-> country, cluster |-> cluster, severity |-> severity, sources |-> 1, alarm |-> FALSE]
MCSeen == ("warning" :> MCSignal("travel_warning", "police", TRUE, "ML", "k1", 5))
       @@ ("tip"     :> MCSignal("terrorism_tip", "police", FALSE, "ML", "k1", 4))
       @@ ("report"  :> MCSignal("public_safety", "media", TRUE, "NE", "k2", 2))

MCVars == <<part, cacheVars, briefingVars, terrorVars>>
MCInit == /\ part \in {"datasets", "briefings", "terror"}
          /\ IF part = "datasets" THEN CacheInit
             ELSE CacheInit /\ served = <<>> /\ dataset = CHOOSE d \in Datasets : TRUE
          /\ IF part = "briefings" THEN BriefingsInit ELSE BriefingsInit /\ fighting = {}
          /\ TerrorInit
MCNext == \/ part = "datasets" /\ CacheNext /\ UNCHANGED <<part, briefingVars, terrorVars>>
          \/ part = "briefings" /\ BriefingsNext /\ UNCHANGED <<part, cacheVars, terrorVars>>
          \/ part = "terror" /\ TerrorNext /\ UNCHANGED <<part, cacheVars, briefingVars>>
MCSpec == /\ MCInit /\ [][MCNext]_MCVars
          /\ WF_MCVars(part = "datasets" /\ Reading /\ UNCHANGED <<part, briefingVars, terrorVars>>)

\* run.go:4160, "Pull full history so analyst metrics can include absolute totals.":
\* once the service rests and answers, sweeps come to have the whole dataset,
\* of the behaviours of the dataset cache.
DatasetIsFull == part = "datasets" => HistoryIsFull
=============================================================================
