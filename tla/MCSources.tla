------------------------------ MODULE MCSources ------------------------------
(***************************************************************************)
(* The ways by which records enter a sweep, each with its own state: the     *)
(* Kafka connector, the fetches of one source of each kind, and the backfill *)
(* of Interpol's notices.  A behaviour is one of them; the others rest.      *)
(***************************************************************************)
EXTENDS KafkaConnector, FeedFetch, InterpolBackfill

VARIABLE part

\* Two partitions; records that are dropped lie between those that map.
MCScript == ("p1" :> <<"a", "dropped", "a", "b">>) @@ ("p2" :> <<"b", "dropped">>)
MCConnectors == {[test |-> FALSE, flaws |-> 1, deaths |-> 1], [test |-> TRUE, flaws |-> 0, deaths |-> 0]}

\* Items that the filters tell apart, and documents of one and two pages.
Item(date, words, topical, gate, makes) ==
    [date |-> date, words |-> words, topical |-> topical, gate |-> gate, makes |-> makes]
MCTrait == ("old" :> Item(1, {"port"}, TRUE, "keep", Conversions))
        @@ ("new" :> Item(3, {"port", "sport", "wanted"}, TRUE, "downgrade", Conversions))
        @@ ("sport" :> Item(4, {"port", "sport"}, TRUE, "keep", Conversions))
        @@ ("bare" :> Item(2, {"port"}, TRUE, "keep", {"html"}))
        @@ ("undated" :> Item(0, {"port"}, FALSE, "keep", Conversions))
        @@ ("noise" :> Item(5, {"port"}, TRUE, "drop", Conversions))
MCItems == DOMAIN MCTrait
MCSetup == [include |-> {"port"}, exclude |-> {"race"}, stop |-> {"sport"},
            maxItems |-> 2, window |-> 20, browser |-> TRUE, credentials |-> {"acled"}]
MCContents == {<<>>, <<"old", "new">>, <<"bare", "old", "sport", "new">>,
               <<"undated", "noise", "old", "new">>, <<"noise", "sport">>}

MCVars == <<part, kafkaVars, fetchVars, backfillVars>>
MCInit == /\ part \in {"kafka", "fetch", "backfill"}
          /\ IF part = "kafka" THEN KafkaInit
             ELSE KafkaInit /\ connector = CHOOSE c \in MCConnectors : TRUE
          /\ IF part = "fetch" THEN FetchInit
             ELSE FetchInit /\ kind = "list" /\ site.doc = <<>>
          /\ IF part = "backfill" THEN BackfillInit
             ELSE BackfillInit /\ limit = Max(Limits) /\ published = 0
MCNext == \/ part = "kafka" /\ KafkaNext /\ UNCHANGED <<part, fetchVars, backfillVars>>
          \/ part = "fetch" /\ FetchNext /\ UNCHANGED <<part, kafkaVars, backfillVars>>
          \/ part = "backfill" /\ BackfillNext /\ UNCHANGED <<part, kafkaVars, fetchVars>>
MCSpec == /\ MCInit /\ [][MCNext]_MCVars
          /\ WF_MCVars(part = "kafka" /\ Sweep /\ UNCHANGED <<part, fetchVars, backfillVars>>)
          /\ \A p \in Partitions :
                SF_MCVars(part = "kafka" /\ Reach(p) /\ UNCHANGED <<part, fetchVars, backfillVars>>)
          /\ WF_MCVars(part = "backfill" /\ Reads /\ UNCHANGED <<part, kafkaVars, fetchVars>>)

\* A Kafka record that maps to an alert is taken in the end once its group has
\* an offset, past all records that are dropped: of the behaviours of the
\* connector (collectKafkaAlerts).
KafkaDrains == part = "kafka" => GoodIsTaken

\* A notice that stays listed is handed over, or cut off by a limit within a page,
\* in the end, of the behaviours of the backfill (fetchInterpol).
NoticesDrain == part = "backfill" => BackfillReachesAll

\* run.go:1678, "Resume from cursor to backfill older pages.": a notice that stays
\* listed is handed over in the end, of the behaviours of the backfill.
OlderNoticesCome == part = "backfill" => BackfillHandsOver
=============================================================================
