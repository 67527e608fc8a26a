-------------------------------- MODULE MCFeed --------------------------------
\* The parts of the collector's feed and API that share no state, one at a time.
EXTENDS TermTrends, AlertSearch, RateLimiter, TLC

VARIABLE part
feedVars == <<trendVars, searchVars, limiterVars, part>>

FeedInit == TrendsInit /\ SearchInit /\ LimiterInit
            /\ part \in {"trends", "search", "limiter"} /\ (part # "search" => table = Nothing)
FeedNext == /\ UNCHANGED part
            /\ \/ part = "trends"  /\ TrendsNext  /\ UNCHANGED <<searchVars, limiterVars>>
               \/ part = "search"  /\ SearchNext  /\ UNCHANGED <<trendVars, limiterVars>>
               \/ part = "limiter" /\ LimiterNext /\ UNCHANGED <<trendVars, searchVars>>
FeedSpec == FeedInit /\ [][FeedNext]_feedVars

-----------------------------------------------------------------------------
\* 1 and 2 share a term and a country in two categories; 3 is noise.
MCPlaces == {<<"cyber", "r">>, <<"crime", "r">>}
MCFacts == <<[terms |-> {"x", "y"}, place |-> <<"cyber", "r">>, country |-> "c", trust |-> 2, noise |-> FALSE],
             [terms |-> {"y"},      place |-> <<"crime", "r">>, country |-> "c", trust |-> 1, noise |-> FALSE],
             [terms |-> {"x", "y"}, place |-> <<"cyber", "r">>, country |-> "c", trust |-> 1, noise |-> TRUE]>>

Trait(category, region, severity, lane, rank, newness) ==
    [category |-> category, region |-> region, severity |-> severity, lane |-> lane, triage |-> <<>>, tags |-> {region},
     official |-> FALSE, local |-> FALSE, weak |-> FALSE, legacy |-> FALSE, rank |-> rank, seen |-> newness, trust |-> 1]
\* The title of the first changes; the second is of local police, saved without a lane; the third is
\* weak, without a lane and of a source that is named like a title, and may be there as `removed` from before.
MCTraits == <<Trait("cyber_advisory", "r", "medium", "alarm", 2, 1),
              [Trait("cyber_advisory", "r", "high", "", 1, 2) EXCEPT !.local = TRUE, !.official = TRUE, !.trust = 2],
              [Trait("public_safety", "s", "medium", "", 3, 3)
                  EXCEPT !.weak = TRUE, !.legacy = TRUE, !.triage = <<60>>, !.tags = {"s", "portal"}]>>
MCTitles == <<{{"port"}, {"mine"}}, {{"port"}}, {{"portal", "mine"}}>>
MCBegins == ("port" :> {"port", "portal"}) @@ ("mine" :> {"mine"})
=============================================================================
