----------------------------- MODULE MCCollector -----------------------------
(***************************************************************************)
(* Two plain feeds in the fast lane, one of them with two alerts, a          *)
(* versioned list in the api lane, and a page in the browser lane that       *)
(* carries its alerts forward and has one that is always filtered.  Outside  *)
(* the registry, the static entry and a topic that may bring two alerts.     *)
(***************************************************************************)
EXTENDS CollectorHistory

MCSources == {"rss", "news", "list", "page", "hub", "topic"}
MCAlerts  == {"a", "m", "n", "b", "p", "w", "h", "k", "l"}
MCOwner   == [a \in MCAlerts |->
                CASE a = "a" -> "rss" [] a \in {"m", "n"} -> "news"
                  [] a = "b" -> "list" [] a \in {"p", "w"} -> "page"
                  [] a = "h" -> "hub" [] a \in {"k", "l"} -> "topic"]
MCLane    == [s \in MCSources |->
                CASE s \in {"rss", "news", "hub", "topic"} -> "fast" [] s = "list" -> "api"
                  [] s = "page" -> "browser"]

Runs(roles, registry, until, edits, failing) ==
    [roles |-> roles, registry |-> registry, critical |-> {}, streams |-> {}, orphans |-> {},
     until |-> until, edits |-> edits, failures |-> failing]

With(d, critical, orphans) == [d EXCEPT !.critical = critical, !.orphans = orphans]
From(d, streams) == [d EXCEPT !.streams = streams]

MCDeployments ==
    {Runs({"all"}, {"rss", "list"}, 3, 0, 0),
     Runs({"all"}, {"rss", "list"}, 1, 0, 1),
     Runs({"all"}, {"rss", "page"}, 3, 0, 0),
     With(Runs({"all"}, {"news"}, 4, 1, 0), {"news"}, {"a"}),
     Runs({"all"}, {"news"}, 3, 1, 1),
     Runs({"all"}, {"list"}, 5, 1, 0),
     Runs({"all"}, {"list"}, 3, 1, 1),
     Runs({"all"}, {"page"}, 5, 1, 0),
     Runs({"all"}, {"page"}, 3, 0, 1),
     From(Runs({"all"}, {"page"}, 3, 0, 0), {"k", "l"}),
     With(Runs({"fast", "merge"}, {"rss"}, 2, 0, 0), {}, {"b"}),
     From(With(Runs({"fast", "merge"}, {"rss"}, 1, 0, 0), {}, {"b"}), {"k"})}

\* The questions about one source alone, and about what must happen.
MCLive == {Runs({"all"}, {"rss"}, 2, 0, 1), Runs({"all"}, {"rss"}, 1, 1, 1),
           Runs({"fast", "merge"}, {"rss"}, 1, 0, 1)}
MCList == {Runs({"all"}, {"list"}, 5, 0, 0)}
MCPage == {Runs({"all"}, {"page"}, 5, 0, 0)}
=============================================================================
