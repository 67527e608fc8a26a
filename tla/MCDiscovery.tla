----------------------------- MODULE MCDiscovery -----------------------------
(***************************************************************************)
(* Two sites.  `a` and `b` lead to one site, `c` to another whose authority  *)
(* has the id of a source the seed rejects; `d` is no name of an authority;  *)
(* `hint` has no URL.  The second edition of the seed takes the source that  *)
(* `a` would become.                                                         *)
(***************************************************************************)
EXTENDS SourceDiscovery

MCIds  == {"s1", "s2"}
MCUrls == {"u1", "u1/feed", "u2", "u2/feed"}
MCCandidates == {"a", "b", "c", "d", "hint"}
MCKey  == [c \in MCCandidates |-> CASE c = "a" -> "u1" [] c = "b" -> "u1/feed"
                                    [] c \in {"c", "d"} -> "u2" [] OTHER -> NoUrl]
MCSite == [c \in MCCandidates |-> CASE c \in {"a", "b"} -> "u1" [] c \in {"c", "d"} -> "u2"
                                    [] OTHER -> NoUrl]
MCIdOf == [c \in MCCandidates |-> IF c \in {"c", "d"} THEN "s2" ELSE "s1"]
MCFeedAt == [u \in MCUrls |-> IF u \in {"u1", "u1/feed"} THEN "u1/feed" ELSE "u2/feed"]
Entry(id, feed, promotion, level) ==
    [id |-> id, feed |-> feed, promotion |-> promotion, level |-> level, trusted |-> FALSE]
MCSeeds == <<<<Entry("s2", "u2/feed", "rejected", "national")>>,
             <<Entry("s1", "u1", "", "national"), Entry("s2", "u2", "", "national")>>>>
EmptyTable  == [id \in MCIds |-> NoRow]
LegacyTable == [EmptyTable EXCEPT !["s1"] = [feed |-> "u1", promotion |-> "candidate"]]
MCDeployments ==
    {[vetting |-> FALSE, entrypoint |-> FALSE, table |-> EmptyTable, queue |-> {"a"}, dead |-> {},
      spikes |-> TRUE, editions |-> 1, faults |-> 0, stops |-> 0],
     [vetting |-> TRUE, entrypoint |-> FALSE, table |-> LegacyTable, queue |-> {"c"}, dead |-> {},
      spikes |-> FALSE, editions |-> 2, faults |-> 1, stops |-> 0],
     [vetting |-> TRUE, entrypoint |-> TRUE, table |-> EmptyTable, queue |-> {"a"}, dead |-> {"u2"},
      spikes |-> FALSE, editions |-> 2, faults |-> 0, stops |-> 1],
     [vetting |-> FALSE, entrypoint |-> FALSE, table |-> EmptyTable, queue |-> {"a", "d"}, dead |-> {},
      spikes |-> FALSE, editions |-> 1, faults |-> 0, stops |-> 0]}
=============================================================================
