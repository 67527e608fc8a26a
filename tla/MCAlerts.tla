------------------------------- MODULE MCAlerts -------------------------------
\* What becomes of a batch: the alerts that are shown, and the incidents they are linked to.
EXTENDS AlertFilter, IncidentOverview

VARIABLE part
alertVars == <<filterVars, overviewVars, part>>

AlertsInit == /\ part \in {"filter", "incidents"} /\ FilterInit /\ OverviewInit
              /\ part = "incidents" => gate
AlertsNext == /\ UNCHANGED part
              /\ \/ part = "filter"    /\ FilterNext   /\ UNCHANGED overviewVars
                 \/ part = "incidents" /\ OverviewNext /\ UNCHANGED filterVars
AlertsSpec == AlertsInit /\ [][AlertsNext]_alertVars

-----------------------------------------------------------------------------
Title(informational, actionable, severity) ==
    [informational |-> informational, actionable |-> actionable, severity |-> severity,
     kinds |-> 0, strategic |-> FALSE, long |-> TRUE]
MCTitles == [jobs  |-> Title(FALSE, TRUE, "high"),   \* what the policies take for noise
             trial |-> [Title(FALSE, TRUE, "medium") EXCEPT !.kinds = 2],
             war   |-> [Title(FALSE, FALSE, "critical") EXCEPT !.strategic = TRUE],
             forum |-> Title(TRUE, TRUE, "high")]

Entry(title, link, copyOf, words, score, date, bucket) ==
    [title |-> title, link |-> link, copyOf |-> copyOf, words |-> words, score |-> score, date |-> date,
     age |-> 10 * (5 - date), bucket |-> bucket]
\* 1 and 2 are copies of one page; 3 is 1 of another source; 4 has the link of 2;
\* 5 meets policy B; 6 is 5 with a summary that lets it pass.
MCEntries == <<Entry("trial", "u1", "u", {"fraud"}, 700, 3, 50),
               Entry("trial", "u2", "u", {"fraud"}, 800, 2, 50),
               Entry("trial", "u1", "", {"fraud"}, 900, 1, 50),
               Entry("war", "u2", "", {"gift", "lottery"}, 650, 4, 50),
               Entry("jobs", "u5", "", {"vacancy", "hiring"}, 750, 4, 10),
               Entry("jobs", "u5", "", {"vacancy", "hiring", "wanted"}, 740, 4, 10)>>
MCTranslated == <<"trial", "trial", "forum", "war", "trial", "trial">>

Origin(category, authority) ==
    [category |-> category, authority |-> authority, curated |-> FALSE, highValue |-> FALSE,
     keywords |-> FALSE, classifier |-> FALSE, standing |-> FALSE]
MCOrigins == [feed |-> [Origin("public_safety", "police") EXCEPT !.curated = TRUE],
              page |-> [Origin("fraud_alert", "media") EXCEPT !.classifier = TRUE]]
MCDocuments == [feed |-> {<<>>, <<1, 2>>, <<2, 1, 4>>, <<5>>, <<6, 5>>, <<5, 6>>},
                page |-> {<<>>, <<3>>, <<3, 5>>, <<5, 4>>}]

Terms(downgrade) == [block |-> {"gift", "lottery"}, downgrade |-> downgrade, override |-> {"wanted"},
    rules |-> {[requires |-> {"fraud"}, with |-> {"police"}, effect |-> "keep"],
               [requires |-> {"hiring"}, with |-> {"media", "police"}, effect |-> "downgrade"]}]
MCPolicyA == Terms({"vacancy"})
MCPolicyB == Terms({"vacancy", "hiring"})

-----------------------------------------------------------------------------
Fact(id, source, time, tokens, cves, actors, category) ==
    [id |-> id, source |-> source, time |-> time, tokens |-> tokens, cves |-> cves, actors |-> actors, category |-> category,
     named |-> actors, country |-> {}, malware |-> {}, sectors |-> {}, score |-> 1, severity |-> 1]

\* 1, 2 and 3 tell of one event, 3 too late for 1 but for their country; 2 is of a feed of
\* indicators and has one of 3's; 4 was published before them and shares a CVE with 1, and
\* another edition of it no longer names its second CVE, nor is taken for a vulnerability;
\* 5 is the sanctions list's, which names the actor below the title, and 6 a tip of the
\* source of 1 about that actor and a CVE of 4.
MCFourth == [Fact(4, "kev", 100, {"u", "v", "w"}, {"c1", "c2"}, {}, "vulnerability") EXCEPT !.score = 2]
MCFacts == <<[Fact(1, "a", 124, {"x", "y", "z"}, {"c1"}, {}, "cyber_advisory") EXCEPT !.country = {"d"}],
             [Fact(2, "urlhaus", 134, {"x", "y", "z", "w"}, {}, {}, "cyber_advisory") EXCEPT !.malware = {"ip"}],
             [Fact(3, "c", 150, {"x", "y", "z"}, {}, {}, "cyber_advisory")
                 EXCEPT !.country = {"d"}, !.malware = {"ip"}, !.sectors = {"energy"}, !.severity = 2],
             MCFourth,
             [MCFourth EXCEPT !.cves = {"c1"}, !.category = "cyber_advisory"],
             [Fact(5, "sanctions", 200, {"n", "p", "q"}, {}, {}, "other") EXCEPT !.named = {"m"}],
             [Fact(6, "a", 210, {"n", "r", "s"}, {"c2"}, {"m"}, "terrorism_tip") EXCEPT !.country = {"e"}]>>
=============================================================================
