------------------------------- MODULE MCAnalyst -------------------------------
(***************************************************************************)
(* The analyst's reads, each with its own state: lists page by page, and the *)
(* queries over the graph.  A behaviour is one of them; the other rests.     *)
(***************************************************************************)
EXTENDS AgentPages, GraphQueries, TLC

VARIABLE part

\* Five records of three flows, in the order of their ids; the first two have the
\* same second, the last is older than the one before it in its flow.
MCSeen == (1 :> [flow |-> 1, topic |-> "requests", sender |-> "a", trace |-> "", span |-> "", started |-> 0, time |-> 1])
       @@ (2 :> [flow |-> 2, topic |-> "traces", sender |-> "b", trace |-> "t", span |-> "model", started |-> 2, time |-> 1])
       @@ (3 :> [flow |-> 1, topic |-> "responses", sender |-> "b", trace |-> "", span |-> "", started |-> 0, time |-> 3])
       @@ (4 :> [flow |-> 3, topic |-> "traces", sender |-> "a", trace |-> "u", span |-> "tool", started |-> 0, time |-> 2])
       @@ (5 :> [flow |-> 1, topic |-> "requests", sender |-> "", trace |-> "", span |-> "", started |-> 0, time |-> 2])

\* Two ways from a to b of one step and of two, through edges in either direction, one edge of another
\* kind, and a node off the way.
MCLinks == {<<"a", "sent", "c">>, <<"b", "sent", "c">>, <<"a", "sent", "b">>, <<"d", "sent", "b">>,
            <<"c", "spans", "a">>}

MCVars == <<part, pageVars, queryVars>>
MCInit == part \in {"pages", "graph"} /\ PagesInit /\ QueriesInit
MCNext == \/ part = "pages" /\ PagesNext /\ UNCHANGED <<part, queryVars>>
          \/ part = "graph" /\ QueriesNext /\ UNCHANGED <<part, pageVars>>
MCSpec == MCInit /\ [][MCNext]_MCVars
=============================================================================
