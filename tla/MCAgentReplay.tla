---------------------------- MODULE MCAgentReplay ----------------------------
(***************************************************************************)
(* One topic of one partition with two records of one flow; the first alone  *)
(* for the run with a restart; and two records that nobody can decode for    *)
(* the questions about the sessions and groups alone.                        *)
(***************************************************************************)
EXTENDS AgentReplay

MCRecords == {"q0", "q1"}

MCBase == [refusal |-> "", family |-> "plain", topic |-> "q", corr |-> "c", sender |-> "",
           actor |-> "", task |-> "", parent |-> "", trace |-> "", status |-> "", time |-> 1]

MCMeta ==
    [r \in MCRecords |-> IF r = "q0" THEN MCBase ELSE [MCBase EXCEPT !.time = 2]]

MCUndecodable == [r \in MCRecords |-> [MCBase EXCEPT !.refusal = "invalid_envelope"]]

MCPartitions == {"q"}
MCLog == [p \in MCPartitions |-> <<"q0", "q1">>]
MCShortLog == [p \in MCPartitions |-> <<"q0">>]
=============================================================================
