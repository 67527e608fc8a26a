---------------------------- MODULE MCAgentIngest ----------------------------
(***************************************************************************)
(* One conversation on two topics of one partition each: a request, then a   *)
(* record nobody can decode; a late terminal response, then a second         *)
(* response within the same second.                                          *)
(***************************************************************************)
EXTENDS AgentIngest

MCRecords == {"q0", "q1", "s0", "s1"}

MCBase == [refusal |-> "", family |-> "plain", topic |-> "t", corr |-> "c", sender |-> "",
           actor |-> "", task |-> "", parent |-> "", trace |-> "", status |-> "", time |-> 1]

MCMeta ==
    [r \in MCRecords |->
        CASE r = "q0" -> [MCBase EXCEPT !.family = "requests", !.topic = "q", !.actor = "a",
                                        !.task = "k", !.time = 2]
          [] r = "q1" -> [MCBase EXCEPT !.refusal = "invalid_envelope", !.topic = "q"]
          [] r = "s0" -> [MCBase EXCEPT !.family = "responses", !.topic = "s", !.actor = "b",
                                        !.task = "k", !.status = "completed"]
          [] r = "s1" -> [MCBase EXCEPT !.family = "responses", !.topic = "s"]]

MCPartitions == {"q", "s"}
MCLog == [p \in MCPartitions |-> IF p = "q" THEN <<"q0", "q1">> ELSE <<"s0", "s1">>]
=============================================================================
