------------------------------ MODULE AgentReplay ------------------------------
(***************************************************************************)
(* Replays beside the live loop: the queue of replay_requests that the       *)
(* analyst API fills and Service.run drains, the sessions they become, and   *)
(* one goroutine per session (runReplay) that reads the log again under a    *)
(* consumer group of its own and sends every record through handleRecord     *)
(* into the same store.                                                      *)
(*                                                                          *)
(* The group is named after the second in which the replay starts, so two    *)
(* replays of one second are two members of one group.  cancelReplay has no  *)
(* caller outside the tests and is left out.                                 *)
(***************************************************************************)
EXTENDS AgentIngest, FiniteSetsExt

CONSTANTS MaxRequests,  \* bound on the rows of replay_requests
          MaxByHand,    \* bound on the replays started without a request
          KeptSessions, \* sessions kept in the document, 10 in the code
          IdlePolls     \* empty polls that end a replay, 3 in the code

ASSUME ReplayBoundsTyped ==
    /\ MaxRequests \in Nat /\ MaxByHand \in Nat
    /\ KeptSessions \in Nat \ {0} /\ IdlePolls \in Nat \ {0}

Requests == 1 .. MaxRequests                \* request ids, in the order of requested_at
Replays  == 1 .. (MaxRequests + MaxByHand)  \* session ids, in the order they were taken
Groups   == Replays                         \* seconds in which a replay started
Nobody   == 0

VARIABLES request,   \* status of each row of replay_requests, "" before it is inserted
          claim,     \* request processReplayRequests is working on
          sessions,  \* table replay_sessions, newest first
          active,    \* Health.ReplayActive
          cancels,   \* keys of Service.replayCancels
          run,       \* goroutines of runReplay
          group      \* the broker's side of the replay groups

replayVars == <<request, claim, sessions, active, cancels, run, group>>
liveVars   == <<loopVars, committed, produced, crashes, faults, outcome>>
allVars    == <<vars, replayVars>>

RunPC == {"none", "register", "join", "poll", "batch", "doc", "graph", "end", "write",
          "closed", "lost"}
Ends  == {"completed", "failed"}

NoRun == [pc |-> "none", by |-> Nobody, group |-> Nobody, next |-> Zero, fetched |-> Zero,
          rec |-> Null, idle |-> 0, count |-> 0, status |-> "", active |-> 0, seen |-> {}]

ReplayInit ==
    /\ Init
    /\ request = [q \in Requests |-> ""]
    /\ claim = Nobody
    /\ sessions = <<>>
    /\ active = 0
    /\ cancels = {}
    /\ run = [x \in Replays |-> NoRun]
    /\ group = [g \in Groups |-> [committed |-> Zero, pos |-> Zero,
                                  holder |-> [p \in Partitions |-> Nobody]]]

Pending == {q \in Requests : request[q] = "pending"}

\* Members of a group: from kgo.NewClient to the deferred Close.
Joined == {"poll", "batch", "doc", "graph", "end", "write"}
Members(g) == {x \in Replays : run[x].group = g /\ run[x].pc \in Joined}

\* The broker hands the partitions of g to its members again; whoever gets a
\* partition it did not hold starts at the committed offset, or at the first one.
Rebalanced(g, members) ==
    LET assignments == IF members = {} THEN {[p \in Partitions |-> Nobody]}
                       ELSE [Partitions -> members]
    IN  {[group[g] EXCEPT
            !.holder = h,
            !.pos = [p \in Partitions |->
                       IF h[p] = group[g].holder[p] THEN @[p] ELSE group[g].committed[p]]]
         : h \in assignments}

\* A closure over the sessions and the health row, in one Update with the rest.
UpdateSessions(s, n) ==
    Update(doc) /\ sessions' = s /\ active' = n

-----------------------------------------------------------------------------
(* The queue.                                                                *)

\* handleReplayRequest, in the process of the analyst API.
Submit(q) ==
    /\ request[q] = ""
    /\ \A o \in Requests : o < q => request[o] # ""
    /\ request' = [request EXCEPT ![q] = "pending"]
    /\ UNCHANGED <<vars, claim, sessions, active, cancels, run, group>>

\* Mutant of Claim: the row is left pending until the session is there.
ClaimUnmarked ==
    /\ pc = "requests" /\ Pending # {}
    /\ StoreOpened
    /\ claim' = Min(Pending)
    /\ pc' = "start"
    /\ UNCHANGED <<next, fetched, at, rec, reason, mirrored, committed, produced, crashes, faults,
                   outcome, request, sessions, active, cancels, run, group>>

\* processReplayRequests, first transaction: the oldest pending request.
Claim ==
    /\ pc = "requests"
    /\ StoreOpened
    /\ \E q \in Pending : /\ \A o \in Pending : q <= o
                          /\ claim' = q
                          /\ request' = [request EXCEPT ![q] = "claimed"]
    /\ pc' = "start"
    /\ UNCHANGED <<next, fetched, at, rec, reason, mirrored, committed, produced, crashes, faults,
                   outcome, sessions, active, cancels, run, group>>

\* doc.ReplaySessions[:10]
Newest(s) == SubSeq(s, 1, Min({KeptSessions, Len(s)}))

Unused == {x \in Replays : run[x].pc = "none"}

\* startReplayWithTopics up to its Update, for a request or (by = Nobody) for a
\* caller of StartReplay: take a time for the id and the group, insert the session.
Begin(x, by) ==
    /\ x = Min(Unused)
    /\ UpdateSessions(Newest(<<[id |-> x, status |-> "running", count |-> 0]>> \o sessions),
                      active + 1)
    /\ \E g \in Groups :
          /\ g \in IF x = 1 THEN {1} ELSE {run[x - 1].group, run[x - 1].group + 1}
          /\ run' = [run EXCEPT ![x] = [NoRun EXCEPT !.pc = "register", !.by = by, !.group = g]]
    /\ UNCHANGED <<request, claim, cancels, group>>

BeginRequested ==
    /\ pc = "start"
    /\ \/ \E x \in Unused : Begin(x, claim) /\ pc' = "register"
       \/ UpdateFails /\ pc' = "refuse" /\ UNCHANGED replayVars
    /\ UNCHANGED <<next, fetched, at, rec, reason, mirrored, committed, produced, crashes, faults,
                   outcome>>

\* StartReplay from the collector's HTTP server, in a goroutine of its own; the
\* service stays set when run has failed.
BeginByHand ==
    /\ pc # "down"
    /\ Cardinality({x \in Replays \ Unused : run[x].by = Nobody}) < MaxByHand
    /\ \E x \in Unused : Begin(x, Nobody)
    /\ UNCHANGED liveVars

\* replayCancels[id] = cancel; go runReplay; and for a request the row is answered next.
Register(x) ==
    /\ run[x].pc = "register"
    /\ cancels' = cancels \cup {x}
    /\ run' = [run EXCEPT ![x].pc = "join"]
    /\ pc' = IF run[x].by # Nobody THEN "answer" ELSE pc
    /\ UNCHANGED <<storeVars, next, fetched, at, rec, reason, mirrored, committed, produced,
                   crashes, faults, outcome, request, claim, sessions, active, group>>

\* The last transaction of processReplayRequests: the session id, or the error of
\* the start, which run then notes in Health before it polls.
Answer ==
    /\ pc \in {"answer", "refuse"}
    /\ StoreOpened
    /\ request' = [request EXCEPT ![claim] = IF pc = "answer" THEN "accepted" ELSE "failed"]
    /\ claim' = Nobody
    /\ pc' = IF pc = "answer" THEN "poll" ELSE "note"
    /\ UNCHANGED <<next, fetched, at, rec, reason, mirrored, committed, produced, crashes, faults,
                   outcome, sessions, active, cancels, run, group>>

Note ==
    /\ pc = "note"
    /\ TryUpdate(doc)
    /\ pc' = "poll"
    /\ UNCHANGED <<next, fetched, at, rec, reason, mirrored, committed, produced, crashes, faults,
                   outcome, replayVars>>

-----------------------------------------------------------------------------
(* One goroutine of runReplay.                                               *)

Goto(x, l) == run' = [run EXCEPT ![x].pc = l]
BackToBatch(x) == run' = [run EXCEPT ![x].pc = "batch", ![x].rec = Null]

\* What is left of a goroutine: its session, its group and what it has handled.
Gone(x, l) == [run[x] EXCEPT !.pc = l, !.next = Zero, !.fetched = Zero, !.rec = Null,
                             !.idle = 0, !.status = "", !.active = 0]

\* kgo.NewClient with the replay group.
Join(x) ==
    /\ run[x].pc = "join"
    /\ Goto(x, "poll")
    /\ \E g \in Rebalanced(run[x].group, Members(run[x].group) \cup {x}) :
          group' = [group EXCEPT ![run[x].group] = g]
    /\ UNCHANGED <<vars, request, claim, sessions, active, cancels>>

Held(x) == {p \in Partitions : group[run[x].group].holder[p] = x}

\* A poll that brings a stretch of some of the partitions the member holds.
PollSome(x) ==
    /\ run[x].pc = "poll"
    /\ \E ps \in (SUBSET Held(x)) \ {{}} :
       \E ends \in [ps -> UNION {0 .. Len(Log[p]) : p \in Partitions}] :
          LET pos == group[run[x].group].pos IN
          /\ \A p \in ps : pos[p] < ends[p] /\ ends[p] <= Len(Log[p])
          /\ run' = [run EXCEPT
                ![x].pc = "batch",
                ![x].idle = 0,
                ![x].next = [p \in Partitions |-> IF p \in ps THEN pos[p] ELSE 0],
                ![x].fetched = [p \in Partitions |-> IF p \in ps THEN ends[p] ELSE 0]]
          /\ group' = [group EXCEPT ![run[x].group].pos =
                [p \in Partitions |-> IF p \in ps THEN ends[p] ELSE @[p]]]
    /\ UNCHANGED <<vars, request, claim, sessions, active, cancels>>

\* Mutant of PollNone: idle polls are not counted.
PollPatiently(x) == run[x].pc = "poll" /\ UNCHANGED allVars

PollNone(x) ==
    /\ run[x].pc = "poll"
    /\ IF run[x].idle + 1 < IdlePolls
         THEN run' = [run EXCEPT ![x].idle = @ + 1]
         ELSE run' = [run EXCEPT ![x].pc = "end", ![x].idle = 0, ![x].status = "completed"]
    /\ UNCHANGED <<vars, request, claim, sessions, active, cancels, group>>

PollFails(x) ==
    /\ run[x].pc = "poll"
    /\ faults < MaxFaults
    /\ faults' = faults + 1
    /\ run' = [run EXCEPT ![x].pc = "end", ![x].status = "failed"]
    /\ UNCHANGED <<storeVars, loopVars, committed, produced, crashes, outcome,
                   request, claim, sessions, active, cancels, group>>

Left(x) == {p \in Partitions : run[x].next[p] < run[x].fetched[p]}

Full(x) == run[x].count >= limit

\* The next record of the batch; what handleRecord refuses leaves no trace.
Handle(x, p) ==
    /\ run[x].pc = "batch" /\ p \in Left(x) /\ ~Full(x)
    /\ LET r == Log[p][run[x].next[p] + 1] IN
       run' = [run EXCEPT
          ![x].next[p] = @ + 1,
          ![x].count = @ + 1,
          ![x].seen = @ \cup {<<p, run[x].next[p] + 1>>},
          ![x].rec = IF Meta[r].refusal = "" THEN r ELSE Null,
          ![x].pc = IF Meta[r].refusal = "" THEN "doc" ELSE "batch"]
    /\ UNCHANGED <<vars, request, claim, sessions, active, cancels, group>>

\* The two transactions of acceptMessage; the replay ignores their outcome.
ReplayDocument(x) ==
    /\ run[x].pc = "doc"
    /\ \/ (\E d \in AcceptMessage(doc, run[x].rec) : Update(d)) /\ Goto(x, "graph")
       \/ UpdateFails /\ BackToBatch(x)
    /\ UNCHANGED <<liveVars, request, claim, sessions, active, cancels, group>>

ReplayGraph(x) ==
    /\ run[x].pc = "graph"
    /\ AppendGraph(run[x].rec) \/ GraphFails(run[x].rec)
    /\ BackToBatch(x)
    /\ UNCHANGED <<liveVars, request, claim, sessions, active, cancels, group>>

\* Mutant of BatchOffsets: whatever the group has fetched.
GroupPositions(x) == group[run[x].group].pos

BatchOffsets(x) ==
    [p \in Partitions |-> IF run[x].fetched[p] > 0 THEN run[x].fetched[p]
                          ELSE group[run[x].group].committed[p]]

\* Mutant of CommitReplay: the client was made with the tracking group.
CommitLive(x) ==
    /\ run[x].pc = "batch" /\ (Left(x) = {} \/ Full(x))
    /\ committed' = BatchOffsets(x)
    /\ run' = [run EXCEPT ![x].pc = IF Full(x) THEN "end" ELSE "poll",
                          ![x].next = Zero, ![x].fetched = Zero,
                          ![x].status = IF Full(x) THEN "completed" ELSE ""]
    /\ UNCHANGED <<storeVars, loopVars, produced, crashes, faults, outcome,
                   request, claim, sessions, active, cancels, group>>

\* The whole batch is committed, the part behind the limit too; an error is ignored.
CommitReplay(x) ==
    /\ run[x].pc = "batch" /\ (Left(x) = {} \/ Full(x))
    /\ \/ group' = [group EXCEPT ![run[x].group].committed = BatchOffsets(x)]
       \/ UNCHANGED group
    /\ run' = [run EXCEPT ![x].pc = IF Full(x) THEN "end" ELSE "poll",
                          ![x].next = Zero, ![x].fetched = Zero,
                          ![x].status = IF Full(x) THEN "completed" ELSE ""]
    /\ UNCHANGED <<vars, request, claim, sessions, active, cancels>>

\* finishReplay under replayMu: forget the cancel function, count the others.
Finish(x) ==
    /\ run[x].pc = "end"
    /\ cancels' = cancels \ {x}
    /\ run' = [run EXCEPT ![x].pc = "write", ![x].active = Cardinality(cancels \ {x})]
    /\ UNCHANGED <<vars, request, claim, sessions, active, group>>

\* Mutant of Ended: the newest session is taken for the one that ended.
EndedNewest(x) ==
    [i \in DOMAIN sessions |->
        IF i = 1 THEN [sessions[i] EXCEPT !.status = run[x].status, !.count = run[x].count]
        ELSE sessions[i]]

Ended(x) ==
    [i \in DOMAIN sessions |->
        IF sessions[i].id = x
          THEN [sessions[i] EXCEPT !.status = run[x].status, !.count = run[x].count]
          ELSE sessions[i]]

\* finishReplay after the unlock, then the deferred client.Close.
WriteEnd(x) ==
    /\ run[x].pc = "write"
    /\ \/ UpdateSessions(Ended(x), run[x].active)
       \/ UpdateFails /\ UNCHANGED <<sessions, active>>
    /\ run' = [run EXCEPT ![x] = Gone(x, "closed")]
    /\ \E g \in Rebalanced(run[x].group, Members(run[x].group) \ {x}) :
          group' = [group EXCEPT ![run[x].group] = g]
    /\ UNCHANGED <<liveVars, request, claim, cancels>>

-----------------------------------------------------------------------------
\* The live loop of AgentIngest; it goes on to poll only when nothing is pending.
Live ==
    /\ pc = "requests" => Pending = {}
    /\ Loop
    /\ UNCHANGED replayVars

\* The process dies with every goroutine; tables and the broker's offsets stay.
CrashAll ==
    /\ Crash
    /\ claim' = Nobody
    /\ cancels' = {}
    /\ run' = [x \in Replays |-> IF run[x].pc \in {"none", "closed"} THEN run[x]
                                 ELSE Gone(x, "lost")]
    /\ group' = [g \in Groups |-> [group[g] EXCEPT !.holder = [p \in Partitions |-> Nobody]]]
    /\ UNCHANGED <<request, sessions, active>>

Goroutine(x) ==
    \/ Register(x) \/ Join(x) \/ PollSome(x) \/ PollNone(x) \/ PollFails(x)
    \/ \E p \in Partitions : Handle(x, p)
    \/ ReplayDocument(x) \/ ReplayGraph(x) \/ CommitReplay(x) \/ Finish(x) \/ WriteEnd(x)

Queue == Claim \/ BeginRequested \/ Answer \/ Note

ReplayNext ==
    \/ Live \/ Queue \/ BeginByHand
    \/ \E q \in Requests : Submit(q)
    \/ \E x \in Replays : Goroutine(x)
    \/ CrashAll
    \/ Stopped /\ UNCHANGED replayVars

ReplaySpec == ReplayInit /\ [][ReplayNext]_allVars

\* Every goroutine is scheduled, and no poll blocks for ever (each has a timeout).
ReplayFairness == /\ WF_allVars(Live \/ Queue)
                  /\ \A x \in Replays : WF_allVars(Goroutine(x))

FairReplaySpec == ReplaySpec /\ ReplayFairness

-----------------------------------------------------------------------------
(* Properties                                                               *)

\* The variables of the replays range over what the code can hold.
ReplayTypeOK ==
    /\ StoreTypeOK
    /\ pc \in PC \cup {"start", "register", "answer", "refuse", "note"}
    /\ pc \in {"start", "register", "answer", "refuse"} <=> claim # Nobody
    /\ request \in [Requests -> {"", "pending", "claimed", "accepted", "failed"}]
    /\ claim # Nobody => claim \in Requests /\ request[claim] = "claimed"
    /\ Len(sessions) <= KeptSessions
    /\ \A i \in DOMAIN sessions : /\ sessions[i].id \in Replays /\ sessions[i].count \in Nat
                                  /\ sessions[i].status \in Ends \cup {"running"}
    /\ active \in Nat
    /\ \A x \in Replays : run[x].pc \in RunPC /\ run[x].status \in Ends \cup {""}
    /\ cancels = {x \in Replays : run[x].pc \notin {"none", "register", "write", "closed", "lost"}}

\* A request starts at most one replay, whatever dies between claiming the row and
\* answering it.
OneReplayPerRequest ==
    \A x, y \in Replays : run[x].by # Nobody /\ run[x].by = run[y].by => x = y

\* No replay hands more records to the store than replay_max_records.
WithinLimit == \A x \in Replays : Cardinality(run[x].seen) <= limit

\* What a replay group has committed was handled by one of its members, except
\* behind a member that had reached the limit: rebalancing two replays of one
\* second may hand records out twice, but drops none.
GroupCommitsHandled ==
    \A g \in Groups : \A p \in Partitions : \A i \in 1 .. group[g].committed[p] :
        \E x \in Replays : run[x].group = g /\ (<<p, i>> \in run[x].seen \/ run[x].count >= limit)

\* A session that has ended keeps its end and its count until it is cut off,
\* whichever of the other replays ends before or after it.
EndIsFinal ==
    [][\A i \in DOMAIN sessions, j \in DOMAIN sessions' :
          sessions[i].id = sessions'[j].id /\ sessions[i].status \in Ends
            => sessions'[j] = sessions[i]]_allVars

\* Every replay ends, also when the store refuses all writes and the partitions of
\* its group are handed to another member.
Over(x) == run[x].pc \in {"none", "closed", "lost"}
ReplaysEnd == \A x \in Replays : []<>Over(x)

\* docs/agentops-operator-guide.md: "Replay progress and terminal status are written
\* into AgentOps state".  A session that was started does not stay running after its
\* goroutine is gone.
TerminalStatusWritten ==
    \A x \in Replays : run[x].pc = "closed" =>
        \A i \in DOMAIN sessions : sessions[i].id = x => sessions[i].status # "running"

\* runtime_test.go expects ReplayActive to be 0 after the one replay has ended.  Stated
\* of more replays: it is 0 when the store took every write and no replay is left.
ActiveReturnsToZero ==
    (RewriteFits /\ \A x \in Replays : Over(x)) => active = 0

\* docs/agentops-operator-guide.md: "Replay starts at `earliest`".  What a replay has
\* handled of a partition is a prefix of it.
StartsAtEarliest ==
    \A x \in Replays : \A s \in run[x].seen : \A i \in 1 .. s[2] : <<s[1], i>> \in run[x].seen
=============================================================================
