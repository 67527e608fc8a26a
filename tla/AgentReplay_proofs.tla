--------------------------- MODULE AgentReplay_proofs ---------------------------
(***************************************************************************)
(* What TLAPS proves of replays beside the tracking loop, for every log,     *)
(* every number of requests and replays and every bound on deaths and faults:*)
(*   - replays never disturb the loop: it still implements the abstract      *)
(*     consumer (LoopUndisturbed), and the graph still agrees with itself    *)
(*     (GraphUndisturbed);                                                   *)
(*   - a request starts one replay at most (RequestsStartOnce);              *)
(*   - a replay group commits what it has handled (CommitsWereHandled);      *)
(*   - a session keeps the end it was given (EndsKept).                      *)
(***************************************************************************)
EXTENDS AgentReplay, AgentIngest_proofs, FiniteSetTheorems

-----------------------------------------------------------------------------
(* Types of the replays                                                      *)

\* Where the goroutine of the loop is while it works on the queue.
QueuePC == {"start", "register", "answer", "refuse", "note"}

\* TypeOK without the store and the range of pc.
LoopTypeOK ==
    /\ committed \in [Partitions -> Nat]
    /\ next \in [Partitions -> Nat]
    /\ fetched \in [Partitions -> Nat]
    /\ \A p \in Partitions : committed[p] <= next[p] /\ next[p] <= fetched[p] /\ fetched[p] <= Len(Log[p])
    /\ at \in Partitions
    /\ rec \in Records \cup {Null}
    /\ pc \in {"update", "graph", "mirror", "reject"} => rec \in Records
    /\ reason \in Reasons \cup {""}
    /\ pc \in {"mirror", "reject"} => reason \in Reasons
    /\ mirrored \in BOOLEAN
    /\ produced \in Nat /\ crashes \in Nat /\ faults \in Nat
    /\ outcome \in [Records -> SUBSET Outcomes]

\* Inv of the loop, with the steps of the queue.
KeptInv == /\ StoreTypeOK /\ LoopTypeOK /\ pc \in PC \cup QueuePC
           /\ CommittedResolved /\ RecordInFlight /\ BatchHandled

Goroutines == [pc : RunPC, by : Requests \cup {Nobody}, group : Groups \cup {Nobody},
               next : [Partitions -> Nat], fetched : [Partitions -> Nat],
               rec : Records \cup {Null}, idle : Nat, count : Nat,
               status : Ends \cup {""}, active : Nat, seen : SUBSET (Partitions \X Nat)]
GroupStates == [committed : [Partitions -> Nat], pos : [Partitions -> Nat],
                holder : [Partitions -> Replays \cup {Nobody}]]

\* What a goroutine may hold where it is: a group from its start on, a stretch of the log,
\* and a record to store.
InReach(g) == /\ g.pc # "none" => g.group \in Groups
              /\ \A p \in Partitions : g.fetched[p] <= Len(Log[p])
              /\ g.pc \in {"doc", "graph"} => g.rec \in Records

RunTyped == /\ run \in [Replays -> Goroutines]
            /\ \A x \in Replays : InReach(run[x])
            /\ cancels \in SUBSET Replays
GroupTyped == group \in [Groups -> GroupStates]

LEMMA KeptIsInv == pc \in PC => (KeptInv <=> Inv)
  BY DEF KeptInv, Inv, TypeOK, LoopTypeOK

LEMMA NoRunTyped == NoRun \in Goroutines /\ InReach(NoRun)
<1>1. Zero \in [Partitions -> Nat] /\ \A p \in Partitions : Zero[p] <= Len(Log[p])
  BY LogRecords DEF Zero
<1> QED BY <1>1 DEF NoRun, Goroutines, InReach, RunPC

LEMMA ReplayInitTyped == ReplayInit => KeptInv /\ RunTyped /\ GroupTyped
<1> SUFFICES ASSUME ReplayInit PROVE KeptInv /\ RunTyped /\ GroupTyped
  OBVIOUS
<1>1. KeptInv
  BY InitInv, KeptIsInv DEF ReplayInit, Init, PC
<1>2. RunTyped
  BY NoRunTyped DEF ReplayInit, RunTyped
<1>3. Zero \in [Partitions -> Nat]
  BY DEF Zero
<1>4. GroupTyped
  BY ZenonT(60), <1>3 DEF ReplayInit, GroupTyped, GroupStates
<1> QED BY <1>1, <1>2, <1>4

\* A rebalance keeps the types of a group.
LEMMA RebalancedTyped ==
  ASSUME GroupTyped, NEW g \in Groups, NEW m \in SUBSET Replays, NEW s \in Rebalanced(g, m)
  PROVE  s \in GroupStates
<1>1. group[g] \in GroupStates
  BY SMTT(60) DEF GroupTyped
<1> DEFINE assignments == IF m = {} THEN {[p \in Partitions |-> Nobody]} ELSE [Partitions -> m]
<1>2. PICK h \in assignments :
        s = [group[g] EXCEPT
              !.holder = h,
              !.pos = [p \in Partitions |->
                         IF h[p] = group[g].holder[p] THEN group[g].pos[p] ELSE group[g].committed[p]]]
  BY DEF Rebalanced
<1>3. h \in [Partitions -> Replays \cup {Nobody}]
  OBVIOUS
<1>4. [p \in Partitions |->
         IF h[p] = group[g].holder[p] THEN group[g].pos[p] ELSE group[g].committed[p]]
        \in [Partitions -> Nat]
  BY <1>1 DEF GroupStates
<1> QED BY <1>1, <1>2, <1>3, <1>4 DEF GroupStates

\* Members of a group are replays.
LEMMA MembersTyped == ASSUME NEW g PROVE Members(g) \in SUBSET Replays
  BY DEF Members

\* A goroutine that changes within its type keeps the types of all.
LEMMA OneRunTyped ==
  ASSUME RunTyped, NEW x \in Replays, NEW g \in Goroutines, InReach(g),
         run' = [run EXCEPT ![x] = g], cancels' \in SUBSET Replays
  PROVE  RunTyped'
  BY DEF RunTyped

LEMMA OneGroupTyped ==
  ASSUME GroupTyped, NEW g \in Groups, NEW s \in GroupStates, group' = [group EXCEPT ![g] = s]
  PROVE  GroupTyped'
  BY DEF GroupTyped

\* What is left of a goroutine keeps its session, group and count.
LEMMA GoneTyped ==
  ASSUME RunTyped, NEW x \in Replays, NEW l \in {"closed", "lost"}, run[x].pc # "none"
  PROVE  Gone(x, l) \in Goroutines /\ InReach(Gone(x, l)) /\ Gone(x, l).pc = l /\ Gone(x, l).by = run[x].by
<1>1. run[x] \in Goroutines /\ InReach(run[x])
  BY DEF RunTyped
<1>2. Zero \in [Partitions -> Nat] /\ \A p \in Partitions : Zero[p] <= Len(Log[p])
  BY LogRecords DEF Zero
<1>3. l \in RunPC /\ 0 \in Nat /\ "" \in Ends \cup {""} /\ Null \in Records \cup {Null}
  BY DEF RunPC
<1>4. Gone(x, l) \in Goroutines
  BY <1>1, <1>2, <1>3 DEF Gone, Goroutines
<1>5. /\ Gone(x, l).pc = l /\ Gone(x, l).by = run[x].by
      /\ Gone(x, l).group = run[x].group /\ Gone(x, l).fetched = Zero
  BY <1>1 DEF Gone, Goroutines
<1> QED BY <1>1, <1>2, <1>4, <1>5 DEF InReach

-----------------------------------------------------------------------------
(* Steps of the replays                                                      *)

\* A goroutine that keeps its group and its stretch of the log stays in reach.
LEMMA MoveTyped ==
  ASSUME RunTyped, NEW x \in Replays, NEW g \in Goroutines, run[x].pc # "none",
         g.group = run[x].group, g.fetched = run[x].fetched,
         g.pc \in {"doc", "graph"} => g.rec \in Records,
         run' = [run EXCEPT ![x] = g], cancels' \in SUBSET Replays
  PROVE  RunTyped'
<1>1. InReach(run[x])
  BY DEF RunTyped
<1>2. InReach(g)
  BY <1>1 DEF InReach
<1> QED BY <1>2, OneRunTyped

LEMMA RegisterTyped ==
  ASSUME RunTyped, NEW x \in Replays, Register(x) \/ Join(x)
  PROVE  RunTyped'
<1>1. run[x] \in Goroutines /\ run[x].pc \in {"register", "join"}
  BY DEF RunTyped, Register, Join
<1>2. PICK l \in {"join", "poll"} : run' = [run EXCEPT ![x] = [run[x] EXCEPT !.pc = l]]
  BY DEF Register, Join, Goto
<1>3. cancels' \in SUBSET Replays
  BY DEF Register, Join, RunTyped
<1> DEFINE g == [run[x] EXCEPT !.pc = l]
<1>4. g \in Goroutines
  BY <1>1 DEF Goroutines, RunPC
<1>5. g.pc = l /\ g.group = run[x].group /\ g.fetched = run[x].fetched
  BY <1>1 DEF Goroutines
<1> QED BY <1>1, <1>2, <1>3, <1>4, <1>5, MoveTyped

LEMMA PollTyped ==
  ASSUME RunTyped, NEW x \in Replays, PollNone(x) \/ PollFails(x)
  PROVE  RunTyped'
<1>1. run[x] \in Goroutines /\ run[x].pc = "poll" /\ cancels' \in SUBSET Replays
  BY DEF RunTyped, PollNone, PollFails
<1>2. CASE PollNone(x) /\ run[x].idle + 1 < IdlePolls
  <2> DEFINE i == run[x].idle + 1
             g == [run[x] EXCEPT !.idle = i]
  <2>1. run' = [run EXCEPT ![x] = g]
    BY <1>2 DEF PollNone
  <2>j. run[x].idle \in Nat
    BY <1>1 DEF Goroutines
  <2>i. i \in Nat
    BY <2>j
  <2> HIDE DEF i
  <2>2. g \in Goroutines
    BY <1>1, <2>i DEF Goroutines
  <2>3. g.pc = "poll" /\ g.group = run[x].group /\ g.fetched = run[x].fetched
    BY <1>1 DEF Goroutines
  <2> QED BY <1>1, <2>1, <2>2, <2>3, MoveTyped
<1>3. CASE PollNone(x) /\ ~(run[x].idle + 1 < IdlePolls)
  <2> DEFINE g == [run[x] EXCEPT !.pc = "end", !.idle = 0, !.status = "completed"]
  <2>1. run' = [run EXCEPT ![x] = g]
    BY <1>3 DEF PollNone
  <2>2. g \in Goroutines
    BY <1>1 DEF Goroutines, RunPC, Ends
  <2>3. g.pc = "end" /\ g.group = run[x].group /\ g.fetched = run[x].fetched
    BY <1>1 DEF Goroutines
  <2> QED BY <1>1, <2>1, <2>2, <2>3, MoveTyped
<1>4. CASE PollFails(x)
  <2> DEFINE g == [run[x] EXCEPT !.pc = "end", !.status = "failed"]
  <2>1. run' = [run EXCEPT ![x] = g]
    BY <1>4 DEF PollFails
  <2>2. g \in Goroutines
    BY ZenonT(60), <1>1 DEF Goroutines, RunPC, Ends
  <2>3. g.pc = "end" /\ g.group = run[x].group /\ g.fetched = run[x].fetched
    BY <1>1 DEF Goroutines
  <2> QED BY <1>1, <2>1, <2>2, <2>3, MoveTyped
<1> QED BY <1>2, <1>3, <1>4

\* A poll brings a stretch that ends within the log, of partitions the member holds.
Polled(x, nx, fe, po) ==
    /\ run' = [run EXCEPT ![x] = [run[x] EXCEPT !.pc = "batch", !.idle = 0, !.next = nx, !.fetched = fe]]
    /\ group' = [group EXCEPT ![run[x].group] = [group[run[x].group] EXCEPT !.pos = po]]
    /\ \A p \in Partitions :
          LET pos == group[run[x].group].pos[p] IN
          /\ fe[p] <= Len(Log[p])
          /\ \/ group[run[x].group].holder[p] = x /\ nx[p] = pos /\ fe[p] = po[p] /\ pos < po[p]
             \/ nx[p] = 0 /\ fe[p] = 0 /\ po[p] = pos

LEMMA PollSomeMoves ==
  ASSUME RunTyped, GroupTyped, NEW x \in Replays, PollSome(x)
  PROVE  /\ run[x] \in Goroutines /\ run[x].pc = "poll" /\ run[x].group \in Groups
         /\ group[run[x].group] \in GroupStates
         /\ \E nx, fe, po \in [Partitions -> Nat] : Polled(x, nx, fe, po)
<1>1. run[x] \in Goroutines /\ run[x].pc = "poll" /\ InReach(run[x])
  BY DEF RunTyped, PollSome
<1>2. run[x].group \in Groups
  BY <1>1 DEF InReach
<1> DEFINE q == group[run[x].group]
<1>3. q \in GroupStates
  BY SMTT(60), <1>2 DEF GroupTyped
<1>4. PICK ps \in (SUBSET Held(x)) \ {{}} :
      \E ends \in [ps -> UNION {0 .. Len(Log[p]) : p \in Partitions}] :
          /\ \A p \in ps : q.pos[p] < ends[p] /\ ends[p] <= Len(Log[p])
          /\ run' = [run EXCEPT
                ![x].pc = "batch",
                ![x].idle = 0,
                ![x].next = [p \in Partitions |-> IF p \in ps THEN q.pos[p] ELSE 0],
                ![x].fetched = [p \in Partitions |-> IF p \in ps THEN ends[p] ELSE 0]]
          /\ group' = [group EXCEPT ![run[x].group].pos =
                [p \in Partitions |-> IF p \in ps THEN ends[p] ELSE q.pos[p]]]
  BY ZenonT(60) DEF PollSome
<1>5. PICK ends \in [ps -> UNION {0 .. Len(Log[p]) : p \in Partitions}] :
          /\ \A p \in ps : q.pos[p] < ends[p] /\ ends[p] <= Len(Log[p])
          /\ run' = [run EXCEPT
                ![x].pc = "batch",
                ![x].idle = 0,
                ![x].next = [p \in Partitions |-> IF p \in ps THEN q.pos[p] ELSE 0],
                ![x].fetched = [p \in Partitions |-> IF p \in ps THEN ends[p] ELSE 0]]
          /\ group' = [group EXCEPT ![run[x].group].pos =
                [p \in Partitions |-> IF p \in ps THEN ends[p] ELSE q.pos[p]]]
  BY <1>4
<1>6. \A p \in ps : p \in Partitions /\ ends[p] \in Nat /\ q.holder[p] = x
  <2>1. ps \subseteq Partitions /\ \A p \in ps : q.holder[p] = x
    BY DEF Held
  <2>2. \A p \in Partitions : 0 .. Len(Log[p]) \subseteq Nat
    BY LogRecords
  <2> QED BY <2>1, <2>2
<1> DEFINE nx == [p \in Partitions |-> IF p \in ps THEN q.pos[p] ELSE 0]
           fe == [p \in Partitions |-> IF p \in ps THEN ends[p] ELSE 0]
           po == [p \in Partitions |-> IF p \in ps THEN ends[p] ELSE q.pos[p]]
<1>7. nx \in [Partitions -> Nat] /\ fe \in [Partitions -> Nat] /\ po \in [Partitions -> Nat]
  BY <1>3, <1>6 DEF GroupStates
<1>8. ASSUME NEW p \in Partitions
      PROVE  /\ fe[p] <= Len(Log[p])
             /\ \/ q.holder[p] = x /\ nx[p] = q.pos[p] /\ fe[p] = po[p] /\ q.pos[p] < po[p]
                \/ nx[p] = 0 /\ fe[p] = 0 /\ po[p] = q.pos[p]
  <2>1. p \in ps => ends[p] <= Len(Log[p]) /\ q.pos[p] < ends[p]
    BY <1>5
  <2>2. Len(Log[p]) \in Nat
    BY SMTT(60), LogRecords
  <2> QED BY <1>6, <2>1, <2>2
<1>9. /\ run' = [run EXCEPT ![x] = [run[x] EXCEPT !.pc = "batch", !.idle = 0, !.next = nx, !.fetched = fe]]
      /\ group' = [group EXCEPT ![run[x].group] = [q EXCEPT !.pos = po]]
  BY <1>5
<1> HIDE DEF nx, fe, po
<1>10. Polled(x, nx, fe, po)
  BY <1>8, <1>9 DEF Polled
<1> QED BY <1>1, <1>2, <1>3, <1>7, <1>10

LEMMA PollSomeTyped ==
  ASSUME RunTyped, GroupTyped, NEW x \in Replays, PollSome(x)
  PROVE  RunTyped' /\ GroupTyped'
<1> DEFINE q == group[run[x].group]
<1>1. run[x] \in Goroutines /\ run[x].group \in Groups /\ q \in GroupStates
  BY PollSomeMoves
<1>p. PICK nx, fe, po \in [Partitions -> Nat] : Polled(x, nx, fe, po)
  BY PollSomeMoves
<1>2. /\ run' = [run EXCEPT ![x] = [run[x] EXCEPT !.pc = "batch", !.idle = 0, !.next = nx, !.fetched = fe]]
      /\ group' = [group EXCEPT ![run[x].group] = [q EXCEPT !.pos = po]]
      /\ \A p \in Partitions : fe[p] <= Len(Log[p])
  BY <1>p DEF Polled
<1> DEFINE g == [run[x] EXCEPT !.pc = "batch", !.idle = 0, !.next = nx, !.fetched = fe]
<1>3. g \in Goroutines /\ g.pc = "batch" /\ g.group = run[x].group /\ g.fetched = fe
  BY ZenonT(60), <1>1 DEF Goroutines, RunPC
<1>4. InReach(g)
  BY <1>1, <1>2, <1>3 DEF InReach
<1>5. cancels' \in SUBSET Replays
  BY DEF PollSome, RunTyped
<1>6. RunTyped'
  <2> HIDE DEF g
  <2>1. run' = [run EXCEPT ![x] = g]
    BY <1>2 DEF g
  <2> QED BY <1>3, <1>4, <1>5, <2>1, OneRunTyped
<1>7. [q EXCEPT !.pos = po] \in GroupStates
  BY <1>1 DEF GroupStates
<1>8. GroupTyped'
  BY <1>1, <1>2, <1>7, OneGroupTyped
<1> QED BY <1>6, <1>8

\* The next record of the batch is one of the log.
LEMMA HandleTyped ==
  ASSUME RunTyped, NEW x \in Replays, NEW p \in Partitions, Handle(x, p)
  PROVE  RunTyped'
<1>1. /\ run[x] \in Goroutines /\ run[x].pc = "batch" /\ cancels' \in SUBSET Replays
      /\ InReach(run[x])
  BY DEF RunTyped, Handle
<1> DEFINE r == Log[p][run[x].next[p] + 1]
           n == [run[x].next EXCEPT ![p] = run[x].next[p] + 1]
           c == run[x].count + 1
           s == run[x].seen \cup {<<p, run[x].next[p] + 1>>}
           kept == IF Meta[r].refusal = "" THEN r ELSE Null
           l == IF Meta[r].refusal = "" THEN "doc" ELSE "batch"
           g == [run[x] EXCEPT !.next = n, !.count = c, !.seen = s, !.rec = kept, !.pc = l]
<1>2. run' = [run EXCEPT ![x] = g]
  BY ZenonT(60) DEF Handle
<1>3. run[x].next \in [Partitions -> Nat] /\ run[x].fetched \in [Partitions -> Nat] /\ run[x].count \in Nat
      /\ run[x].seen \subseteq Partitions \X Nat
  BY <1>1 DEF Goroutines
<1>4. r \in Records
  <2>1. run[x].next[p] < run[x].fetched[p] /\ run[x].fetched[p] <= Len(Log[p])
    BY <1>1 DEF Handle, Left, InReach
  <2>2. run[x].next[p] + 1 \in 1 .. Len(Log[p])
    BY SMTT(60), <1>3, <2>1, LogRecords
  <2> QED BY <2>2, LogRecords
<1>5. /\ n \in [Partitions -> Nat] /\ c \in Nat /\ s \subseteq Partitions \X Nat
      /\ kept \in Records \cup {Null} /\ l \in RunPC /\ (l \in {"doc", "graph"} => kept \in Records)
  <2>1. run[x].next[p] + 1 \in Nat
    BY <1>3
  <2>2. n \in [Partitions -> Nat]
    BY <1>3, <2>1
  <2>3. s \subseteq Partitions \X Nat
    BY <1>3, <2>1
  <2>4. c \in Nat
    BY <1>3
  <2>5. kept \in Records \cup {Null} /\ l \in RunPC /\ (l \in {"doc", "graph"} => kept \in Records)
    <3> HIDE DEF r
    <3> QED BY <1>4 DEF RunPC
  <2> QED BY <2>2, <2>3, <2>4, <2>5
<1> HIDE DEF n, c, s, kept, l
<1>6. g \in Goroutines
  BY <1>1, <1>5 DEF Goroutines
<1>7. g.pc = l /\ g.rec = kept /\ g.group = run[x].group /\ g.fetched = run[x].fetched
  BY <1>1 DEF Goroutines
<1> HIDE DEF g
<1> QED BY <1>1, <1>2, <1>5, <1>6, <1>7, MoveTyped

\* The transactions of a replay keep the types of the store.
LEMMA ReplayStoreTyped ==
  ASSUME RunTyped, StoreTypeOK, NEW x \in Replays, ReplayDocument(x) \/ ReplayGraph(x)
  PROVE  /\ RunTyped'
         /\ \/ \E d \in Document : Update(d)
            \/ run[x].rec \in Records /\ AppendGraph(run[x].rec)
            \/ UNCHANGED storeVars
<1>1. /\ run[x] \in Goroutines /\ run[x].pc \in {"doc", "graph"} /\ cancels' \in SUBSET Replays
      /\ run[x].rec \in Records
  BY DEF RunTyped, ReplayDocument, ReplayGraph, InReach
<1>2. ASSUME run' = [run EXCEPT ![x] = [run[x] EXCEPT !.pc = "graph"]] PROVE RunTyped'
  <2> DEFINE g == [run[x] EXCEPT !.pc = "graph"]
  <2>1. g \in Goroutines
    BY <1>1 DEF Goroutines, RunPC
  <2>2. g.rec = run[x].rec /\ g.group = run[x].group /\ g.fetched = run[x].fetched
    BY <1>1 DEF Goroutines
  <2> QED BY <1>1, <1>2, <2>1, <2>2, MoveTyped
<1>3. ASSUME run' = [run EXCEPT ![x] = [run[x] EXCEPT !.pc = "batch", !.rec = Null]] PROVE RunTyped'
  <2> DEFINE g == [run[x] EXCEPT !.pc = "batch", !.rec = Null]
  <2>1. g \in Goroutines
    BY <1>1 DEF Goroutines, RunPC
  <2>2. g.pc = "batch" /\ g.group = run[x].group /\ g.fetched = run[x].fetched
    BY <1>1 DEF Goroutines
  <2> QED BY <1>1, <1>3, <2>1, <2>2, MoveTyped
<1>4. \/ \E d \in Document : Update(d)
      \/ run[x].rec \in Records /\ AppendGraph(run[x].rec)
      \/ UNCHANGED storeVars
  <2>1. doc \in Document
    BY DEF StoreTypeOK
  <2> QED BY <1>1, <2>1, AcceptTyped DEF ReplayDocument, ReplayGraph, UpdateFails, GraphFails
<1> QED BY <1>2, <1>3, <1>4 DEF ReplayDocument, ReplayGraph, Goto, BackToBatch

\* A commit of a replay is of offsets within the log.
LEMMA CommitTyped ==
  ASSUME RunTyped, GroupTyped, NEW x \in Replays, CommitReplay(x)
  PROVE  RunTyped' /\ GroupTyped'
<1>1. /\ run[x] \in Goroutines /\ run[x].pc = "batch" /\ cancels' \in SUBSET Replays
      /\ InReach(run[x])
  BY DEF RunTyped, CommitReplay
<1>2. run[x].group \in Groups
  BY <1>1 DEF InReach
<1> DEFINE q == group[run[x].group]
           l == IF Full(x) THEN "end" ELSE "poll"
           t == IF Full(x) THEN "completed" ELSE ""
           g == [run[x] EXCEPT !.pc = l, !.next = Zero, !.fetched = Zero, !.status = t]
<1>3. run' = [run EXCEPT ![x] = g]
  BY DEF CommitReplay
<1>4. l \in RunPC \ {"none", "doc", "graph"} /\ t \in Ends \cup {""}
  BY DEF RunPC, Ends
<1>5. Zero \in [Partitions -> Nat] /\ \A p \in Partitions : Zero[p] <= Len(Log[p])
  BY LogRecords DEF Zero
<1>6. RunTyped'
  <2> HIDE DEF l, t
  <2>1. g \in Goroutines
    BY <1>1, <1>4, <1>5 DEF Goroutines
  <2>2. g.pc = l /\ g.group = run[x].group /\ g.fetched = Zero
    BY <1>1 DEF Goroutines
  <2>3. InReach(g)
    BY <1>2, <1>4, <1>5, <2>2 DEF InReach
  <2> HIDE DEF g
  <2> QED BY <1>1, <1>3, <2>1, <2>3, OneRunTyped
<1>7. GroupTyped'
  <2>1. CASE UNCHANGED group
    BY <2>1 DEF GroupTyped
  <2>2. CASE group' = [group EXCEPT ![run[x].group].committed = BatchOffsets(x)]
    <3>1. q \in GroupStates
      BY <1>2 DEF GroupTyped
    <3>2. run[x].fetched \in [Partitions -> Nat] /\ q.committed \in [Partitions -> Nat]
      BY <1>1, <3>1 DEF Goroutines, GroupStates
    <3>3. BatchOffsets(x) \in [Partitions -> Nat]
      BY <3>2 DEF BatchOffsets
    <3>4. [q EXCEPT !.committed = BatchOffsets(x)] \in GroupStates
      BY <3>1, <3>3 DEF GroupStates
    <3>5. group' = [group EXCEPT ![run[x].group] = [q EXCEPT !.committed = BatchOffsets(x)]]
      BY <2>2
    <3> QED BY <1>2, <3>4, <3>5, OneGroupTyped
  <2> QED BY <2>1, <2>2 DEF CommitReplay
<1> QED BY <1>6, <1>7

LEMMA FinishTyped ==
  ASSUME RunTyped, NEW x \in Replays, Finish(x)
  PROVE  RunTyped'
<1>1. run[x] \in Goroutines /\ run[x].pc = "end" /\ cancels' \in SUBSET Replays
  BY DEF RunTyped, Finish
<1> DEFINE n == Cardinality(cancels \ {x})
           g == [run[x] EXCEPT !.pc = "write", !.active = n]
<1>2. run' = [run EXCEPT ![x] = g]
  BY DEF Finish
<1>3. n \in Nat
  <2>1. IsFiniteSet(Replays)
    BY ReplayBoundsTyped, FS_Interval DEF Replays
  <2>2. cancels \ {x} \in SUBSET Replays
    BY DEF RunTyped
  <2>3. IsFiniteSet(cancels \ {x})
    BY <2>1, <2>2, FS_Subset
  <2> QED BY <2>3, FS_CardinalityType
<1> HIDE DEF n
<1>4. g \in Goroutines
  BY <1>1, <1>3 DEF Goroutines, RunPC
<1>5. g.pc = "write" /\ g.group = run[x].group /\ g.fetched = run[x].fetched
  BY <1>1 DEF Goroutines
<1> QED BY <1>1, <1>2, <1>4, <1>5, MoveTyped

LEMMA WriteEndTyped ==
  ASSUME RunTyped, NEW x \in Replays, WriteEnd(x)
  PROVE  RunTyped'
<1>1. /\ run[x].pc = "write" /\ cancels' \in SUBSET Replays
      /\ run' = [run EXCEPT ![x] = Gone(x, "closed")]
  BY DEF RunTyped, WriteEnd
<1> QED BY <1>1, GoneTyped, OneRunTyped

\* A replay that begins has a group of its own or that of the one before.
LEMMA BeginTyped ==
  ASSUME RunTyped, NEW x \in Replays, NEW by \in Requests \cup {Nobody}, Begin(x, by)
  PROVE  /\ RunTyped'
         /\ \E g \in Groups : run' = [run EXCEPT ![x] = [NoRun EXCEPT !.pc = "register", !.by = by, !.group = g]]
<1>1. PICK gr \in Groups : run' = [run EXCEPT ![x] = [NoRun EXCEPT !.pc = "register", !.by = by, !.group = gr]]
  BY DEF Begin
<1> DEFINE g == [NoRun EXCEPT !.pc = "register", !.by = by, !.group = gr]
<1>2. g \in Goroutines /\ g.pc = "register" /\ g.group = gr /\ g.fetched = NoRun.fetched
  BY NoRunTyped DEF Goroutines, RunPC
<1>3. InReach(g)
  BY <1>2, NoRunTyped DEF InReach
<1>4. cancels' \in SUBSET Replays
  BY DEF Begin, RunTyped
<1>5. RunTyped'
  BY <1>1, <1>2, <1>3, <1>4, OneRunTyped
<1> QED BY <1>1, <1>5

LEMMA CrashTyped ==
  ASSUME RunTyped, GroupTyped, CrashAll
  PROVE  RunTyped' /\ GroupTyped'
<1> DEFINE after(x) == IF run[x].pc \in {"none", "closed"} THEN run[x] ELSE Gone(x, "lost")
<1>1. ASSUME NEW x \in Replays PROVE after(x) \in Goroutines /\ InReach(after(x))
  BY GoneTyped DEF RunTyped
<1>2. run' = [x \in Replays |-> after(x)] /\ cancels' = {}
  BY DEF CrashAll
<1> HIDE DEF after
<1>3. RunTyped'
  BY <1>1, <1>2 DEF RunTyped
<1>4. ASSUME NEW g \in Groups PROVE [group[g] EXCEPT !.holder = [p \in Partitions |-> Nobody]] \in GroupStates
  <2>1. group[g] \in GroupStates
    BY DEF GroupTyped
  <2>2. [p \in Partitions |-> Nobody] \in [Partitions -> Replays \cup {Nobody}]
    OBVIOUS
  <2> QED BY <2>1, <2>2 DEF GroupStates
<1>5. group' = [g \in Groups |-> [group[g] EXCEPT !.holder = [p \in Partitions |-> Nobody]]]
  BY DEF CrashAll
<1>6. GroupTyped'
  BY <1>4, <1>5 DEF GroupTyped
<1> QED BY <1>3, <1>6

-----------------------------------------------------------------------------
(* What a step does to the goroutines                                        *)

\* A step of one goroutine leaves the others alone, does not begin it again, and does not
\* change whose request it is for.
Moves(x) == /\ \A y \in Replays : y # x => run'[y] = run[y]
            /\ run[x].pc \notin {"none", "closed", "lost"}
            /\ run'[x].pc \notin {"none", "register"}
            /\ run'[x].by = run[x].by

LEMMA GoroutineMoves ==
  ASSUME RunTyped, NEW x \in Replays, Goroutine(x)
  PROVE  Moves(x)
<1>1. run \in [Replays -> Goroutines] /\ run[x] \in Goroutines
  BY DEF RunTyped
<1>2. CASE Register(x)
  BY <1>1, <1>2 DEF Register, Moves, Goroutines
<1>3. CASE Join(x)
  BY <1>1, <1>3 DEF Join, Goto, Moves, Goroutines
<1>4. CASE PollSome(x)
  <2>1. PICK n, f : run' = [run EXCEPT ![x] = [run[x] EXCEPT !.pc = "batch", !.idle = 0, !.next = n, !.fetched = f]]
    <3> DEFINE pos == group[run[x].group].pos
    <3>1. PICK ps \in (SUBSET Held(x)) \ {{}} :
            \E ends \in [ps -> UNION {0 .. Len(Log[p]) : p \in Partitions}] :
              run' = [run EXCEPT
                ![x].pc = "batch",
                ![x].idle = 0,
                ![x].next = [p \in Partitions |-> IF p \in ps THEN pos[p] ELSE 0],
                ![x].fetched = [p \in Partitions |-> IF p \in ps THEN ends[p] ELSE 0]]
      BY ZenonT(60), <1>4 DEF PollSome
    <3>2. PICK ends : run' = [run EXCEPT
                ![x].pc = "batch",
                ![x].idle = 0,
                ![x].next = [p \in Partitions |-> IF p \in ps THEN pos[p] ELSE 0],
                ![x].fetched = [p \in Partitions |-> IF p \in ps THEN ends[p] ELSE 0]]
      BY <3>1
    <3> QED BY ZenonT(60), <3>2
  <2>2. run[x].pc = "poll"
    BY <1>4 DEF PollSome
  <2> QED BY <1>1, <2>1, <2>2 DEF Moves, Goroutines
<1>5. CASE PollNone(x)
  <2>1. PICK i : \/ run' = [run EXCEPT ![x] = [run[x] EXCEPT !.idle = i]]
                 \/ run' = [run EXCEPT ![x] = [run[x] EXCEPT !.pc = "end", !.idle = 0, !.status = "completed"]]
    BY <1>5 DEF PollNone
  <2>2. run[x].pc = "poll"
    BY <1>5 DEF PollNone
  <2>3. CASE run' = [run EXCEPT ![x] = [run[x] EXCEPT !.idle = i]]
    BY <1>1, <2>2, <2>3 DEF Moves, Goroutines
  <2>4. CASE run' = [run EXCEPT ![x] = [run[x] EXCEPT !.pc = "end", !.idle = 0, !.status = "completed"]]
    BY <1>1, <2>2, <2>4 DEF Moves, Goroutines
  <2> QED BY <2>1, <2>3, <2>4
<1>6. CASE PollFails(x)
  BY ZenonT(60), <1>1, <1>6 DEF PollFails, Moves, Goroutines
<1>7. ASSUME NEW p \in Partitions, Handle(x, p) PROVE Moves(x)
  <2> DEFINE r == Log[p][run[x].next[p] + 1]
             l == IF Meta[r].refusal = "" THEN "doc" ELSE "batch"
             k == IF Meta[r].refusal = "" THEN r ELSE Null
             n == [run[x].next EXCEPT ![p] = run[x].next[p] + 1]
             c == run[x].count + 1
             s == run[x].seen \cup {<<p, run[x].next[p] + 1>>}
  <2>1. run' = [run EXCEPT ![x] = [run[x] EXCEPT !.next = n, !.count = c, !.seen = s, !.rec = k, !.pc = l]]
    BY ZenonT(60), <1>7 DEF Handle
  <2>2. l \in {"doc", "batch"} /\ run[x].pc = "batch"
    BY <1>7 DEF Handle
  <2> HIDE DEF l, k, n, c, s
  <2> QED BY ZenonT(60), <1>1, <2>1, <2>2 DEF Moves, Goroutines
<1>8. CASE ReplayDocument(x)
  <2>1. \/ run' = [run EXCEPT ![x] = [run[x] EXCEPT !.pc = "graph"]]
        \/ run' = [run EXCEPT ![x] = [run[x] EXCEPT !.pc = "batch", !.rec = Null]]
    BY <1>8 DEF ReplayDocument, Goto, BackToBatch
  <2>2. run[x].pc = "doc"
    BY <1>8 DEF ReplayDocument
  <2>3. CASE run' = [run EXCEPT ![x] = [run[x] EXCEPT !.pc = "graph"]]
    BY <1>1, <2>2, <2>3 DEF Moves, Goroutines
  <2>4. CASE run' = [run EXCEPT ![x] = [run[x] EXCEPT !.pc = "batch", !.rec = Null]]
    BY <1>1, <2>2, <2>4 DEF Moves, Goroutines
  <2> QED BY <2>1, <2>3, <2>4
<1>9. CASE ReplayGraph(x)
  BY <1>1, <1>9 DEF ReplayGraph, BackToBatch, Moves, Goroutines
<1>10. CASE CommitReplay(x)
  BY <1>1, <1>10 DEF CommitReplay, Moves, Goroutines
<1>11. CASE Finish(x)
  BY <1>1, <1>11 DEF Finish, Moves, Goroutines
<1>12. CASE WriteEnd(x)
  BY <1>1, <1>12, GoneTyped DEF WriteEnd, Moves
<1> QED BY <1>2, <1>3, <1>4, <1>5, <1>6, <1>7, <1>8, <1>9, <1>10, <1>11, <1>12 DEF Goroutine

\* A death takes every goroutine that had begun.
Dies == \A y \in Replays : /\ run'[y].by = run[y].by
                           /\ run[y].pc \in {"none", "closed"} => run'[y] = run[y]
                           /\ run[y].pc \notin {"none", "closed"} => run'[y].pc = "lost"

LEMMA CrashMoves == ASSUME RunTyped, CrashAll PROVE Dies
  BY GoneTyped DEF RunTyped, CrashAll, Dies

\* Replay x begins for a request, or for a caller.
Begins(x, by) == /\ \A y \in Replays : y # x => run'[y] = run[y]
                 /\ run[x].pc = "none" /\ run'[x].pc = "register" /\ run'[x].by = by

LEMMA BeginMoves ==
  ASSUME RunTyped, NEW x \in Unused, NEW by \in Requests \cup {Nobody}, Begin(x, by)
  PROVE  RunTyped' /\ Begins(x, by)
<1>1. x \in Replays /\ run[x].pc = "none"
  BY DEF Unused
<1>2. RunTyped'
  BY <1>1, BeginTyped
<1>3. PICK g \in Groups : run' = [run EXCEPT ![x] = [NoRun EXCEPT !.pc = "register", !.by = by, !.group = g]]
  BY ZenonT(60), <1>1, BeginTyped
<1> QED BY ZenonT(60), <1>1, <1>2, <1>3, NoRunTyped DEF Begins, RunTyped, Goroutines

-----------------------------------------------------------------------------
(* Requests                                                                  *)

QueueTyped == /\ claim \in Requests \cup {Nobody}
              /\ request \in [Requests -> {"", "pending", "claimed", "accepted", "failed"}]

\* Only the loop registers the replay of a request, one at a time.
Starting(x) == run[x].pc = "register" /\ run[x].by # Nobody
StartInv == \A x \in Replays : Starting(x) => /\ pc = "register"
                                              /\ \A y \in Replays : Starting(y) => y = x

\* OneReplayPerRequest is not inductive: the row that is being started is claimed and has
\* no replay yet, and a row with a replay is never claimed again, since it is not pending.
OnceInv ==
    /\ pc = "start" => /\ claim \in Requests /\ request[claim] = "claimed"
                       /\ \A x \in Replays : run[x].by # claim
    /\ \A x \in Replays : run[x].by # Nobody => request[run[x].by] \notin {"", "pending"}
    /\ OneReplayPerRequest

QueueInv == /\ RunTyped /\ GroupTyped /\ QueueTyped /\ StartInv /\ OnceInv
            /\ pc \in PC \cup QueuePC

LEMMA NobodyAsks == Nobody \notin Requests
  BY ReplayBoundsTyped DEF Nobody, Requests

LEMMA LoopPC == Loop => pc \in PC /\ pc' \in PC
  BY ZenonT(60) DEF Loop, PC, Start, Configure, CheckRequests, PollEmpty, PollRecords, PollFatal, Pick, UpdateDocument,
         UpdateGraph, Mirror, Reject, Commit, CommitFails, BatchDone

\* A goroutine moves the loop only when it registers the replay of a request.
LEMMA GoroutineLoop ==
  ASSUME NEW x \in Replays, Goroutine(x)
  PROVE  /\ UNCHANGED <<request, claim, next, fetched, at, rec, reason, mirrored, committed,
                        produced, crashes, outcome>>
         /\ faults' \in {faults, faults + 1}
         /\ IF Register(x) /\ run[x].by # Nobody THEN Starting(x) /\ pc' = "answer" ELSE pc' = pc
  BY DEF Goroutine, Register, Join, PollSome, PollNone, PollFails, Handle, ReplayDocument, ReplayGraph,
         CommitReplay, Finish, WriteEnd, vars, liveVars, loopVars, Starting

LEMMA GoroutineTyped ==
  ASSUME RunTyped, GroupTyped, StoreTypeOK, NEW x \in Replays, Goroutine(x)
  PROVE  RunTyped' /\ GroupTyped'
<1>1. ASSUME UNCHANGED group PROVE GroupTyped'
  BY <1>1 DEF GroupTyped
<1>2. ASSUME run[x].pc \in {"join", "write"}, NEW m \in SUBSET Replays,
             NEW s \in Rebalanced(run[x].group, m), group' = [group EXCEPT ![run[x].group] = s]
      PROVE  GroupTyped'
  <2>1. run[x].group \in Groups
    BY <1>2 DEF RunTyped, InReach
  <2>2. s \in GroupStates
    BY <1>2, <2>1, RebalancedTyped
  <2> QED BY <1>2, <2>1, <2>2, OneGroupTyped
<1>3. CASE Register(x)
  BY <1>1, <1>3, RegisterTyped DEF Register
<1>4. CASE Join(x)
  <2>1. Members(run[x].group) \cup {x} \in SUBSET Replays
    BY MembersTyped
  <2> QED BY <1>2, <1>4, <2>1, RegisterTyped DEF Join
<1>5. CASE PollSome(x)
  BY <1>5, PollSomeTyped
<1>6. CASE PollNone(x) \/ PollFails(x)
  BY ZenonT(60), <1>1, <1>6, PollTyped DEF PollNone, PollFails
<1>7. ASSUME NEW p \in Partitions, Handle(x, p) PROVE RunTyped' /\ GroupTyped'
  BY <1>1, <1>7, HandleTyped DEF Handle
<1>8. CASE ReplayDocument(x) \/ ReplayGraph(x)
  BY <1>1, <1>8, ReplayStoreTyped DEF ReplayDocument, ReplayGraph
<1>9. CASE CommitReplay(x)
  BY <1>9, CommitTyped
<1>10. CASE Finish(x)
  BY <1>1, <1>10, FinishTyped DEF Finish
<1>11. CASE WriteEnd(x)
  <2>1. Members(run[x].group) \ {x} \in SUBSET Replays
    BY MembersTyped
  <2> QED BY <1>2, <1>11, <2>1, WriteEndTyped DEF WriteEnd
<1> QED BY <1>3, <1>4, <1>5, <1>6, <1>7, <1>8, <1>9, <1>10, <1>11 DEF Goroutine

\* A step that leaves the goroutines as they are keeps their types.
LEMMA SameRunsTyped ==
  ASSUME RunTyped, GroupTyped, UNCHANGED <<cancels, run, group>>
  PROVE  RunTyped' /\ GroupTyped'
  BY DEF RunTyped, GroupTyped

\* A step that leaves the queue and the goroutines as they are keeps QueueInv.
LEMMA SameQueue ==
  ASSUME QueueInv, UNCHANGED replayVars, pc' = pc \/ (pc \in PC /\ pc' \in PC)
  PROVE  QueueInv'
<1>1. RunTyped' /\ GroupTyped'
  BY SameRunsTyped DEF QueueInv, replayVars
<1>2. QueueTyped' /\ pc' \in PC \cup QueuePC
  BY DEF QueueInv, QueueTyped, replayVars
<1>3. StartInv'
  BY DEF QueueInv, StartInv, Starting, replayVars, PC
<1>4. OnceInv'
  BY DEF QueueInv, OnceInv, OneReplayPerRequest, replayVars, PC
<1> QED BY <1>1, <1>2, <1>3, <1>4 DEF QueueInv

LEMMA QueueGoroutine ==
  ASSUME QueueInv, StoreTypeOK, NEW x \in Replays, Goroutine(x)
  PROVE  QueueInv'
<1>1. Moves(x) /\ RunTyped' /\ GroupTyped'
  BY GoroutineMoves, GoroutineTyped DEF QueueInv
<1>2. \A y \in Replays : run'[y].by = run[y].by /\ (run'[y].pc = "register" => y # x /\ run'[y] = run[y])
  BY <1>1 DEF Moves
<1>3. /\ UNCHANGED <<request, claim>>
      /\ IF Register(x) /\ run[x].by # Nobody THEN Starting(x) /\ pc' = "answer" ELSE pc' = pc
  BY GoroutineLoop
<1>4. StartInv'
  <2>1. CASE Register(x) /\ run[x].by # Nobody
    BY <1>2, <1>3, <2>1 DEF QueueInv, StartInv, Starting
  <2>2. CASE ~(Register(x) /\ run[x].by # Nobody)
    BY <1>2, <1>3, <2>2 DEF QueueInv, StartInv, Starting
  <2> QED BY <2>1, <2>2
<1>5. OnceInv'
  <2>1. \A y \in Replays : run'[y].by = run[y].by
    BY <1>2
  <2>2. UNCHANGED <<request, claim>> /\ (pc' = "start" => pc = "start")
    BY <1>3
  <2> QED BY ZenonT(60), <2>1, <2>2 DEF QueueInv, OnceInv, OneReplayPerRequest
<1>6. QueueTyped' /\ pc' \in PC \cup QueuePC
  BY <1>3 DEF QueueInv, QueueTyped, QueuePC
<1> QED BY <1>1, <1>4, <1>5, <1>6 DEF QueueInv

\* The replay of a claimed row is the first of it; one by hand is of no row.
LEMMA QueueBegin ==
  ASSUME QueueInv, NEW x \in Unused, NEW by \in Requests \cup {Nobody}, Begin(x, by),
         \/ pc = "start" /\ by = claim /\ pc' = "register"
         \/ by = Nobody /\ pc' = pc
  PROVE  QueueInv'
<1>1. RunTyped' /\ Begins(x, by) /\ x \in Replays
  BY BeginMoves DEF QueueInv, Unused
<1>2. UNCHANGED <<request, claim, group>>
  BY DEF Begin
<1>3. GroupTyped' /\ QueueTyped' /\ pc' \in PC \cup QueuePC
  BY <1>2 DEF QueueInv, GroupTyped, QueueTyped, QueuePC
<1>4. by # Nobody => /\ pc = "start" /\ by = claim /\ pc' = "register"
                     /\ request[by] = "claimed" /\ \A y \in Replays : run[y].by # by
  BY DEF QueueInv, OnceInv
<1>5. StartInv'
  <2> SUFFICES ASSUME NEW y \in Replays, Starting(y)'
               PROVE  pc' = "register" /\ \A z \in Replays : Starting(z)' => z = y
    BY DEF StartInv
  <2>1. CASE by = Nobody
    BY <1>1, <2>1 DEF QueueInv, StartInv, Starting, Begins
  <2>2. CASE by # Nobody
    <3>1. \A z \in Replays : ~Starting(z)
      BY <1>4, <2>2 DEF QueueInv, StartInv
    <3> QED BY <1>1, <1>4, <2>2, <3>1 DEF Starting, Begins
  <2> QED BY <2>1, <2>2
<1>6. OnceInv'
  <2>1. pc' # "start" \/ by = Nobody
    OBVIOUS
  <2>2. CASE by = Nobody
    <3>1. \A y \in Replays : run'[y].by = IF y = x THEN Nobody ELSE run[y].by
      BY <1>1, <2>2 DEF Begins
    <3>2. pc' = "start" => pc = "start"
      OBVIOUS
    <3>3. pc' = "start" => /\ claim' \in Requests /\ request'[claim'] = "claimed"
                           /\ \A y \in Replays : run'[y].by # claim'
      BY <1>2, <3>1, <3>2, NobodyAsks DEF QueueInv, OnceInv
    <3>4. \A y \in Replays : run'[y].by # Nobody => request'[run'[y].by] \notin {"", "pending"}
      BY <1>2, <3>1 DEF QueueInv, OnceInv
    <3>5. OneReplayPerRequest'
      BY <3>1 DEF QueueInv, OnceInv, OneReplayPerRequest
    <3> QED BY <3>3, <3>4, <3>5 DEF OnceInv
  <2>3. CASE by # Nobody
    BY ZenonT(60), <1>1, <1>2, <1>4, <2>3 DEF QueueInv, OnceInv, OneReplayPerRequest, Begins
  <2> QED BY <2>2, <2>3
<1> QED BY <1>1, <1>3, <1>5, <1>6 DEF QueueInv

LEMMA QueueStep == QueueInv /\ StoreTypeOK /\ [ReplayNext]_allVars => QueueInv'
<1> SUFFICES ASSUME QueueInv, StoreTypeOK, [ReplayNext]_allVars PROVE QueueInv'
  OBVIOUS
<1>1. CASE Live
  BY <1>1, LoopPC, SameQueue DEF Live
<1>2. CASE Claim
  <2>1. PICK q \in Pending : claim' = q /\ request' = [request EXCEPT ![q] = "claimed"]
    BY <1>2 DEF Claim
  <2>2. q \in Requests /\ request[q] = "pending"
    BY DEF Pending
  <2>3. pc = "requests" /\ pc' = "start" /\ UNCHANGED <<cancels, run, group>>
    BY <1>2 DEF Claim
  <2>4. \A x \in Replays : run[x].by # q
    BY <2>2, NobodyAsks DEF QueueInv, OnceInv
  <2>5. RunTyped' /\ GroupTyped' /\ QueueTyped' /\ pc' \in PC \cup QueuePC
    BY <2>1, <2>2, <2>3, SameRunsTyped DEF QueueInv, QueueTyped, QueuePC
  <2>6. StartInv'
    BY <2>3 DEF QueueInv, StartInv, Starting
  <2>7. OnceInv'
    <3>1. request'[q] = "claimed" /\ \A o \in Requests : o # q => request'[o] = request[o]
      BY <2>1, <2>2 DEF QueueInv, QueueTyped
    <3>2. \A x \in Replays : run[x].by # Nobody => run[x].by \in Requests \ {q}
      BY <2>4 DEF QueueInv, RunTyped, Goroutines
    <3>3. \A x \in Replays : run[x].by # Nobody => request'[run[x].by] \notin {"", "pending"}
      BY <3>1, <3>2 DEF QueueInv, OnceInv
    <3>4. OneReplayPerRequest'
      BY <2>3 DEF QueueInv, OnceInv, OneReplayPerRequest
    <3> QED BY <2>1, <2>2, <2>3, <2>4, <3>1, <3>3, <3>4 DEF OnceInv
  <2> QED BY <2>5, <2>6, <2>7 DEF QueueInv
<1>3. CASE BeginRequested
  <2>1. pc = "start"
    BY <1>3 DEF BeginRequested
  <2>2. ASSUME NEW x \in Unused, Begin(x, claim), pc' = "register" PROVE QueueInv'
    <3>1. claim \in Requests \cup {Nobody}
      BY DEF QueueInv, QueueTyped
    <3> QED BY <2>1, <2>2, <3>1, QueueBegin
  <2>3. CASE pc' = "refuse" /\ UNCHANGED replayVars
    <3>1. RunTyped' /\ GroupTyped'
      BY <2>3, SameRunsTyped DEF QueueInv, replayVars
    <3>2. QueueTyped' /\ pc' \in PC \cup QueuePC /\ StartInv' /\ OnceInv'
      BY <2>1, <2>3 DEF QueueInv, QueueTyped, QueuePC, StartInv, Starting, OnceInv, OneReplayPerRequest,
                        replayVars
    <3> QED BY <3>1, <3>2 DEF QueueInv
  <2> QED BY <1>3, <2>2, <2>3 DEF BeginRequested
<1>4. CASE Answer
  <2>1. /\ request' = [request EXCEPT ![claim] = IF pc = "answer" THEN "accepted" ELSE "failed"]
        /\ claim' = Nobody /\ pc \in {"answer", "refuse"} /\ pc' \in {"poll", "note"}
        /\ UNCHANGED <<cancels, run, group>>
    BY <1>4 DEF Answer
  <2>2. RunTyped' /\ GroupTyped' /\ QueueTyped' /\ pc' \in PC \cup QueuePC
    BY <2>1, SameRunsTyped DEF QueueInv, QueueTyped, QueuePC, PC
  <2>3. StartInv'
    BY <2>1 DEF QueueInv, StartInv, Starting
  <2>4. ASSUME NEW x \in Replays, run[x].by # Nobody PROVE request'[run[x].by] \notin {"", "pending"}
    <3>1. run[x].by \in Requests
      BY <2>4 DEF QueueInv, RunTyped, Goroutines
    <3> QED BY <2>1, <2>4, <3>1 DEF QueueInv, QueueTyped, OnceInv
  <2>5. OnceInv'
    BY <2>1, <2>4 DEF QueueInv, OnceInv, OneReplayPerRequest
  <2> QED BY <2>2, <2>3, <2>5 DEF QueueInv
<1>5. CASE Note
  <2>1. UNCHANGED replayVars /\ pc = "note" /\ pc' = "poll"
    BY <1>5 DEF Note
  <2>2. RunTyped' /\ GroupTyped'
    BY <2>1, SameRunsTyped DEF QueueInv, replayVars
  <2>3. QueueTyped' /\ pc' \in PC \cup QueuePC /\ StartInv' /\ OnceInv'
    BY <2>1 DEF QueueInv, QueueTyped, PC, StartInv, Starting, OnceInv, OneReplayPerRequest, replayVars
  <2> QED BY <2>2, <2>3 DEF QueueInv
<1>6. CASE BeginByHand
  <2>1. PICK x \in Unused : Begin(x, Nobody)
    BY <1>6 DEF BeginByHand
  <2>2. pc' = pc
    BY <1>6 DEF BeginByHand, liveVars, loopVars
  <2> QED BY <2>1, <2>2, QueueBegin
<1>7. ASSUME NEW q \in Requests, Submit(q) PROVE QueueInv'
  <2>1. /\ request[q] = "" /\ request' = [request EXCEPT ![q] = "pending"]
        /\ UNCHANGED <<pc, claim, cancels, run, group>>
    BY <1>7 DEF Submit, vars, loopVars
  <2>2. RunTyped' /\ GroupTyped' /\ QueueTyped' /\ pc' \in PC \cup QueuePC /\ StartInv'
    BY <2>1, SameRunsTyped DEF QueueInv, QueueTyped, StartInv, Starting
  <2>3. ASSUME NEW x \in Replays, run[x].by # Nobody PROVE request'[run[x].by] \notin {"", "pending"}
    <3>1. run[x].by \in Requests /\ run[x].by # q
      BY <2>1, <2>3 DEF QueueInv, RunTyped, Goroutines, OnceInv
    <3> QED BY <2>1, <2>3, <3>1 DEF QueueInv, QueueTyped, OnceInv
  <2>4. pc = "start" => claim # q
    BY <2>1 DEF QueueInv, OnceInv
  <2>5. OnceInv'
    BY <2>1, <2>3, <2>4 DEF QueueInv, QueueTyped, OnceInv, OneReplayPerRequest
  <2> QED BY <2>2, <2>5 DEF QueueInv
<1>8. ASSUME NEW x \in Replays, Goroutine(x) PROVE QueueInv'
  BY <1>8, QueueGoroutine
<1>9. CASE CrashAll
  <2>1. Dies /\ RunTyped' /\ GroupTyped'
    BY <1>9, CrashMoves, CrashTyped DEF QueueInv
  <2>2. pc' = "down" /\ claim' = Nobody /\ request' = request
    BY <1>9 DEF CrashAll, Crash
  <2>3. QueueTyped' /\ pc' \in PC \cup QueuePC
    BY <2>2 DEF QueueInv, QueueTyped, PC
  <2>4. StartInv'
    BY <2>1 DEF Dies, StartInv, Starting
  <2>5. OnceInv'
    <3>1. \A y \in Replays : run'[y].by = run[y].by
      BY <2>1 DEF Dies
    <3>2. \A y \in Replays : run'[y].by # Nobody => request'[run'[y].by] \notin {"", "pending"}
      BY <2>2, <3>1 DEF QueueInv, OnceInv
    <3>3. OneReplayPerRequest'
      BY ZenonT(60), <3>1 DEF QueueInv, OnceInv, OneReplayPerRequest
    <3> QED BY <2>2, <3>2, <3>3 DEF OnceInv
  <2> QED BY <2>1, <2>3, <2>4, <2>5 DEF QueueInv
<1>10. CASE (Stopped /\ UNCHANGED replayVars) \/ UNCHANGED allVars
  BY <1>10, SameQueue DEF Stopped, allVars, vars, loopVars
<1> QED BY <1>1, <1>2, <1>3, <1>4, <1>5, <1>6, <1>7, <1>8, <1>9, <1>10 DEF ReplayNext, Queue

-----------------------------------------------------------------------------
(* The loop and the store beside replays                                     *)

ReplayInv == KeptInv /\ QueueInv

\* What a step may do to the store.
LEMMA ReplayStore ==
  ASSUME ReplayInv, [ReplayNext]_allVars
  PROVE  \/ StoreOpened
         \/ StoreLost
         \/ \E d \in Document : Update(d)
         \/ \E r \in Records : AppendGraph(r)
         \/ UNCHANGED storeVars
<1>d. doc \in Document
  BY DEF ReplayInv, KeptInv, StoreTypeOK
<1>1. CASE Live \/ (Stopped /\ UNCHANGED replayVars)
  <2>1. TypeOK /\ [Next]_vars
    BY <1>1, LoopPC, KeptIsInv DEF Live, Next, ReplayInv, Inv, Stopped, PC
  <2> QED BY <2>1, StoreStep
<1>2. CASE Claim \/ Answer \/ CrashAll
  BY <1>2 DEF Claim, Answer, CrashAll, Crash
<1>3. CASE BeginRequested \/ BeginByHand \/ Note
  BY <1>3, <1>d DEF BeginRequested, BeginByHand, Note, Begin, UpdateSessions, TryUpdate, UpdateFails
<1>4. ASSUME NEW q \in Requests, Submit(q) PROVE UNCHANGED storeVars
  BY <1>4 DEF Submit, vars
<1>5. ASSUME NEW x \in Replays, Goroutine(x)
      PROVE  \/ \E d \in Document : Update(d)
             \/ \E r \in Records : AppendGraph(r)
             \/ UNCHANGED storeVars
  <2>1. CASE ReplayDocument(x) \/ ReplayGraph(x)
    BY <2>1, ReplayStoreTyped DEF ReplayInv, KeptInv, QueueInv
  <2>2. CASE WriteEnd(x)
    BY SMTT(60), <2>2, <1>d DEF WriteEnd, UpdateSessions, UpdateFails
  <2>3. CASE ~(ReplayDocument(x) \/ ReplayGraph(x) \/ WriteEnd(x))
    BY <1>5, <2>3 DEF Goroutine, Register, Join, PollSome, PollNone, PollFails, Handle, CommitReplay,
                      Finish, vars
  <2> QED BY <2>1, <2>2, <2>3
<1>6. CASE UNCHANGED allVars
  BY <1>6 DEF allVars, vars
<1> QED BY <1>1, <1>2, <1>3, <1>4, <1>5, <1>6 DEF ReplayNext, Queue

LEMMA ReplayStoreTypes == ReplayInv /\ [ReplayNext]_allVars => StoreTypeOK'
<1> SUFFICES ASSUME ReplayInv, [ReplayNext]_allVars PROVE StoreTypeOK'
  OBVIOUS
<1>1. StoreTypeOK
  BY DEF ReplayInv, KeptInv
<1> QED BY <1>1, ReplayStore, OpenedTyped, LostTyped, UpdateTyped, AppendTyped, SameTyped

\* A step beside the loop leaves the batch, its offsets and its outcomes alone.
Beside == /\ UNCHANGED <<next, fetched, at, rec, reason, mirrored, committed, produced, crashes, outcome>>
          /\ faults' \in {faults, faults + 1}
          /\ \/ pc' = pc
             \/ pc \in QueuePC \cup {"requests"} /\ pc' \in QueuePC \cup {"poll"}

LEMMA ReplaySteps ==
  ASSUME ReplayInv, [ReplayNext]_allVars
  PROVE  \/ pc \in PC /\ [Next]_vars
         \/ Crash
         \/ Beside
<1>1. CASE Live \/ (Stopped /\ UNCHANGED replayVars)
  BY <1>1, LoopPC DEF Live, Next, Stopped, PC
<1>2. CASE Claim \/ BeginRequested \/ Answer \/ Note
  BY <1>2 DEF Claim, BeginRequested, Answer, Note, QueuePC, Beside, ReplayInv, KeptInv, LoopTypeOK
<1>3. CASE BeginByHand \/ UNCHANGED allVars
  BY <1>3 DEF BeginByHand, liveVars, allVars, vars, loopVars, Beside
<1>4. ASSUME NEW q \in Requests, Submit(q) PROVE Beside
  BY <1>4 DEF Submit, vars, loopVars, Beside
<1>5. ASSUME NEW x \in Replays, Goroutine(x) PROVE Beside
  <2>1. Starting(x) => pc = "register"
    BY DEF ReplayInv, QueueInv, StartInv
  <2> QED BY <1>5, <2>1, GoroutineLoop DEF Beside, QueuePC
<1>6. CASE CrashAll
  BY <1>6 DEF CrashAll
<1> QED BY <1>1, <1>2, <1>3, <1>4, <1>5, <1>6 DEF ReplayNext, Queue

LEMMA KeptStep == ReplayInv /\ [ReplayNext]_allVars => KeptInv'
<1> SUFFICES ASSUME ReplayInv, [ReplayNext]_allVars PROVE KeptInv'
  OBVIOUS
<1>t. StoreTypeOK'
  BY ReplayStoreTypes
<1>k. KeptInv
  BY DEF ReplayInv
<1>1. CASE pc \in PC /\ [Next]_vars
  <2>1. Inv /\ Inv'
    BY <1>1, <1>k, KeptIsInv, StepInv
  <2>2. pc' \in PC
    BY <2>1 DEF Inv, TypeOK
  <2> QED BY <2>1, <2>2, <1>t DEF Inv, TypeOK, KeptInv, LoopTypeOK
<1>2. CASE Crash
  <2>1. /\ UNCHANGED <<committed, produced, faults, outcome>> /\ crashes' = crashes + 1 /\ pc' = "down"
        /\ next' = committed /\ fetched' = committed /\ at' = CHOOSE p \in Partitions : TRUE
        /\ rec' = Null /\ reason' = "" /\ mirrored' = FALSE
    BY <1>2 DEF Crash, Idle
  <2>2. LoopTypeOK'
    <3>t. LoopTypeOK
      BY <1>k DEF KeptInv
    <3>1. ASSUME NEW p \in Partitions
          PROVE  committed'[p] <= next'[p] /\ next'[p] <= fetched'[p] /\ fetched'[p] <= Len(Log[p])
      <4>1. committed[p] \in Nat /\ next[p] \in Nat /\ fetched[p] \in Nat /\ Len(Log[p]) \in Nat
        BY <3>t, LogRecords DEF LoopTypeOK
      <4>2. committed[p] <= next[p] /\ next[p] <= fetched[p] /\ fetched[p] <= Len(Log[p])
        BY <3>t DEF LoopTypeOK
      <4>3. committed'[p] = committed[p] /\ next'[p] = committed[p] /\ fetched'[p] = committed[p]
        BY <2>1
      <4>4. committed[p] <= Len(Log[p]) /\ committed[p] <= committed[p]
        BY <4>1, <4>2
      <4> QED BY <4>3, <4>4
    <3>2. /\ committed' \in [Partitions -> Nat] /\ next' \in [Partitions -> Nat]
          /\ fetched' \in [Partitions -> Nat] /\ outcome' \in [Records -> SUBSET Outcomes]
      BY <2>1, <3>t DEF LoopTypeOK
    <3>3. produced' \in Nat /\ crashes' \in Nat /\ faults' \in Nat /\ mirrored' \in BOOLEAN
      <4>1. produced \in Nat /\ crashes \in Nat /\ faults \in Nat
        BY <3>t DEF LoopTypeOK
      <4>2. produced' = produced /\ crashes' = crashes + 1 /\ faults' = faults /\ mirrored' = FALSE
        BY <2>1
      <4>3. produced' \in Nat /\ crashes' \in Nat /\ faults' \in Nat
        BY <4>1, <4>2
      <4>4. mirrored' \in BOOLEAN
        BY <4>2
      <4> QED BY <4>3, <4>4
    <3>4. at' \in Partitions
      BY <2>1, ChosenPartition
    <3> QED BY <2>1, <3>1, <3>2, <3>3, <3>4 DEF LoopTypeOK
  <2>3. Resolved' = Resolved
    BY <2>1 DEF Resolved
  <2>4. CommittedResolved' /\ RecordInFlight' /\ BatchHandled'
    BY <1>k, <2>1, <2>3 DEF KeptInv, CommittedResolved, RecordInFlight, BatchHandled, InFlight
  <2> QED BY <1>t, <2>1, <2>2, <2>4 DEF KeptInv, PC
<1>3. CASE Beside
  <2>1. LoopTypeOK'
    <3>0. faults \in Nat /\ faults' \in {faults, faults + 1}
      BY <1>k, <1>3 DEF Beside, KeptInv, LoopTypeOK
    <3>1. faults' \in Nat
      BY <3>0
    <3>2. pc' = pc \/ pc' \notin {"update", "graph", "mirror", "reject"}
      BY <1>3 DEF Beside, QueuePC
    <3>3. UNCHANGED <<next, fetched, at, rec, reason, mirrored, committed, produced, crashes, outcome>>
      BY <1>3 DEF Beside
    <3> QED BY <1>k, <3>1, <3>2, <3>3 DEF KeptInv, LoopTypeOK
  <2>2. Resolved' = Resolved
    BY <1>3 DEF Beside, Resolved
  <2>3. pc' \in PC \cup QueuePC /\ (pc' \in InFlight <=> pc \in InFlight)
    BY <1>k, <1>3 DEF Beside, KeptInv, QueuePC, PC, InFlight
  <2>4. CommittedResolved' /\ RecordInFlight' /\ BatchHandled'
    BY <1>k, <1>3, <2>2, <2>3 DEF Beside, KeptInv, CommittedResolved, RecordInFlight, BatchHandled
  <2> QED BY <1>t, <2>1, <2>3, <2>4 DEF KeptInv
<1> QED BY <1>1, <1>2, <1>3, ReplaySteps

LEMMA ReplayInvariant == ReplaySpec => []ReplayInv
<1>1. ReplayInit => ReplayInv
  <2> SUFFICES ASSUME ReplayInit PROVE ReplayInv
    OBVIOUS
  <2>1. \A x \in Replays : run[x] = NoRun /\ NoRun.by = Nobody /\ NoRun.pc = "none"
    BY DEF ReplayInit, NoRun
  <2>2. pc = "down" /\ claim = Nobody /\ request = [q \in Requests |-> ""]
    BY DEF ReplayInit, Init
  <2>3. QueueTyped /\ StartInv /\ OnceInv /\ pc \in PC
    BY <2>1, <2>2 DEF QueueTyped, StartInv, Starting, OnceInv, OneReplayPerRequest, PC
  <2> QED BY <2>3, ReplayInitTyped DEF ReplayInv, QueueInv
<1>2. ReplayInv /\ [ReplayNext]_allVars => ReplayInv'
  BY KeptStep, QueueStep DEF ReplayInv, KeptInv
<1> QED BY <1>1, <1>2, PTL DEF ReplaySpec

\* A request starts one replay at most, whatever dies between the transactions that claim
\* it, insert its session and answer it (processReplayRequests, startReplayWithTopics).
THEOREM RequestsStartOnce == ReplaySpec => []OneReplayPerRequest
<1>1. ReplayInv => OneReplayPerRequest
  BY DEF ReplayInv, QueueInv, OnceInv
<1> QED BY <1>1, ReplayInvariant, PTL

\* Beside any number of replays the tracking loop is still a consumer that gives each
\* record of a partition its outcome in order and commits after it: replays commit to
\* groups of their own and nothing they do to the store moves the loop's offsets.
THEOREM LoopUndisturbed == ReplaySpec => ConsumesAtLeastOnce
<1>1. ReplayInit => Consumer!Init
  BY RefinesInit DEF ReplayInit
<1>2. ReplayInv /\ [ReplayNext]_allVars => [Consumer!Next]_(Consumer!vars)
  <2> SUFFICES ASSUME ReplayInv, [ReplayNext]_allVars PROVE [Consumer!Next]_(Consumer!vars)
    OBVIOUS
  <2>1. CASE pc \in PC /\ [Next]_vars
    BY <2>1, KeptIsInv, RefinesStep DEF ReplayInv
  <2>2. CASE Crash \/ Beside
    <3>1. committed' = committed /\ Resolved' = Resolved
      BY <2>2 DEF Crash, Beside, Resolved
    <3> QED BY <3>1 DEF Consumer!vars
  <2> QED BY <2>1, <2>2, ReplaySteps
<1> QED BY <1>1, <1>2, ReplayInvariant, PTL DEF ReplaySpec, ConsumesAtLeastOnce, Consumer!Spec

\* The graph tables agree with each other and with `messages` while replays write them too.
THEOREM GraphUndisturbed == ReplaySpec => []GraphConsistent
<1>1. ReplayInit => GraphConsistent
  BY DEF ReplayInit, Init, StoreInit, GraphConsistent
<1>2. ReplayInv /\ GraphConsistent /\ [ReplayNext]_allVars => GraphConsistent'
  BY ReplayStore, GraphStep DEF ReplayInv, KeptInv, StoreOpened, StoreLost, storeVars
<1> QED BY <1>1, <1>2, ReplayInvariant, PTL DEF ReplaySpec

-----------------------------------------------------------------------------
(* Groups                                                                    *)

Handled(g, p, i) == \E x \in Replays : run[x].group = g /\ (<<p, i>> \in run[x].seen \/ run[x].count >= limit)
Batching(x)      == run[x].pc \in {"batch", "doc", "graph"}
InBatch(x, p, i) == Batching(x) /\ run[x].next[p] < i /\ i <= run[x].fetched[p]

\* GroupCommitsHandled is not inductive.  What a member has fetched of a partition it holds
\* is handled or still to come in its batch, and what lies before its place in the batch is
\* handled, by it or by who held the partition before; a partition that changes hands is
\* read again from what is committed.
HolderOf(g, p)  == group[g].holder[p]
HoldersJoined   == \A g \in Groups, p \in Partitions : HolderOf(g, p) # Nobody =>
                      HolderOf(g, p) \in Members(g)
CommitsHandled  == \A g \in Groups, p \in Partitions : \A i \in 1 .. group[g].committed[p] : Handled(g, p, i)
FetchedInHand   == \A g \in Groups, p \in Partitions : HolderOf(g, p) # Nobody =>
                      \A i \in 1 .. group[g].pos[p] : Handled(g, p, i) \/ InBatch(HolderOf(g, p), p, i)
BatchBehind     == \A x \in Replays, p \in Partitions : Batching(x) /\ run[x].fetched[p] > 0 =>
                      \A i \in 1 .. run[x].next[p] : Handled(run[x].group, p, i)
HandInv == /\ \A x \in Replays : run[x].pc = "none" => run[x].group = Nobody
           /\ HoldersJoined /\ CommitsHandled /\ FetchedInHand /\ BatchBehind

\* A goroutine keeps its group, and what it has handled.
Grows(x) == run[x].pc # "none" => /\ run'[x].group = run[x].group /\ run'[x].pc # "none"
                                  /\ run[x].seen \subseteq run'[x].seen
                                  /\ run[x].count <= run'[x].count

LEMMA HandledKept ==
  ASSUME HandInv, RunTyped, RunTyped', limit' = limit, limit \in Nat, \A x \in Replays : Grows(x),
         NEW g \in Groups, NEW p, NEW i, Handled(g, p, i)
  PROVE  Handled(g, p, i)'
<1>1. PICK x \in Replays : run[x].group = g /\ (<<p, i>> \in run[x].seen \/ run[x].count >= limit)
  BY DEF Handled
<1>2. g # Nobody
  BY ReplayBoundsTyped DEF Groups, Replays, Nobody
<1>3. run[x].pc # "none"
  BY <1>1, <1>2 DEF HandInv
<1>4. run[x].count \in Nat /\ run'[x].count \in Nat
  BY DEF RunTyped, Goroutines
<1>5. /\ run'[x].group = g
      /\ <<p, i>> \in run'[x].seen \/ run'[x].count >= limit'
  BY <1>1, <1>3, <1>4 DEF Grows
<1> QED BY <1>5 DEF Handled

\* When one goroutine moves, all keep what they have handled.
LEMMA AllGrow ==
  ASSUME RunTyped, NEW x \in Replays, \A y \in Replays : y # x => run'[y] = run[y], Grows(x)
  PROVE  \A y \in Replays : Grows(y)
<1>1. ASSUME NEW y \in Replays, y # x PROVE Grows(y)
  <2>1. run'[y] = run[y] /\ run[y].count \in Nat
    BY <1>1 DEF RunTyped, Goroutines
  <2> QED BY <2>1 DEF Grows
<1> QED BY <1>1

\* What a step of one goroutine has to do to keep HandInv.
LEMMA HandStep ==
  ASSUME HandInv, RunTyped, GroupTyped, RunTyped', GroupTyped', limit' = limit, limit \in Nat,
         NEW x \in Replays, \A y \in Replays : y # x => run'[y] = run[y], Grows(x), run'[x].pc # "none",
         HoldersJoined',
         \A g \in Groups, p \in Partitions : \A i \in 1 .. group'[g].committed[p] :
            i \in 1 .. group[g].committed[p] \/ Handled(g, p, i)',
         \A g \in Groups, p \in Partitions : HolderOf(g, p)' # Nobody =>
            \A i \in 1 .. group'[g].pos[p] :
               Handled(g, p, i) \/ Handled(g, p, i)' \/ InBatch(HolderOf(g, p), p, i)',
         \A p \in Partitions : Batching(x)' /\ run'[x].fetched[p] > 0 =>
            \A i \in 1 .. run'[x].next[p] :
               Handled(run[x].group, p, i) \/ Handled(run[x].group, p, i)',
         run[x].pc # "none" \/ ~Batching(x)'
  PROVE  HandInv'
<1>1. \A y \in Replays : Grows(y)
  BY AllGrow
<1>2. ASSUME NEW g \in Groups, NEW p, NEW i, Handled(g, p, i) PROVE Handled(g, p, i)'
  BY <1>1, <1>2, HandledKept
<1>3. \A y \in Replays : run'[y].pc = "none" => run'[y].group = Nobody
  BY DEF HandInv
<1>4. CommitsHandled'
  BY <1>2 DEF HandInv, CommitsHandled
<1>5. FetchedInHand'
  BY <1>2 DEF FetchedInHand, HolderOf
<1>6. ASSUME NEW y \in Replays, NEW p \in Partitions, Batching(y)', run'[y].fetched[p] > 0,
             NEW i \in 1 .. run'[y].next[p]
      PROVE  Handled(run[y].group, p, i)' /\ run'[y].group = run[y].group
  <2>1. CASE y # x
    <3>1. run'[y] = run[y] /\ Batching(y)
      BY <1>6, <2>1 DEF Batching
    <3>2. run[y].group \in Groups
      BY <3>1 DEF RunTyped, InReach, Batching
    <3>3. Handled(run[y].group, p, i)
      BY <1>6, <3>1 DEF HandInv, BatchBehind
    <3> QED BY <1>2, <3>1, <3>2, <3>3
  <2>2. CASE y = x
    <3>1. run[x].pc # "none" /\ run'[x].group = run[x].group
      BY <1>6, <2>2 DEF Grows
    <3>2. run[x].group \in Groups
      BY <3>1 DEF RunTyped, InReach
    <3> QED BY <1>2, <1>6, <2>2, <3>1, <3>2
  <2> QED BY <2>1, <2>2
<1>7. BatchBehind'
  <2> SUFFICES ASSUME NEW y \in Replays, NEW p \in Partitions, Batching(y)', run'[y].fetched[p] > 0,
                      NEW i \in 1 .. run'[y].next[p]
               PROVE  Handled(run[y].group, p, i)'
    BY DEF BatchBehind
  <2>1. Handled(run[y].group, p, i)' /\ run'[y].group = run[y].group
    BY <1>6
  <2> QED BY <2>1 DEF Handled
<1> QED BY <1>3, <1>4, <1>5, <1>7 DEF HandInv

\* A goroutine that goes on beside an unchanged group.
LEMMA HandSame ==
  ASSUME HandInv, RunTyped, GroupTyped, RunTyped', limit' = limit, limit \in Nat, UNCHANGED group,
         NEW x \in Replays, \A y \in Replays : y # x => run'[y] = run[y], Grows(x), run'[x].pc # "none",
         run[x].pc \in Joined => run'[x].pc \in Joined,
         \A p \in Partitions, i \in Nat : InBatch(x, p, i) => InBatch(x, p, i)' \/ Handled(run[x].group, p, i)',
         \A p \in Partitions : Batching(x)' /\ run'[x].fetched[p] > 0 =>
            \A i \in 1 .. run'[x].next[p] :
               Handled(run[x].group, p, i) \/ Handled(run[x].group, p, i)',
         run[x].pc # "none" \/ ~Batching(x)'
  PROVE  HandInv'
<1>1. GroupTyped'
  BY DEF GroupTyped
<1>2. ASSUME NEW g \in Groups, NEW p \in Partitions, HolderOf(g, p) # Nobody
      PROVE  HolderOf(g, p)' = HolderOf(g, p) /\ HolderOf(g, p) \in Members(g)' /\ HolderOf(g, p) \in Members(g)
  <2>1. HolderOf(g, p) \in Members(g) /\ HolderOf(g, p)' = HolderOf(g, p)
    BY <1>2 DEF HandInv, HoldersJoined, HolderOf
  <2>2. HolderOf(g, p) \in Replays /\ run[HolderOf(g, p)].group = g /\ run[HolderOf(g, p)].pc \in Joined
    BY <2>1 DEF Members
  <2>3. run'[HolderOf(g, p)].group = g /\ run'[HolderOf(g, p)].pc \in Joined
    BY <2>2 DEF Grows, Joined
  <2> QED BY <2>1, <2>2, <2>3 DEF Members
<1>3. HoldersJoined'
  BY <1>2 DEF HoldersJoined, HolderOf
<1>4. ASSUME NEW g \in Groups, NEW p \in Partitions, HolderOf(g, p)' # Nobody, NEW i \in 1 .. group'[g].pos[p]
      PROVE  Handled(g, p, i) \/ Handled(g, p, i)' \/ InBatch(HolderOf(g, p), p, i)'
  <2>1. HolderOf(g, p)' = HolderOf(g, p) /\ HolderOf(g, p) \in Members(g)
    BY <1>2, <1>4 DEF HolderOf
  <2>2. Handled(g, p, i) \/ InBatch(HolderOf(g, p), p, i)
    BY <1>4, <2>1 DEF HandInv, FetchedInHand, HolderOf
  <2>3. CASE HolderOf(g, p) = x /\ InBatch(x, p, i)
    <3>1. run[x].group = g /\ run'[x].group = g
      BY <2>1, <2>3 DEF Members, Joined, Grows
    <3>2. i \in Nat
      BY <1>4 DEF GroupTyped, GroupStates
    <3>3. InBatch(x, p, i)' \/ Handled(run[x].group, p, i)'
      BY <2>3, <3>2
    <3>4. InBatch(x, p, i)' \/ Handled(g, p, i)'
      BY <3>1, <3>3 DEF Handled
    <3> QED BY <2>1, <2>3, <3>4 DEF InBatch, Batching, HolderOf
  <2>4. CASE HolderOf(g, p) # x /\ InBatch(HolderOf(g, p), p, i)
    <3>1. HolderOf(g, p) \in Replays /\ run'[HolderOf(g, p)] = run[HolderOf(g, p)]
      BY <2>1, <2>4 DEF Members
    <3> QED BY <2>1, <2>4, <3>1 DEF InBatch, Batching, HolderOf
  <2> QED BY <2>2, <2>3, <2>4
<1>5. \A g \in Groups, p \in Partitions : \A i \in 1 .. group'[g].committed[p] :
            i \in 1 .. group[g].committed[p] \/ Handled(g, p, i)'
  OBVIOUS
<1> QED BY <1>1, <1>3, <1>4, <1>5, HandStep

\* The partitions of a group are handed out again: who gets another starts from what is
\* committed, and who keeps its own is where it was.
LEMMA HandRebalanced ==
  ASSUME HandInv, RunTyped, GroupTyped, RunTyped', GroupTyped', limit' = limit, limit \in Nat,
         NEW x \in Replays, run[x].pc \in {"join", "write"},
         \A y \in Replays : y # x => run'[y] = run[y], Grows(x), ~Batching(x)',
         NEW m \in SUBSET Replays, \A y \in m : run'[y].group = run[x].group /\ run'[y].pc \in Joined,
         NEW s \in Rebalanced(run[x].group, m), group' = [group EXCEPT ![run[x].group] = s]
  PROVE  HandInv'
<1>0. PICK G \in Groups : G = run[x].group
  BY DEF RunTyped, InReach
<1> DEFINE assignments == IF m = {} THEN {[p \in Partitions |-> Nobody]} ELSE [Partitions -> m]
<1>1. group[G] \in GroupStates /\ run'[x].pc # "none"
  BY DEF GroupTyped, Grows
<1>s. s \in Rebalanced(G, m)
  BY SMTT(60), <1>0
<1>2. PICK h \in assignments :
        s = [group[G] EXCEPT
              !.holder = h,
              !.pos = [p \in Partitions |->
                         IF h[p] = group[G].holder[p] THEN group[G].pos[p] ELSE group[G].committed[p]]]
  BY <1>s DEF Rebalanced
<1>3. \A p \in Partitions : h[p] = Nobody \/ h[p] \in m
  OBVIOUS
<1>4. ASSUME NEW p \in Partitions
      PROVE  /\ HolderOf(G, p)' = h[p] /\ group'[G].committed = group[G].committed
             /\ group'[G].pos[p] = IF h[p] = HolderOf(G, p) THEN group[G].pos[p] ELSE group[G].committed[p]
  <2>1. group'[G] = s
    BY <1>0 DEF GroupTyped
  <2>2. /\ s.holder = h /\ s.committed = group[G].committed
        /\ s.pos[p] = IF h[p] = group[G].holder[p] THEN group[G].pos[p] ELSE group[G].committed[p]
    BY <1>1, <1>2 DEF GroupStates
  <2> QED BY <2>1, <2>2 DEF HolderOf
<1>5. \A g \in Groups : g # G => group'[g] = group[g]
  BY <1>0 DEF GroupTyped
<1>6. ASSUME NEW g \in Groups, g # G, NEW p \in Partitions, HolderOf(g, p) # Nobody
      PROVE  /\ HolderOf(g, p)' = HolderOf(g, p) /\ HolderOf(g, p) \in Members(g)
             /\ HolderOf(g, p) # x /\ run'[HolderOf(g, p)] = run[HolderOf(g, p)]
  BY <1>0, <1>5, <1>6 DEF HandInv, HoldersJoined, HolderOf, Members
<1>7. HoldersJoined'
  <2> SUFFICES ASSUME NEW g \in Groups, NEW p \in Partitions, HolderOf(g, p)' # Nobody
               PROVE  HolderOf(g, p)' \in Members(g)'
    BY DEF HoldersJoined
  <2>1. CASE g = G
    <3>1. HolderOf(g, p)' \in m
      BY <1>3, <1>4, <2>1
    <3>2. HolderOf(g, p)' \in Replays /\ run'[HolderOf(g, p)'].group = G /\ run'[HolderOf(g, p)'].pc \in Joined
      BY <1>0, <3>1
    <3> QED BY <2>1, <3>2 DEF Members
  <2>2. CASE g # G
    <3>1. HolderOf(g, p)' = HolderOf(g, p)
      BY <1>5, <2>2 DEF HolderOf
    <3>2. HolderOf(g, p) \in Members(g) /\ run'[HolderOf(g, p)] = run[HolderOf(g, p)]
      BY <1>6, <2>2, <3>1
    <3> QED BY <3>1, <3>2 DEF Members
  <2> QED BY <2>1, <2>2
<1>8. \A g \in Groups, p \in Partitions : \A i \in 1 .. group'[g].committed[p] :
            i \in 1 .. group[g].committed[p] \/ Handled(g, p, i)'
  BY <1>4, <1>5
<1>9. ASSUME NEW g \in Groups, NEW p \in Partitions, HolderOf(g, p)' # Nobody, NEW i \in 1 .. group'[g].pos[p]
      PROVE  Handled(g, p, i) \/ Handled(g, p, i)' \/ InBatch(HolderOf(g, p), p, i)'
  <2>1. CASE g = G /\ h[p] # HolderOf(G, p)
    <3>1. i \in 1 .. group[g].committed[p]
      BY <1>4, <1>9, <2>1
    <3> QED BY <3>1 DEF HandInv, CommitsHandled
  <2>2. CASE g # G \/ h[p] = HolderOf(G, p)
    <3>1. HolderOf(g, p)' = HolderOf(g, p) /\ i \in 1 .. group[g].pos[p]
      <4>1. CASE g = G
        BY <1>4, <1>9, <2>2, <4>1
      <4>2. CASE g # G
        BY <1>5, <1>9, <4>2 DEF HolderOf
      <4> QED BY <4>1, <4>2
    <3>2. Handled(g, p, i) \/ InBatch(HolderOf(g, p), p, i)
      BY <1>9, <3>1 DEF HandInv, FetchedInHand
    <3>3. CASE InBatch(HolderOf(g, p), p, i)
      <4>1. HolderOf(g, p) \in Replays /\ HolderOf(g, p) # x
        <5>1. HolderOf(g, p) \in Replays
          BY <1>9, <3>1 DEF HandInv, HoldersJoined, Members
        <5>2. ~Batching(x)
          BY DEF Batching
        <5> QED BY <3>3, <5>1, <5>2 DEF InBatch
      <4>2. run'[HolderOf(g, p)] = run[HolderOf(g, p)]
        BY <4>1
      <4> QED BY <3>1, <3>3, <4>2 DEF InBatch, Batching
    <3> QED BY <3>2, <3>3
  <2> QED BY <2>1, <2>2
<1> QED BY <1>1, <1>7, <1>8, <1>9, HandStep

\* A poll takes on what lies behind the stretch as handled, and the stretch in hand.
LEMMA HandPoll ==
  ASSUME HandInv, RunTyped, GroupTyped, RunTyped', GroupTyped', limit' = limit, limit \in Nat,
         NEW x \in Replays, PollSome(x)
  PROVE  HandInv'
<1>1. PICK G \in Groups : G = run[x].group
  BY PollSomeMoves
<1>2. run[x] \in Goroutines /\ run[x].pc = "poll" /\ group[G] \in GroupStates
  BY <1>1, PollSomeMoves
<1>a. PICK nx, fe, po \in [Partitions -> Nat] : Polled(x, nx, fe, po)
  BY PollSomeMoves
<1>3. /\ run' = [run EXCEPT ![x] = [run[x] EXCEPT !.pc = "batch", !.idle = 0, !.next = nx, !.fetched = fe]]
      /\ group' = [group EXCEPT ![G] = [group[G] EXCEPT !.pos = po]]
      /\ \A p \in Partitions :
            \/ group[G].holder[p] = x /\ nx[p] = group[G].pos[p] /\ fe[p] = po[p] /\ group[G].pos[p] < po[p]
            \/ nx[p] = 0 /\ fe[p] = 0 /\ po[p] = group[G].pos[p]
  BY <1>1, <1>a DEF Polled
<1>4. /\ \A y \in Replays : y # x => run'[y] = run[y]
      /\ run'[x].pc = "batch" /\ run'[x].next = nx /\ run'[x].fetched = fe /\ run'[x].group = G
      /\ run'[x].seen = run[x].seen /\ run'[x].count = run[x].count /\ run[x].count \in Nat
  BY <1>1, <1>2, <1>3 DEF RunTyped, Goroutines
<1>5. Grows(x)
  BY <1>1, <1>4 DEF Grows
<1>6. ASSUME NEW g \in Groups
      PROVE  /\ group'[g].holder = group[g].holder /\ group'[g].committed = group[g].committed
             /\ group'[g].pos = IF g = G THEN po ELSE group[g].pos
  BY <1>2, <1>3 DEF GroupTyped, GroupStates
<1>7. HoldersJoined'
  <2> SUFFICES ASSUME NEW g \in Groups, NEW p \in Partitions, HolderOf(g, p) # Nobody
               PROVE  HolderOf(g, p) \in Members(g)'
    BY <1>6 DEF HoldersJoined, HolderOf
  <2>1. HolderOf(g, p) \in Replays /\ run[HolderOf(g, p)].group = g /\ run[HolderOf(g, p)].pc \in Joined
    BY DEF HandInv, HoldersJoined, Members
  <2>2. run'[HolderOf(g, p)].group = g /\ run'[HolderOf(g, p)].pc \in Joined
    <3>1. CASE HolderOf(g, p) = x
      BY <1>1, <1>4, <2>1, <3>1 DEF Joined
    <3>2. CASE HolderOf(g, p) # x
      BY <1>4, <2>1, <3>2
    <3> QED BY <3>1, <3>2
  <2> QED BY <2>1, <2>2 DEF Members
<1>8. ASSUME NEW p \in Partitions, group[G].holder[p] = x, NEW i \in 1 .. group[G].pos[p]
      PROVE  Handled(G, p, i)
  <2>1. HolderOf(G, p) # Nobody /\ HolderOf(G, p) = x
    BY <1>8, ReplayBoundsTyped DEF HolderOf, Replays, Nobody
  <2>2. ~InBatch(x, p, i)
    BY <1>2 DEF InBatch, Batching
  <2> QED BY <1>8, <2>1, <2>2 DEF HandInv, FetchedInHand
<1>9. ASSUME NEW g \in Groups, NEW p \in Partitions, HolderOf(g, p)' # Nobody, NEW i \in 1 .. group'[g].pos[p]
      PROVE  Handled(g, p, i) \/ Handled(g, p, i)' \/ InBatch(HolderOf(g, p), p, i)'
  <2>1. HolderOf(g, p)' = HolderOf(g, p) /\ HolderOf(g, p) \in Members(g) /\ HolderOf(g, p) \in Replays
    BY <1>6, <1>9 DEF HandInv, HoldersJoined, HolderOf, Members
  <2>2. CASE g = G /\ HolderOf(g, p) = x /\ fe[p] = po[p] /\ nx[p] = group[G].pos[p]
    <3>1. group[G].pos[p] \in Nat /\ po[p] \in Nat /\ i \in 1 .. po[p]
      BY <1>2, <1>6, <1>9, <2>2 DEF GroupStates
    <3>2. CASE i <= group[G].pos[p]
      BY <1>8, <2>2, <3>1, <3>2 DEF HolderOf
    <3>3. CASE ~(i <= group[G].pos[p])
      <4>1. run'[x].next[p] < i /\ i <= run'[x].fetched[p]
        BY <1>4, <2>2, <3>1, <3>3
      <4>2. InBatch(x, p, i)'
        BY <1>4, <4>1 DEF InBatch, Batching
      <4> QED BY <2>1, <2>2, <4>2 DEF InBatch, Batching
    <3> QED BY <3>2, <3>3
  <2>3. CASE ~(g = G /\ HolderOf(g, p) = x /\ fe[p] = po[p] /\ nx[p] = group[G].pos[p])
    <3>1. i \in 1 .. group[g].pos[p]
      BY <1>3, <1>6, <1>9, <2>3 DEF HolderOf
    <3>2. CASE HolderOf(g, p) = x
      <4>1. g = G
        BY <1>1, <2>1, <3>2 DEF Members
      <4> QED BY <1>8, <3>1, <3>2, <4>1 DEF HolderOf
    <3>3. CASE HolderOf(g, p) # x
      <4>1. run'[HolderOf(g, p)] = run[HolderOf(g, p)]
        BY <1>4, <2>1, <3>3
      <4>2. Handled(g, p, i) \/ InBatch(HolderOf(g, p), p, i)
        BY <1>9, <2>1, <3>1 DEF HandInv, FetchedInHand
      <4> QED BY <2>1, <4>1, <4>2 DEF InBatch, Batching
    <3> QED BY <3>2, <3>3
  <2> QED BY <2>2, <2>3
<1>10. ASSUME NEW p \in Partitions, run'[x].fetched[p] > 0, NEW i \in 1 .. run'[x].next[p]
       PROVE  Handled(run[x].group, p, i)
  <2>1. group[G].holder[p] = x /\ i \in 1 .. group[G].pos[p]
    BY <1>3, <1>4, <1>10
  <2> QED BY <1>1, <1>8, <2>1
<1>11. \A g \in Groups, p \in Partitions : \A i \in 1 .. group'[g].committed[p] : i \in 1 .. group[g].committed[p]
  BY <1>6
<1> QED BY <1>2, <1>4, <1>5, <1>7, <1>9, <1>10, <1>11, HandStep

\* A commit is of a batch that is handled, or of a replay that has its limit.
LEMMA HandCommit ==
  ASSUME HandInv, RunTyped, GroupTyped, RunTyped', GroupTyped', limit' = limit, limit \in Nat,
         NEW x \in Replays, CommitReplay(x)
  PROVE  HandInv'
<1>1. PICK G \in Groups : G = run[x].group
  BY DEF RunTyped, InReach, CommitReplay
<1>2. /\ run[x] \in Goroutines /\ run[x].pc = "batch" /\ group[G] \in GroupStates /\ run[x].count \in Nat
      /\ run[x].next \in [Partitions -> Nat] /\ run[x].fetched \in [Partitions -> Nat]
  BY DEF RunTyped, Goroutines, CommitReplay, GroupTyped
<1>3. /\ \A y \in Replays : y # x => run'[y] = run[y]
      /\ run'[x].pc \in {"end", "poll"} /\ run'[x].group = G
      /\ run'[x].seen = run[x].seen /\ run'[x].count = run[x].count
  <2> DEFINE l == IF Full(x) THEN "end" ELSE "poll"
             t == IF Full(x) THEN "completed" ELSE ""
  <2>1. run' = [run EXCEPT ![x] = [run[x] EXCEPT !.pc = l, !.next = Zero, !.fetched = Zero, !.status = t]]
        /\ l \in {"end", "poll"}
    BY DEF CommitReplay
  <2> HIDE DEF l, t
  <2> QED BY ZenonT(60), <1>1, <1>2, <2>1 DEF RunTyped, Goroutines
<1>4. Grows(x) /\ ~Batching(x)'
  BY <1>1, <1>2, <1>3 DEF Grows, Batching
<1>5. ASSUME NEW p \in Partitions, NEW i \in Nat, i >= 1, i <= run[x].fetched[p] PROVE Handled(G, p, i) \/ InBatch(x, p, i)
  <2>1. CASE i <= run[x].next[p]
    <3>1. i \in 1 .. run[x].next[p] /\ run[x].fetched[p] > 0
      BY <1>2, <1>5, <2>1
    <3> QED BY <1>1, <1>2, <3>1 DEF HandInv, BatchBehind, Batching
  <2>2. CASE ~(i <= run[x].next[p])
    BY <1>2, <1>5, <2>2 DEF InBatch, Batching
  <2> QED BY <2>1, <2>2
<1>6. ASSUME NEW p \in Partitions, NEW i \in Nat, InBatch(x, p, i) PROVE Handled(G, p, i) /\ Handled(G, p, i)'
  <2>1. run[x].next[p] < run[x].fetched[p]
    BY <1>2, <1>6 DEF InBatch
  <2>2. Full(x)
    BY <2>1 DEF CommitReplay, Left
  <2> QED BY <1>1, <1>3, <2>2 DEF Full, Handled
<1>7. ASSUME NEW g \in Groups
      PROVE  /\ group'[g].holder = group[g].holder /\ group'[g].pos = group[g].pos
             /\ g # G => group'[g].committed = group[g].committed
             /\ group'[G].committed \in {group[G].committed, BatchOffsets(x)}
  <2>1. CASE UNCHANGED group
    BY <2>1
  <2>2. CASE group' = [group EXCEPT ![run[x].group].committed = BatchOffsets(x)]
    <3>1. group' = [group EXCEPT ![G] = [group[G] EXCEPT !.committed = BatchOffsets(x)]]
      BY <1>1, <2>2
    <3> QED BY <1>2, <3>1 DEF GroupTyped, GroupStates
  <2> QED BY <2>1, <2>2 DEF CommitReplay
<1>8. HoldersJoined'
  <2> SUFFICES ASSUME NEW g \in Groups, NEW p \in Partitions, HolderOf(g, p) # Nobody
               PROVE  HolderOf(g, p) \in Members(g)'
    BY <1>7 DEF HoldersJoined, HolderOf
  <2>1. HolderOf(g, p) \in Replays /\ run[HolderOf(g, p)].group = g /\ run[HolderOf(g, p)].pc \in Joined
    BY DEF HandInv, HoldersJoined, Members
  <2>2. run'[HolderOf(g, p)].group = g /\ run'[HolderOf(g, p)].pc \in Joined
    <3>1. CASE HolderOf(g, p) = x
      BY <1>1, <1>3, <2>1, <3>1 DEF Joined
    <3>2. CASE HolderOf(g, p) # x
      BY <1>3, <2>1, <3>2
    <3> QED BY <3>1, <3>2
  <2> QED BY <2>1, <2>2 DEF Members
<1>9. ASSUME NEW g \in Groups, NEW p \in Partitions, NEW i \in 1 .. group'[g].committed[p]
      PROVE  i \in 1 .. group[g].committed[p] \/ Handled(g, p, i)'
  <2>1. CASE group'[g].committed = group[g].committed
    BY <2>1, <1>9
  <2>2. CASE g = G /\ group'[G].committed = BatchOffsets(x) /\ run[x].fetched[p] > 0
    <3>1. i \in Nat /\ i >= 1 /\ i <= run[x].fetched[p]
      BY <1>2, <1>9, <2>2 DEF BatchOffsets
    <3>2. Handled(G, p, i)
      BY <1>5, <1>6, <3>1
    <3>3. Handled(G, p, i)'
      BY <1>4, <3>2, AllGrow, HandledKept, <1>3
    <3> QED BY <2>2, <3>3
  <2>3. CASE g = G /\ group'[G].committed = BatchOffsets(x) /\ ~(run[x].fetched[p] > 0)
    BY <1>1, <1>9, <2>3 DEF BatchOffsets
  <2> QED BY <1>7, <2>1, <2>2, <2>3
<1>10. ASSUME NEW g \in Groups, NEW p \in Partitions, HolderOf(g, p)' # Nobody, NEW i \in 1 .. group'[g].pos[p]
       PROVE  Handled(g, p, i) \/ InBatch(HolderOf(g, p), p, i)'
  <2>1. HolderOf(g, p)' = HolderOf(g, p) /\ HolderOf(g, p) \in Members(g) /\ HolderOf(g, p) \in Replays
        /\ i \in 1 .. group[g].pos[p]
    BY <1>7, <1>10 DEF HandInv, HoldersJoined, HolderOf, Members
  <2>2. Handled(g, p, i) \/ InBatch(HolderOf(g, p), p, i)
    BY <1>10, <2>1 DEF HandInv, FetchedInHand
  <2>3. CASE HolderOf(g, p) = x /\ InBatch(x, p, i)
    <3>1. g = G /\ i \in Nat
      BY <1>1, <2>1, <2>3 DEF Members, GroupTyped, GroupStates
    <3> QED BY <1>6, <2>3, <3>1
  <2>4. CASE HolderOf(g, p) # x /\ InBatch(HolderOf(g, p), p, i)
    <3>1. run'[HolderOf(g, p)] = run[HolderOf(g, p)]
      BY <1>3, <2>1, <2>4
    <3> QED BY <2>1, <2>4, <3>1 DEF InBatch, Batching
  <2> QED BY <2>2, <2>3, <2>4
<1> QED BY <1>2, <1>3, <1>4, <1>8, <1>9, <1>10, HandStep

\* What the steps of a goroutine do to its batch.
LEMMA HandGoroutine ==
  ASSUME HandInv, RunTyped, GroupTyped, RunTyped', GroupTyped', limit' = limit, limit \in Nat,
         NEW x \in Replays, Goroutine(x)
  PROVE  HandInv'
<1>0. /\ run[x] \in Goroutines /\ run'[x] \in Goroutines /\ run[x].count \in Nat
      /\ run[x].pc # "none" /\ run'[x].pc # "none" /\ \A y \in Replays : y # x => run'[y] = run[y]
      /\ run[x].next \in [Partitions -> Nat] /\ run[x].fetched \in [Partitions -> Nat]
  BY GoroutineMoves DEF Moves, RunTyped, Goroutines
<1>g. PICK G \in Groups : G = run[x].group
  BY <1>0 DEF RunTyped, InReach
<1>1. CASE Register(x) \/ PollNone(x) \/ PollFails(x) \/ Finish(x)
  <2>1. /\ UNCHANGED group /\ run'[x].group = run[x].group
        /\ run'[x].seen = run[x].seen /\ run'[x].count = run[x].count
        /\ ~Batching(x) /\ ~Batching(x)' /\ (run[x].pc \in Joined => run'[x].pc \in Joined)
    <3>1. CASE Register(x)
      BY ZenonT(60), <1>0, <3>1 DEF RunTyped, Register, Goroutines, Batching, Joined
    <3>2. CASE PollNone(x)
      <4>1. PICK i : \/ run' = [run EXCEPT ![x] = [run[x] EXCEPT !.idle = i]]
                     \/ run' = [run EXCEPT ![x] = [run[x] EXCEPT !.pc = "end", !.idle = 0, !.status = "completed"]]
        BY <3>2 DEF PollNone
      <4>2. run[x].pc = "poll" /\ UNCHANGED group
        BY <3>2 DEF PollNone
      <4>3. CASE run' = [run EXCEPT ![x] = [run[x] EXCEPT !.idle = i]]
        BY ZenonT(60), <1>0, <4>2, <4>3 DEF RunTyped, Goroutines, Batching, Joined
      <4>4. CASE run' = [run EXCEPT ![x] = [run[x] EXCEPT !.pc = "end", !.idle = 0, !.status = "completed"]]
        BY ZenonT(60), <1>0, <4>2, <4>4 DEF RunTyped, Goroutines, Batching, Joined
      <4> QED BY <4>1, <4>3, <4>4
    <3>3. CASE PollFails(x)
      BY ZenonT(60), <1>0, <3>3 DEF RunTyped, PollFails, Goroutines, Batching, Joined
    <3>4. CASE Finish(x)
      BY ZenonT(60), <1>0, <3>4 DEF RunTyped, Finish, Goroutines, Batching, Joined
    <3> QED BY <1>1, <3>1, <3>2, <3>3, <3>4
  <2>2. Grows(x)
    BY <1>0, <2>1 DEF Grows
  <2> QED BY <1>0, <2>1, <2>2, HandSame DEF InBatch
<1>2. CASE ReplayDocument(x) \/ ReplayGraph(x)
  <2>1. /\ UNCHANGED group /\ run'[x].group = run[x].group
        /\ run'[x].seen = run[x].seen /\ run'[x].count = run[x].count
        /\ run'[x].next = run[x].next /\ run'[x].fetched = run[x].fetched
        /\ Batching(x) /\ Batching(x)' /\ run'[x].pc \in Joined
    <3>1. \/ run' = [run EXCEPT ![x] = [run[x] EXCEPT !.pc = "graph"]]
          \/ run' = [run EXCEPT ![x] = [run[x] EXCEPT !.pc = "batch", !.rec = Null]]
      BY <1>2 DEF ReplayDocument, ReplayGraph, Goto, BackToBatch
    <3>2. run[x].pc \in {"doc", "graph"} /\ UNCHANGED group
      BY <1>2 DEF ReplayDocument, ReplayGraph
    <3>3. CASE run' = [run EXCEPT ![x] = [run[x] EXCEPT !.pc = "graph"]]
      BY ZenonT(60), <1>0, <3>2, <3>3 DEF RunTyped, Goroutines, Batching, Joined
    <3>4. CASE run' = [run EXCEPT ![x] = [run[x] EXCEPT !.pc = "batch", !.rec = Null]]
      BY ZenonT(60), <1>0, <3>2, <3>4 DEF RunTyped, Goroutines, Batching, Joined
    <3> QED BY <3>1, <3>3, <3>4
  <2>2. Grows(x)
    BY <1>0, <2>1 DEF Grows
  <2>3. \A p \in Partitions, i \in Nat : InBatch(x, p, i) => InBatch(x, p, i)'
    BY <2>1 DEF InBatch
  <2>4. \A p \in Partitions : run'[x].fetched[p] > 0 =>
          \A i \in 1 .. run'[x].next[p] : Handled(run[x].group, p, i)
    BY <2>1 DEF HandInv, BatchBehind
  <2> QED BY <1>0, <2>1, <2>2, <2>3, <2>4, HandSame
<1>3. ASSUME NEW q \in Partitions, Handle(x, q) PROVE HandInv'
  <2>1. /\ UNCHANGED group /\ run'[x].group = run[x].group
        /\ run'[x].seen = run[x].seen \cup {<<q, run[x].next[q] + 1>>} /\ run'[x].count = run[x].count + 1
        /\ run'[x].next = [run[x].next EXCEPT ![q] = run[x].next[q] + 1] /\ run'[x].fetched = run[x].fetched
        /\ Batching(x) /\ Batching(x)' /\ run'[x].pc \in Joined
    <3> DEFINE r == Log[q][run[x].next[q] + 1]
               n == [run[x].next EXCEPT ![q] = run[x].next[q] + 1]
               c == run[x].count + 1
               e == run[x].seen \cup {<<q, run[x].next[q] + 1>>}
               k == IF Meta[r].refusal = "" THEN r ELSE Null
               l == IF Meta[r].refusal = "" THEN "doc" ELSE "batch"
    <3>1. /\ run' = [run EXCEPT ![x] = [run[x] EXCEPT !.next = n, !.count = c, !.seen = e, !.rec = k, !.pc = l]]
          /\ l \in {"doc", "batch"} /\ run[x].pc = "batch" /\ UNCHANGED group
      BY <1>3 DEF Handle
    <3> HIDE DEF n, c, e, k, l
    <3>2. /\ run'[x].next = n /\ run'[x].count = c /\ run'[x].seen = e /\ run'[x].pc = l
          /\ run'[x].group = run[x].group /\ run'[x].fetched = run[x].fetched
      BY ZenonT(60), <1>0, <3>1 DEF RunTyped, Goroutines
    <3> QED BY SMTT(60), <3>1, <3>2 DEF Batching, Joined, n, c, e
  <2>2. Grows(x)
    BY <1>0, <2>1 DEF Grows
  <2>j. PICK j \in Nat : j = run[x].next[q] + 1
    BY <1>0
  <2>3. Handled(G, q, j)'
    <3>1. <<q, j>> \in run'[x].seen /\ run'[x].group = G
      BY <1>g, <2>1, <2>j
    <3> QED BY <3>1 DEF Handled
  <2>4. ASSUME NEW p \in Partitions, NEW i \in Nat, InBatch(x, p, i)
        PROVE  InBatch(x, p, i)' \/ Handled(run[x].group, p, i)'
    <3>1. CASE p = q /\ i = j
      BY <1>g, <2>1, <2>3, <3>1 DEF Handled
    <3>2. CASE ~(p = q /\ i = j)
      BY <1>0, <2>1, <2>4, <2>j, <3>2 DEF InBatch
    <3> QED BY <3>1, <3>2
  <2>5. ASSUME NEW p \in Partitions, run'[x].fetched[p] > 0, NEW i \in 1 .. run'[x].next[p]
        PROVE  Handled(run[x].group, p, i) \/ Handled(run[x].group, p, i)'
    <3>1. CASE p = q /\ i = j
      BY <1>g, <2>1, <2>3, <3>1 DEF Handled
    <3>2. CASE ~(p = q /\ i = j)
      <4>1. i \in 1 .. run[x].next[p]
        BY <1>0, <2>1, <2>5, <2>j, <3>2
      <4> QED BY <2>1, <2>5, <4>1 DEF HandInv, BatchBehind
    <3> QED BY <3>1, <3>2
  <2> QED BY <1>0, <2>1, <2>2, <2>4, <2>5, HandSame
<1>4. CASE Join(x)
  <2>1. /\ run'[x].pc = "poll" /\ run[x].pc = "join" /\ run'[x].group = run[x].group
        /\ run'[x].seen = run[x].seen /\ run'[x].count = run[x].count
    BY <1>0, <1>4 DEF RunTyped, Join, Goto, Goroutines
  <2>2. Grows(x) /\ ~Batching(x)'
    BY <1>0, <2>1 DEF Grows, Batching
  <2>3. PICK s \in Rebalanced(run[x].group, Members(run[x].group) \cup {x}) :
          group' = [group EXCEPT ![run[x].group] = s]
    BY <1>4 DEF Join
  <2> DEFINE m == Members(run[x].group) \cup {x}
  <2>4. m \in SUBSET Replays /\ \A y \in m : run'[y].group = run[x].group /\ run'[y].pc \in Joined
    BY <1>0, <2>1 DEF Members, Joined
  <2> HIDE DEF m
  <2>5. s \in Rebalanced(run[x].group, m)
    BY DEF m
  <2> QED BY <1>0, <2>1, <2>2, <2>3, <2>4, <2>5, HandRebalanced
<1>5. CASE WriteEnd(x)
  <2>1. /\ run'[x].pc = "closed" /\ run[x].pc = "write" /\ run'[x].group = run[x].group
        /\ run'[x].seen = run[x].seen /\ run'[x].count = run[x].count
    BY ZenonT(60), <1>0, <1>5 DEF RunTyped, WriteEnd, Gone, Goroutines
  <2>2. Grows(x) /\ ~Batching(x)'
    BY <1>0, <2>1 DEF Grows, Batching
  <2>3. PICK s \in Rebalanced(run[x].group, Members(run[x].group) \ {x}) :
          group' = [group EXCEPT ![run[x].group] = s]
    BY <1>5 DEF WriteEnd
  <2> DEFINE m == Members(run[x].group) \ {x}
  <2>4. m \in SUBSET Replays /\ \A y \in m : run'[y].group = run[x].group /\ run'[y].pc \in Joined
    BY <1>0 DEF Members
  <2> HIDE DEF m
  <2>5. s \in Rebalanced(run[x].group, m)
    BY DEF m
  <2> QED BY <1>0, <2>1, <2>2, <2>3, <2>4, <2>5, HandRebalanced
<1> QED BY <1>1, <1>2, <1>3, <1>4, <1>5, HandPoll, HandCommit DEF Goroutine

\* A replay that begins has handled nothing and holds nothing.
LEMMA HandBegin ==
  ASSUME HandInv, RunTyped, GroupTyped, RunTyped', limit' = limit, limit \in Nat,
         NEW x \in Replays, NEW by, Begins(x, by), UNCHANGED group
  PROVE  HandInv'
<1>1. Grows(x) /\ ~Batching(x)' /\ ~Batching(x) /\ run[x].pc \notin Joined
  BY DEF Begins, Grows, Batching, Joined
<1>2. run'[x].pc # "none" /\ \A y \in Replays : y # x => run'[y] = run[y]
  BY DEF Begins
<1>3. \A p \in Partitions, i \in Nat : ~InBatch(x, p, i)
  BY <1>1 DEF InBatch
<1>4. GroupTyped'
  BY DEF GroupTyped
<1>5. \A g \in Groups, p \in Partitions : HolderOf(g, p)' = HolderOf(g, p)
  BY DEF HolderOf
<1>6. ASSUME NEW g \in Groups, NEW p \in Partitions, HolderOf(g, p) # Nobody
      PROVE  /\ HolderOf(g, p) \in Members(g)'
             /\ HolderOf(g, p) \in Replays /\ run'[HolderOf(g, p)] = run[HolderOf(g, p)]
  <2>1. HolderOf(g, p) \in Replays /\ run[HolderOf(g, p)].group = g /\ run[HolderOf(g, p)].pc \in Joined
    BY <1>6 DEF HandInv, HoldersJoined, Members
  <2>2. run'[HolderOf(g, p)] = run[HolderOf(g, p)]
    BY <1>1, <1>2, <2>1
  <2> QED BY <2>1, <2>2 DEF Members
<1>7. HoldersJoined'
  <2> SUFFICES ASSUME NEW g \in Groups, NEW p \in Partitions, HolderOf(g, p) # Nobody
               PROVE  HolderOf(g, p) \in Members(g)'
    BY <1>5 DEF HoldersJoined, HolderOf
  <2> QED BY <1>6
<1>8. ASSUME NEW g \in Groups, NEW p \in Partitions, HolderOf(g, p)' # Nobody, NEW i \in 1 .. group'[g].pos[p]
      PROVE  Handled(g, p, i) \/ InBatch(HolderOf(g, p), p, i)'
  <2>1. HolderOf(g, p)' = HolderOf(g, p) /\ run'[HolderOf(g, p)] = run[HolderOf(g, p)]
    BY <1>5, <1>6, <1>8
  <2>2. Handled(g, p, i) \/ InBatch(HolderOf(g, p), p, i)
    BY <1>8, <2>1 DEF HandInv, FetchedInHand
  <2> QED BY <2>1, <2>2 DEF InBatch, Batching
<1> QED BY <1>1, <1>2, <1>4, <1>7, <1>8, HandStep

\* A death leaves what was handled and what was committed; nobody holds anything.
LEMMA HandCrash ==
  ASSUME HandInv, RunTyped, GroupTyped, RunTyped', limit' = limit, limit \in Nat, CrashAll
  PROVE  HandInv'
<1>1. ASSUME NEW x \in Replays
      PROVE  /\ Grows(x) /\ ~Batching(x)'
             /\ run'[x].pc = "none" => run'[x] = run[x]
  <2>1. CASE run[x].pc \in {"none", "closed"}
    <3>1. run'[x] = run[x] /\ run[x].count \in Nat
      BY <2>1 DEF CrashAll, RunTyped, Goroutines
    <3> QED BY <2>1, <3>1 DEF Grows, Batching
  <2>2. CASE run[x].pc \notin {"none", "closed"}
    <3>1. /\ run'[x].pc = "lost" /\ run'[x].group = run[x].group
          /\ run'[x].seen = run[x].seen /\ run'[x].count = run[x].count /\ run[x].count \in Nat
      <4>1. run'[x] = Gone(x, "lost") /\ run[x] \in Goroutines
        BY <2>2 DEF CrashAll, RunTyped
      <4> QED BY ZenonT(60), <4>1 DEF Goroutines, Gone
    <3> QED BY <3>1 DEF Grows, Batching
  <2> QED BY <2>1, <2>2
<1>2. ASSUME NEW g \in Groups, NEW p \in Partitions
      PROVE  HolderOf(g, p)' = Nobody /\ group'[g].committed = group[g].committed
  BY DEF CrashAll, GroupTyped, GroupStates, HolderOf
<1>3. ASSUME NEW g \in Groups, NEW p, NEW i, Handled(g, p, i) PROVE Handled(g, p, i)'
  BY <1>1, <1>3, HandledKept
<1>4. CommitsHandled'
  BY <1>2, <1>3 DEF HandInv, CommitsHandled
<1>5. HoldersJoined' /\ FetchedInHand' /\ BatchBehind'
  BY <1>1, <1>2 DEF HoldersJoined, FetchedInHand, BatchBehind, HolderOf
<1>6. \A x \in Replays : run'[x].pc = "none" => run'[x].group = Nobody
  BY SMTT(60), <1>1 DEF HandInv
<1> QED BY <1>4, <1>5, <1>6 DEF HandInv

LEMMA HandOthers ==
  ASSUME HandInv, limit' = limit, UNCHANGED <<run, group>> PROVE HandInv'
  BY DEF HandInv, HoldersJoined, CommitsHandled, FetchedInHand, BatchBehind, HolderOf, Handled, Batching,
         InBatch, Members

\* What a replay group has committed was handled by one of its members, or lies behind one
\* that had its limit, whoever the partitions were handed to meanwhile, and whatever died
\* or failed to commit (runReplay commits a batch after its records).
THEOREM CommitsWereHandled == ReplaySpec => []GroupCommitsHandled
<1>1. ReplayInit => HandInv
  <2> SUFFICES ASSUME ReplayInit PROVE HandInv
    OBVIOUS
  <2>1. \A x \in Replays : run[x].pc = "none" /\ run[x].group = Nobody
    BY DEF ReplayInit, NoRun
  <2>2. \A g \in Groups, p \in Partitions : HolderOf(g, p) = Nobody /\ group[g].committed[p] = 0
    BY DEF ReplayInit, HolderOf, Zero
  <2> QED BY <2>1, <2>2 DEF HandInv, HoldersJoined, CommitsHandled, FetchedInHand, BatchBehind, Batching
<1>2. ReplayInv /\ HandInv /\ ReplayInv' /\ [ReplayNext]_allVars => HandInv'
  <2> SUFFICES ASSUME ReplayInv, HandInv, ReplayInv', [ReplayNext]_allVars PROVE HandInv'
    OBVIOUS
  <2>1. RunTyped /\ GroupTyped /\ RunTyped' /\ GroupTyped' /\ claim \in Requests \cup {Nobody}
    BY DEF ReplayInv, QueueInv, QueueTyped
  <2>2. limit' = limit
    BY ReplayStore DEF StoreOpened, StoreLost, Update, AppendGraph, storeVars
  <2>3. limit \in Nat
    BY LimitsTyped DEF ReplayInv, KeptInv, StoreTypeOK
  <2>4. ASSUME NEW x \in Unused, NEW by \in Requests \cup {Nobody}, Begin(x, by) PROVE HandInv'
    <3>1. x \in Replays /\ Begins(x, by) /\ UNCHANGED group
      BY <2>1, <2>4, BeginMoves DEF Unused, Begin
    <3> QED BY <2>1, <2>2, <2>3, <3>1, HandBegin
  <2>5. CASE BeginRequested \/ BeginByHand
    BY <2>1, <2>2, <2>4, <2>5, HandOthers DEF BeginRequested, BeginByHand, replayVars
  <2>6. ASSUME NEW x \in Replays, Goroutine(x) PROVE HandInv'
    BY <2>1, <2>2, <2>3, <2>6, HandGoroutine
  <2>7. CASE CrashAll
    BY <2>1, <2>2, <2>3, <2>7, HandCrash
  <2>8. CASE Live \/ Claim \/ Answer \/ Note \/ (\E q \in Requests : Submit(q))
             \/ (Stopped /\ UNCHANGED replayVars) \/ UNCHANGED allVars
    BY <2>2, <2>8, HandOthers DEF Live, Claim, Answer, Note, Submit, allVars, replayVars
  <2> QED BY <2>5, <2>6, <2>7, <2>8 DEF ReplayNext, Queue
<1>3. HandInv => GroupCommitsHandled
  BY DEF HandInv, CommitsHandled, Handled, GroupCommitsHandled
<1> QED BY <1>1, <1>2, <1>3, ReplayInvariant, PTL DEF ReplaySpec

-----------------------------------------------------------------------------
(* Sessions                                                                  *)

Rows == [id : Replays, status : Ends \cup {"running", ""}, count : Nat]

\* EndIsFinal holds because a session has one row, and the goroutine of a row with an end
\* is gone.
SessionsInv ==
    /\ sessions \in Seq(Rows)
    /\ \A i \in DOMAIN sessions, j \in DOMAIN sessions : sessions[i].id = sessions[j].id => i = j
    /\ \A i \in DOMAIN sessions : run[sessions[i].id].pc # "none"
    /\ \A i \in DOMAIN sessions : sessions[i].status \in Ends => run[sessions[i].id].pc \in {"closed", "lost"}

LEMMA RowIds ==
  ASSUME SessionsInv, NEW i \in DOMAIN sessions
  PROVE  sessions[i] \in Rows /\ sessions[i].id \in Replays
<1>1. sessions \in Seq(Rows)
  BY DEF SessionsInv
<1>2. sessions[i] \in Rows
  <2> HIDE DEF Rows
  <2> QED BY <1>1
<1> QED BY <1>2 DEF Rows

\* What EndIsFinal says of a step.
EndsStand == \A i \in DOMAIN sessions, j \in DOMAIN sessions' :
                sessions[i].id = sessions'[j].id /\ sessions[i].status \in Ends
                  => sessions'[j] = sessions[i]

\* A goroutine that has begun does not begin again, and one that is gone stays so.
GoesOn == \A y \in Replays : /\ run[y].pc # "none" => run'[y].pc # "none"
                             /\ run[y].pc \in {"closed", "lost"} => run'[y].pc \in {"closed", "lost"}

\* What a step does to the sessions.
LEMMA SessionSteps ==
  ASSUME ReplayInv, [ReplayNext]_allVars
  PROVE  /\ GoesOn
         /\ \/ UNCHANGED sessions
            \/ \E x \in Replays, by \in Requests \cup {Nobody} : Begin(x, by) /\ Begins(x, by)
            \/ \E x \in Replays : WriteEnd(x) /\ sessions' = Ended(x)
<1>t. RunTyped /\ claim \in Requests \cup {Nobody}
  BY DEF ReplayInv, QueueInv, QueueTyped
<1>1. ASSUME NEW x \in Unused, NEW by \in Requests \cup {Nobody}, Begin(x, by)
      PROVE  GoesOn /\ x \in Replays /\ Begins(x, by)
  <2>1. x \in Replays /\ Begins(x, by)
    BY <1>t, <1>1, BeginMoves DEF Unused
  <2> QED BY <2>1 DEF Begins, GoesOn
<1>2. CASE BeginRequested \/ BeginByHand
  BY <1>t, <1>1, <1>2 DEF BeginRequested, BeginByHand, replayVars, GoesOn
<1>3. ASSUME NEW x \in Replays, Goroutine(x)
      PROVE  /\ GoesOn
             /\ UNCHANGED sessions \/ (WriteEnd(x) /\ sessions' = Ended(x))
  <2>1. Moves(x)
    BY <1>t, <1>3, GoroutineMoves
  <2>2. GoesOn
    <3>1. ASSUME NEW y \in Replays, y # x PROVE run'[y] = run[y]
      BY SMTT(60), <2>1, <3>1 DEF Moves
    <3> QED BY <2>1, <3>1 DEF Moves, GoesOn
  <2>3. UNCHANGED sessions \/ (WriteEnd(x) /\ sessions' = Ended(x))
    BY <1>3 DEF Goroutine, Register, Join, PollSome, PollNone, PollFails, Handle, ReplayDocument,
                ReplayGraph, CommitReplay, Finish, WriteEnd, UpdateSessions
  <2> QED BY <2>2, <2>3
<1>4. CASE CrashAll
  <2>1. Dies /\ UNCHANGED sessions
    BY <1>t, <1>4, CrashMoves DEF CrashAll
  <2>2. GoesOn
    BY <2>1 DEF Dies, GoesOn
  <2> QED BY <2>1, <2>2
<1>5. CASE Live \/ Claim \/ Answer \/ Note \/ (\E q \in Requests : Submit(q))
           \/ (Stopped /\ UNCHANGED replayVars) \/ UNCHANGED allVars
  BY <1>5 DEF Live, Claim, Answer, Note, Submit, allVars, replayVars, GoesOn
<1> QED BY <1>2, <1>3, <1>4, <1>5 DEF ReplayNext, Queue

LEMMA SessionsKept ==
  ASSUME SessionsInv, GoesOn, UNCHANGED sessions PROVE SessionsInv' /\ EndsStand
<1>1. \A i \in DOMAIN sessions : sessions[i].id \in Replays
  BY RowIds
<1>2. SessionsInv'
  BY <1>1 DEF SessionsInv, GoesOn
<1>3. EndsStand
  BY DEF SessionsInv, EndsStand
<1> QED BY <1>2, <1>3

\* A new session comes before the others, and the oldest ones are cut off.
LEMMA SessionsBegin ==
  ASSUME SessionsInv, GoesOn, RunTyped, NEW x \in Replays, NEW by, Begin(x, by), Begins(x, by)
  PROVE  SessionsInv' /\ EndsStand
<1> DEFINE new == [id |-> x, status |-> "running", count |-> 0]
           all == <<new>> \o sessions
           m == Min({KeptSessions, Len(all)})
<1>1. sessions' = SubSeq(all, 1, m)
  BY DEF Begin, UpdateSessions, Newest
<1>2. new \in Rows /\ sessions \in Seq(Rows) /\ all \in Seq(Rows)
  <2>1. new \in Rows
    BY DEF Rows
  <2>2. sessions \in Seq(Rows)
    BY DEF SessionsInv
  <2> HIDE DEF new
  <2> QED BY <2>1, <2>2
<1>3. /\ Len(all) = Len(sessions) + 1 /\ all[1] = new
      /\ \A i \in 2 .. Len(all) : all[i] = sessions[i - 1]
  BY <1>2
<1>4. m \in 1 .. Len(all)
  <2>1. KeptSessions \in Nat \ {0} /\ Len(all) \in Nat \ {0}
    BY <1>2, <1>3, ReplayBoundsTyped
  <2> HIDE DEF all
  <2>2. \E a \in {KeptSessions, Len(all)} : \A b \in {KeptSessions, Len(all)} : a <= b
    BY <2>1
  <2>3. m \in {KeptSessions, Len(all)} /\ m <= Len(all)
    BY <2>2 DEF Min
  <2> QED BY <2>1, <2>3
<1> HIDE DEF m, new, all
<1>5. /\ sessions' \in Seq(Rows) /\ Len(sessions') = m
      /\ \A i \in 1 .. m : sessions'[i] = all[i]
  BY <1>1, <1>2, <1>4
<1>6. sessions'[1] = new
  BY <1>3, <1>4, <1>5
<1>7. \A j \in DOMAIN sessions' : j # 1 => j - 1 \in DOMAIN sessions /\ sessions'[j] = sessions[j - 1]
  BY <1>2, <1>3, <1>4, <1>5
<1>8. new.id = x /\ new.status = "running"
  BY DEF new
<1>9. \A i \in DOMAIN sessions : sessions[i].id # x /\ sessions[i].id \in Replays
  BY RowIds DEF SessionsInv, Begins
<1>10. run'[x].pc = "register" /\ "running" \notin Ends
  BY DEF Begins, Ends
<1>11. ASSUME NEW i \in DOMAIN sessions', NEW j \in DOMAIN sessions', sessions'[i].id = sessions'[j].id
       PROVE  i = j
  <2>1. CASE i = 1 \/ j = 1
    BY <1>6, <1>7, <1>8, <1>9, <1>11, <2>1
  <2>2. CASE i # 1 /\ j # 1
    <3>1. i - 1 = j - 1
      BY <1>7, <1>11, <2>2 DEF SessionsInv
    <3>2. i \in Nat /\ j \in Nat
      BY <1>5
    <3> QED BY <3>1, <3>2
  <2> QED BY <2>1, <2>2
<1>12. ASSUME NEW i \in DOMAIN sessions'
       PROVE  /\ run'[sessions'[i].id].pc # "none"
              /\ sessions'[i].status \in Ends => run'[sessions'[i].id].pc \in {"closed", "lost"}
  <2>1. CASE i = 1
    BY <1>6, <1>8, <1>10, <2>1
  <2>2. CASE i # 1
    BY <1>7, <1>9, <2>2 DEF SessionsInv, GoesOn
  <2> QED BY <2>1, <2>2
<1>13. SessionsInv'
  BY <1>5, <1>11, <1>12 DEF SessionsInv
<1>14. EndsStand
  <2> SUFFICES ASSUME NEW i \in DOMAIN sessions, NEW j \in DOMAIN sessions', sessions[i].id = sessions'[j].id
               PROVE  sessions'[j] = sessions[i]
    BY DEF EndsStand
  <2>1. j # 1
    BY <1>6, <1>8, <1>9
  <2>2. i = j - 1
    BY <1>7, <2>1 DEF SessionsInv
  <2> QED BY <1>7, <2>1, <2>2
<1> QED BY <1>13, <1>14

\* The end of a replay is written to its own row.
LEMMA SessionsEnd ==
  ASSUME SessionsInv, GoesOn, RunTyped, NEW x \in Replays, WriteEnd(x), sessions' = Ended(x)
  PROVE  SessionsInv' /\ EndsStand
<1>1. /\ run[x].pc = "write" /\ run'[x].pc = "closed"
      /\ run[x].status \in Ends \cup {""} /\ run[x].count \in Nat
  BY GoneTyped DEF WriteEnd, RunTyped, Goroutines
<1> DEFINE row(i) == [sessions[i] EXCEPT !.status = run[x].status, !.count = run[x].count]
<1>2. ASSUME NEW i \in DOMAIN sessions
      PROVE  /\ sessions[i] \in Rows /\ row(i) \in Rows /\ row(i).id = sessions[i].id
             /\ sessions'[i] = IF sessions[i].id = x THEN row(i) ELSE sessions[i]
  <2>1. sessions[i] \in Rows
    BY RowIds
  <2>2. row(i) \in Rows /\ row(i).id = sessions[i].id
    BY <1>1, <2>1 DEF Rows
  <2>3. sessions'[i] = IF sessions[i].id = x THEN row(i) ELSE sessions[i]
    BY DEF Ended
  <2> QED BY <2>1, <2>2, <2>3
<1> HIDE DEF row
<1>3. DOMAIN sessions' = DOMAIN sessions
  BY DEF Ended
<1>4. sessions' \in Seq(Rows)
  <2>1. PICK n \in Nat : DOMAIN sessions = 1 .. n
    BY DEF SessionsInv
  <2>2. sessions' = [i \in 1 .. n |-> sessions'[i]]
    BY <2>1 DEF Ended
  <2>3. \A i \in 1 .. n : sessions'[i] \in Rows
    BY <1>2, <2>1
  <2> QED BY <2>2, <2>3
<1>5. \A i \in DOMAIN sessions : sessions'[i].id = sessions[i].id /\ sessions[i].id \in Replays
  BY <1>2 DEF Rows
<1>6. \A i \in DOMAIN sessions : sessions'[i].status \in Ends => run'[sessions[i].id].pc \in {"closed", "lost"}
  BY <1>1, <1>2, <1>5 DEF SessionsInv, GoesOn
<1>7. SessionsInv'
  BY <1>3, <1>4, <1>5, <1>6 DEF SessionsInv, GoesOn
<1>8. EndsStand
  <2> SUFFICES ASSUME NEW i \in DOMAIN sessions, sessions[i].status \in Ends PROVE sessions'[i] = sessions[i]
    BY <1>3, <1>5 DEF EndsStand, SessionsInv
  <2>1. sessions[i].id # x
    BY <1>1 DEF SessionsInv
  <2> QED BY <1>2, <2>1
<1> QED BY <1>7, <1>8

\* A session that has ended keeps its end and its count until it is cut off, whichever
\* other replay ends before or after it (finishReplay writes a row found by its id).
THEOREM EndsKept == ReplaySpec => EndIsFinal
<1>1. ReplayInit => SessionsInv
  <2> SUFFICES ASSUME ReplayInit PROVE SessionsInv
    OBVIOUS
  <2>1. sessions = <<>>
    BY DEF ReplayInit
  <2>2. sessions \in Seq(Rows) /\ DOMAIN sessions = {}
    BY <2>1
  <2> QED BY <2>2 DEF SessionsInv
<1>2. ReplayInv /\ SessionsInv /\ [ReplayNext]_allVars => SessionsInv' /\ EndsStand
  <2> SUFFICES ASSUME ReplayInv, SessionsInv, [ReplayNext]_allVars PROVE SessionsInv' /\ EndsStand
    OBVIOUS
  <2>1. RunTyped
    BY DEF ReplayInv, QueueInv
  <2> QED BY <2>1, SessionSteps, SessionsKept, SessionsBegin, SessionsEnd
<1>3. ReplaySpec => []SessionsInv
  BY <1>1, <1>2, ReplayInvariant, PTL DEF ReplaySpec
<1>4. ReplayInv /\ SessionsInv /\ [ReplayNext]_allVars =>
        [\A i \in DOMAIN sessions, j \in DOMAIN sessions' :
            sessions[i].id = sessions'[j].id /\ sessions[i].status \in Ends
              => sessions'[j] = sessions[i]]_allVars
  BY <1>2 DEF EndsStand
<1> QED BY <1>3, <1>4, ReplayInvariant, PTL DEF ReplaySpec, EndIsFinal
=============================================================================
