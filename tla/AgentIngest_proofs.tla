-------------------------- MODULE AgentIngest_proofs --------------------------
(***************************************************************************)
(* What TLAPS proves of the tracking loop and of the store under it, for     *)
(* every log, every content of the records and every cap:                    *)
(*   - the types of all variables (TypeCorrect);                             *)
(*   - nothing is committed without an outcome (NothingSkipped), and the     *)
(*     loop implements the abstract consumer (ImplementsConsumer);           *)
(*   - the document in memory is the one on disk (MemoryIsDisk);             *)
(*   - edges are history (HistoryKept), and once two of them differ only in  *)
(*     their evidence they do for ever (NeverWritableAgain);                 *)
(*   - an accepted record is in the graph (AcceptanceKept);                  *)
(*   - the graph tables agree with each other and with `messages`            *)
(*     (GraphAgrees);                                                        *)
(*   - the reject counters balance (CountersBalance);                        *)
(*   - below the cap a redelivered record counts once (RedeliveryCountsOnce);*)
(*   - above it the newest messages stay (NewestStay).                       *)
(***************************************************************************)
EXTENDS AgentIngest, FiniteSetTheorems, TLAPS

-----------------------------------------------------------------------------
(* The store                                                                 *)

\* The links of a record are among the links of the instance.
LEMMA LinksTyped == ASSUME NEW r \in Records PROVE Links(r) \subseteq AllLinks
  BY DEF AllLinks

\* What acceptMessage makes of a document is a document.
LEMMA AcceptTyped ==
  ASSUME NEW d \in Document, NEW r \in Records, NEW e \in AcceptMessage(d, r)
  PROVE  e \in Document
<1>1. CASE MessageExists(d, r)
  BY SMTT(60), <1>1 DEF AcceptMessage
<1>2. CASE ~MessageExists(d, r)
  <2>1. PICK kept \in Retained(d.messages \cup {r}) :
          e = [d EXCEPT !.messages = kept,
                        !.rollup = [k \in RollupIds |-> IF k \in Rollups(r) THEN @[k] + 1 ELSE @[k]],
                        !.task = TaskAfter(d, r),
                        !.accepted = @ + 1]
    BY <1>2 DEF AcceptMessage
  <2>2. kept \in SUBSET Records
    BY DEF Retained, Document
  <2>3. [k \in RollupIds |-> IF k \in Rollups(r) THEN d.rollup[k] + 1 ELSE d.rollup[k]]
          \in [RollupIds -> Nat]
    BY DEF Document
  <2>4. TaskAfter(d, r) \in [TaskIds -> Statuses]
    BY DEF TaskAfter, Document, Statuses
  <2>5. d.accepted + 1 \in Nat
    BY DEF Document
  <2> QED BY <2>1, <2>2, <2>3, <2>4, <2>5 DEF Document
<1> QED BY <1>1, <1>2

\* So is what the Update after a reject makes of one.
LEMMA CountTyped ==
  ASSUME NEW d \in Document, NEW x \in Reasons, NEW b \in BOOLEAN
  PROVE  CountReject(d, x, b) \in Document
<1>1. [d.byReason EXCEPT ![x] = @ + 1] \in [Reasons -> Nat]
  BY DEF Document
<1>2. /\ d.rejected + 1 \in Nat
      /\ (IF b THEN d.mirrored + 1 ELSE d.mirrored) \in Nat
      /\ (IF b THEN d.mirrorFailed ELSE d.mirrorFailed + 1) \in Nat
  BY DEF Document
<1> QED BY <1>1, <1>2 DEF CountReject, Document

LEMMA NoEvidenceTyped ==
  ASSUME NEW e \in EdgeRows PROVE NoEvidence(e) \in EdgeRows
  BY DEF NoEvidence, EdgeRows

\* An Update keeps the types of the store.
LEMMA UpdateTyped ==
  ASSUME StoreTypeOK, NEW d \in Document, Update(d)
  PROVE  StoreTypeOK'
<1>1. edges' \subseteq EdgeRows
  BY NoEvidenceTyped DEF Update, StoreTypeOK
<1> QED BY <1>1 DEF Update, StoreTypeOK

\* appendGraph keeps the types of the store.
LEMMA AppendTyped ==
  ASSUME StoreTypeOK, NEW r \in Records, AppendGraph(r)
  PROVE  StoreTypeOK'
<1>1. Time(r) \in Nat
  BY MetaTyped DEF Time, MetaOf
<1>2. Inserted(r) \subseteq EdgeRows
  BY <1>1, LinksTyped DEF Inserted, Edge, EdgeRows, StoreTypeOK, Open
<1>3. Closed(r) \subseteq EdgeRows
  BY <1>1, <1>2 DEF Closed, ToClose, EdgeRows
<1>4. edges' \subseteq EdgeRows
  BY <1>2, <1>3 DEF AppendGraph
<1>5. entities' \in [EntityIds -> Nat]
  BY <1>1 DEF AppendGraph, LastSeenAfter, StoreTypeOK
<1>6. prov' \subseteq ProvRows
  BY <1>1, LinksTyped DEF AppendGraph, ProvenanceOf, ProvRows, StoreTypeOK
<1> QED BY <1>4, <1>5, <1>6 DEF AppendGraph, StoreTypeOK

\* Opening the store and losing it keep its types.
LEMMA OpenedTyped == ASSUME StoreTypeOK, StoreOpened PROVE StoreTypeOK'
  BY DEF StoreTypeOK, StoreOpened

LEMMA EmptyTyped == EmptyDocument \in Document
<1>1. /\ [k \in RollupIds |-> 0] \in [RollupIds -> Nat]
      /\ [t \in TaskIds |-> ""] \in [TaskIds -> Statuses]
      /\ [x \in Reasons |-> 0] \in [Reasons -> Nat]
  BY DEF Statuses
<1> QED BY <1>1 DEF EmptyDocument, Document

LEMMA LostTyped == ASSUME StoreTypeOK, StoreLost PROVE StoreTypeOK'
  BY EmptyTyped DEF StoreTypeOK, StoreLost

LEMMA SameTyped == ASSUME StoreTypeOK, UNCHANGED storeVars PROVE StoreTypeOK'
  BY DEF StoreTypeOK, storeVars

LEMMA TryTyped ==
  ASSUME StoreTypeOK, NEW d \in Document, TryUpdate(d) PROVE StoreTypeOK'
<1>1. CASE Update(d)
  BY <1>1, UpdateTyped
<1>2. CASE UpdateFails
  BY <1>2, SameTyped DEF UpdateFails
<1> QED BY <1>1, <1>2 DEF TryUpdate

-----------------------------------------------------------------------------
(* Types of the loop                                                         *)

LEMMA ChosenPartition == (CHOOSE p \in Partitions : TRUE) \in Partitions
  BY SomePartition

LEMMA LogRecords ==
  ASSUME NEW p \in Partitions
  PROVE  Len(Log[p]) \in Nat /\ \A i \in 1 .. Len(Log[p]) : Log[p][i] \in Records
  BY LogTyped

LEMMA OffsetsTyped ==
  ASSUME TypeOK, NEW p \in Partitions
  PROVE  /\ committed[p] \in Nat /\ next[p] \in Nat /\ fetched[p] \in Nat /\ Len(Log[p]) \in Nat
         /\ committed[p] <= next[p] /\ next[p] <= fetched[p] /\ fetched[p] <= Len(Log[p])
  BY LogRecords DEF TypeOK

\* At the end of a batch the next record is the end of the batch.
LEMMA DoneAtEnd ==
  ASSUME TypeOK, BatchDone, NEW p \in Partitions PROVE next[p] = fetched[p]
<1>1. ~(next[p] < fetched[p])
  BY DEF BatchDone, Offset
<1> QED BY <1>1, OffsetsTyped

LEMMA InitTyped == Init => TypeOK
<1> SUFFICES ASSUME Init PROVE TypeOK
  OBVIOUS
<1>1. StoreTypeOK
  BY EmptyTyped DEF Init, StoreInit, StoreTypeOK
<1>2. /\ Zero \in [Partitions -> Nat]
      /\ \A p \in Partitions : Zero[p] <= Zero[p] /\ Zero[p] <= Len(Log[p])
  BY LogRecords DEF Zero
<1>3. outcome \in [Records -> SUBSET Outcomes]
  BY DEF Init
<1> QED BY <1>1, <1>2, <1>3, ChosenPartition DEF Init, TypeOK, PC

LEMMA StepTyped == TypeOK /\ [Next]_vars => TypeOK'
<1> SUFFICES ASSUME TypeOK, [Next]_vars PROVE TypeOK'
  OBVIOUS
<1> USE DEF PC
<1>1. CASE Start
  <2>1. StoreTypeOK'
    BY <1>1, OpenedTyped DEF Start, TypeOK
  <2>2. next' \in [Partitions -> Nat] /\ fetched' \in [Partitions -> Nat]
    BY <1>1 DEF Start, Idle, TypeOK
  <2>5. ASSUME NEW p \in Partitions
        PROVE  committed'[p] <= next'[p] /\ next'[p] <= fetched'[p] /\ fetched'[p] <= Len(Log[p])
    <3>1. committed'[p] = committed[p] /\ next'[p] = committed[p] /\ fetched'[p] = committed[p]
      BY <1>1 DEF Start, Idle
    <3> QED BY <3>1, OffsetsTyped
  <2>3. at' \in Partitions
    BY <1>1, ChosenPartition DEF Start, Idle
  <2> QED BY <1>1, <2>1, <2>2, <2>3, <2>5 DEF Start, TypeOK
<1>2. CASE Configure
  <2>1. StoreTypeOK'
    BY <1>2, TryTyped DEF Configure, TypeOK, TryUpdate, StoreTypeOK
  <2> QED BY <1>2, <2>1 DEF Configure, TypeOK
<1>3. CASE CheckRequests
  <2>1. StoreTypeOK'
    BY <1>3, OpenedTyped DEF CheckRequests, TypeOK
  <2> QED BY <1>3, <2>1 DEF CheckRequests, TypeOK
<1>4. CASE PollEmpty
  <2>1. StoreTypeOK'
    BY <1>4, TryTyped DEF PollEmpty, TypeOK, StoreTypeOK
  <2> QED BY <1>4, <2>1 DEF PollEmpty, TypeOK
<1>5. CASE PollRecords
  <2>1. StoreTypeOK'
    BY <1>5, SameTyped DEF PollRecords, TypeOK
  <2>2. PICK ends \in [Partitions -> UNION {0 .. Len(Log[p]) : p \in Partitions}] :
          /\ \A p \in Partitions : next[p] <= ends[p] /\ ends[p] <= Len(Log[p])
          /\ fetched' = ends
    BY <1>5 DEF PollRecords
  <2>3. fetched' \in [Partitions -> Nat]
    BY <2>2, LogRecords
  <2> QED BY <1>5, <2>1, <2>2, <2>3 DEF PollRecords, TypeOK
<1>6. CASE PollFatal
  <2>1. StoreTypeOK'
    BY <1>6, TryTyped DEF PollFatal, TypeOK, StoreTypeOK
  <2>2. faults' \in Nat
    <3>1. faults \in Nat
      BY DEF TypeOK
    <3>2. faults' = faults + 1
      BY <1>6 DEF PollFatal
    <3> QED BY <3>1, <3>2
  <2> QED BY <1>6, <2>1, <2>2 DEF PollFatal, TypeOK
<1>7. ASSUME NEW p \in Partitions, Pick(p) PROVE TypeOK'
  <2>1. StoreTypeOK'
    BY <1>7, SameTyped DEF Pick, TypeOK
  <2>b. next[p] < fetched[p]
    BY <1>7 DEF Pick, Offset
  <2>2. next[p] + 1 <= fetched[p] /\ next[p] + 1 \in 1 .. Len(Log[p])
    BY <2>b, OffsetsTyped
  <2>3. Log[p][next[p] + 1] \in Records
    BY <2>2, LogRecords
  <2>4. Meta[Log[p][next[p] + 1]].refusal \in Refusals
    BY <2>3, MetaTyped DEF MetaOf
  <2>5. next' \in [Partitions -> Nat]
    <3>1. next' = [next EXCEPT ![p] = next[p] + 1]
      BY <1>7 DEF Pick
    <3>2. next \in [Partitions -> Nat]
      BY DEF TypeOK
    <3> QED BY <3>1, <3>2
  <2>6. ASSUME NEW q \in Partitions
        PROVE  committed'[q] <= next'[q] /\ next'[q] <= fetched'[q] /\ fetched'[q] <= Len(Log[q])
    <3>1. committed'[q] = committed[q] /\ fetched'[q] = fetched[q]
          /\ next'[q] = IF q = p THEN next[p] + 1 ELSE next[q]
      BY <1>7 DEF Pick, TypeOK
    <3> QED BY <2>2, <3>1, OffsetsTyped
  <2> QED BY <1>7, <2>1, <2>3, <2>4, <2>5, <2>6 DEF Pick, TypeOK, Refusals, Reasons
<1>8. CASE UpdateDocument
  <2>1. rec \in Records
    BY <1>8 DEF UpdateDocument, TypeOK
  <2>2. StoreTypeOK'
    <3>1. CASE \E d \in AcceptMessage(doc, rec) : Update(d)
      BY <3>1, <2>1, AcceptTyped, UpdateTyped DEF TypeOK, StoreTypeOK
    <3>2. CASE UpdateFails
      BY <3>2, SameTyped DEF UpdateFails, TypeOK
    <3> QED BY <1>8, <3>1, <3>2 DEF UpdateDocument
  <2> QED BY <1>8, <2>1, <2>2 DEF UpdateDocument, TypeOK, Reasons
<1>9. CASE UpdateGraph
  <2>1. rec \in Records
    BY <1>9 DEF UpdateGraph, TypeOK
  <2>2. StoreTypeOK'
    BY <1>9, <2>1, AppendTyped, SameTyped DEF UpdateGraph, GraphFails, TypeOK
  <2>3. outcome' \in [Records -> SUBSET Outcomes]
    BY <1>9, <2>1 DEF UpdateGraph, TypeOK, Outcomes
  <2> QED BY <1>9, <2>1, <2>2, <2>3 DEF UpdateGraph, TypeOK, Reasons
<1>10. CASE Mirror
  <2>1. StoreTypeOK'
    BY <1>10, SameTyped DEF Mirror, TypeOK
  <2>2. mirrored' \in BOOLEAN
    BY <1>10 DEF Mirror
  <2>3. produced' \in Nat
    <3>1. produced \in Nat
      BY DEF TypeOK
    <3>2. produced' = produced + 1 \/ produced' = produced
      BY <1>10 DEF Mirror
    <3> QED BY <3>1, <3>2
  <2> QED BY <1>10, <2>1, <2>2, <2>3 DEF Mirror, TypeOK
<1>11. CASE Reject
  <2>1. rec \in Records /\ reason \in Reasons
    BY <1>11 DEF Reject, TypeOK
  <2>2. StoreTypeOK'
    BY <1>11, <2>1, CountTyped, TryTyped DEF Reject, TypeOK, StoreTypeOK
  <2>3. outcome' \in [Records -> SUBSET Outcomes]
    BY <1>11, <2>1 DEF Reject, TypeOK, Outcomes
  <2> QED BY <1>11, <2>2, <2>3 DEF Reject, TypeOK
<1>12. CASE Commit
  <2>1. StoreTypeOK'
    BY <1>12, SameTyped DEF Commit, TypeOK
  <2>2. BatchDone
    BY <1>12 DEF Commit
  <2>4. ASSUME NEW p \in Partitions
        PROVE  committed'[p] <= next'[p] /\ next'[p] <= fetched'[p] /\ fetched'[p] <= Len(Log[p])
    <3>1. committed'[p] \in {committed[p], fetched[p]} /\ next'[p] = next[p] /\ fetched'[p] = fetched[p]
      BY <1>12 DEF Commit
    <3> QED BY <2>2, <3>1, OffsetsTyped, DoneAtEnd
  <2> QED BY <1>12, <2>1, <2>4 DEF Commit, TypeOK
<1>13. CASE CommitFails
  <2>1. StoreTypeOK'
    BY <1>13, SameTyped DEF CommitFails, TypeOK
  <2>2. BatchDone
    BY <1>13 DEF CommitFails
  <2>4. ASSUME NEW p \in Partitions
        PROVE  committed'[p] <= next'[p] /\ next'[p] <= fetched'[p] /\ fetched'[p] <= Len(Log[p])
    <3>1. committed'[p] \in {committed[p], fetched[p]} /\ next'[p] = next[p] /\ fetched'[p] = fetched[p]
      BY <1>13 DEF CommitFails
    <3> QED BY <2>2, <3>1, OffsetsTyped, DoneAtEnd
  <2>5. committed' \in [Partitions -> Nat]
    BY <1>13 DEF CommitFails, TypeOK
  <2>6. faults' \in Nat
    <3>1. faults \in Nat
      BY DEF TypeOK
    <3>2. faults' = faults + 1
      BY <1>13 DEF CommitFails
    <3> QED BY <3>1, <3>2
  <2> QED BY <1>13, <2>1, <2>4, <2>5, <2>6 DEF CommitFails, TypeOK
<1>14. CASE Crash
  <2>1. StoreTypeOK'
    BY <1>14, LostTyped DEF Crash, TypeOK
  <2>2. next' \in [Partitions -> Nat] /\ fetched' \in [Partitions -> Nat]
    BY <1>14 DEF Crash, Idle, TypeOK
  <2>5. ASSUME NEW p \in Partitions
        PROVE  committed'[p] <= next'[p] /\ next'[p] <= fetched'[p] /\ fetched'[p] <= Len(Log[p])
    <3>1. committed'[p] = committed[p] /\ next'[p] = committed[p] /\ fetched'[p] = committed[p]
      BY <1>14 DEF Crash, Idle
    <3> QED BY <3>1, OffsetsTyped
  <2>3. at' \in Partitions
    BY <1>14, ChosenPartition DEF Crash, Idle
  <2>4. mirrored' \in BOOLEAN
    BY <1>14 DEF Crash
  <2>6. crashes' \in Nat
    <3>1. crashes \in Nat
      BY DEF TypeOK
    <3>2. crashes' = crashes + 1
      BY <1>14 DEF Crash
    <3> QED BY <3>1, <3>2
  <2> QED BY <1>14, <2>1, <2>2, <2>3, <2>4, <2>5, <2>6 DEF Crash, TypeOK
<1>15. CASE UNCHANGED vars
  <2>1. StoreTypeOK'
    BY <1>15, SameTyped DEF vars, TypeOK
  <2> QED BY <1>15, <2>1 DEF vars, loopVars, TypeOK
<1> QED BY <1>1, <1>2, <1>3, <1>4, <1>5, <1>6, <1>7, <1>8, <1>9, <1>10, <1>11, <1>12, <1>13,
           <1>14, <1>15 DEF Next, Loop, Stopped

\* Every variable of the store and of the loop keeps to its type, for every log and
\* every content of the records.
THEOREM TypeCorrect == Spec => []TypeOK
  BY InitTyped, StepTyped, PTL DEF Spec

-----------------------------------------------------------------------------
(* Nothing below a committed offset is skipped                               *)

InFlight == {"update", "graph", "mirror", "reject"}

\* The record in the handler is the one just below the offset of its partition.
RecordInFlight ==
    pc \in InFlight => next[at] \in 1 .. Len(Log[at]) /\ rec = Log[at][next[at]]

\* Everything below the next offset of a partition has an outcome, but for the
\* record in the handler.
BatchHandled ==
    \A p \in Partitions : \A i \in 1 .. next[p] :
        \/ Log[p][i] \in Resolved
        \/ pc \in InFlight /\ p = at /\ i = next[p]

\* CommittedResolved is not inductive: Commit takes the offsets of the batch, and a
\* restart makes the committed offsets the next ones.
Inv == TypeOK /\ CommittedResolved /\ RecordInFlight /\ BatchHandled

LEMMA InitInv == Init => Inv
<1> SUFFICES ASSUME Init PROVE Inv
  OBVIOUS
<1>1. TypeOK
  BY InitTyped
<1>2. \A p \in Partitions : next[p] = 0 /\ committed[p] = 0
  BY DEF Init, Zero
<1>3. pc = "down"
  BY DEF Init
<1> QED BY <1>1, <1>2, <1>3 DEF Inv, CommittedResolved, RecordInFlight, BatchHandled, InFlight

\* Only UpdateGraph and Reject give an outcome, to the record in the handler.
LEMMA Outcome ==
  ASSUME TypeOK, [Next]_vars
  PROVE  \/ outcome' = outcome
         \/ /\ pc \in {"graph", "reject"} /\ pc' = "pick"
            /\ rec \in Records
            /\ \E x \in Outcomes : outcome' = [outcome EXCEPT ![rec] = @ \cup {x}]
            /\ UNCHANGED <<next, fetched, at, committed>>
<1>1. CASE UpdateGraph
  BY <1>1 DEF UpdateGraph, TypeOK, Outcomes
<1>2. CASE Reject
  BY <1>2 DEF Reject, TypeOK, Outcomes
<1>3. CASE ~UpdateGraph /\ ~Reject
  BY <1>3 DEF Next, Loop, Stopped, vars, loopVars, Start, Configure, CheckRequests, PollEmpty,
              PollRecords, PollFatal, Pick, UpdateDocument, Mirror, Commit, CommitFails, Crash
<1> QED BY <1>1, <1>2, <1>3

\* An outcome is never lost, and the one given is that of the record in the handler.
LEMMA ResolvedGrows ==
  ASSUME TypeOK, [Next]_vars
  PROVE  \/ Resolved' = Resolved
         \/ /\ pc \in {"graph", "reject"} /\ pc' = "pick"
            /\ rec \in Records /\ Resolved' = Resolved \cup {rec}
            /\ UNCHANGED <<next, fetched, at, committed>>
<1>1. CASE outcome' = outcome
  BY <1>1 DEF Resolved
<1>2. CASE outcome' # outcome
  <2>1. PICK x \in Outcomes : outcome' = [outcome EXCEPT ![rec] = @ \cup {x}]
    BY <1>2, Outcome
  <2>2. rec \in Records /\ outcome \in [Records -> SUBSET Outcomes]
    BY <1>2, Outcome DEF TypeOK
  <2>3. Resolved' = Resolved \cup {rec}
    BY <2>1, <2>2 DEF Resolved
  <2> QED BY <1>2, <2>2, <2>3, Outcome
<1> QED BY <1>1, <1>2

LEMMA StepInv == Inv /\ [Next]_vars => Inv'
<1> SUFFICES ASSUME Inv, [Next]_vars PROVE Inv'
  OBVIOUS
<1>t. TypeOK /\ TypeOK'
  BY StepTyped DEF Inv
<1>r. Resolved \subseteq Resolved'
  BY <1>t, ResolvedGrows
<1>1. CommittedResolved'
  <2>1. \/ committed' = committed
        \/ BatchDone /\ pc = "pick" /\ committed' \in {committed, fetched}
    BY DEF Next, Loop, Stopped, vars, loopVars, Start, Configure, CheckRequests, PollEmpty,
           PollRecords, PollFatal, Pick, UpdateDocument, UpdateGraph, Mirror, Reject, Commit,
           CommitFails, Crash, BatchDone
  <2>2. CASE committed' = committed
    BY <2>2, <1>r DEF Inv, CommittedResolved
  <2>3. CASE BatchDone /\ pc = "pick" /\ committed' = fetched
    <3>1. \A p \in Partitions : next[p] = fetched[p]
      BY <1>t, <2>3, DoneAtEnd
    <3>2. \A p \in Partitions : \A i \in 1 .. next[p] : Log[p][i] \in Resolved
      BY <2>3 DEF Inv, BatchHandled, InFlight
    <3> QED BY <2>3, <3>1, <3>2, <1>r DEF CommittedResolved
  <2> QED BY <2>1, <2>2, <2>3
<1> SUFFICES RecordInFlight' /\ BatchHandled'
  BY <1>t, <1>1 DEF Inv
<1>h. \A p \in Partitions : \A i \in 1 .. next[p] :
        Log[p][i] \in Resolved \/ (pc \in InFlight /\ p = at /\ i = next[p])
  BY DEF Inv, BatchHandled
<1>c. \A p \in Partitions : \A i \in 1 .. committed[p] : Log[p][i] \in Resolved
  BY DEF Inv, CommittedResolved
<1>2. CASE /\ pc \notin InFlight /\ pc' \notin InFlight
           /\ next' = next \/ next' = committed
  <2>1. ASSUME NEW p \in Partitions, NEW i \in 1 .. next'[p] PROVE Log[p][i] \in Resolved'
    <3>1. i \in 1 .. next[p] \/ i \in 1 .. committed[p]
      BY <1>2
    <3> QED BY <3>1, <1>2, <1>h, <1>c, <1>r
  <2> QED BY <2>1, <1>2 DEF RecordInFlight, BatchHandled
<1>3. CASE /\ pc \in InFlight /\ pc' \in InFlight
           /\ UNCHANGED <<next, at, rec>>
  <2>1. RecordInFlight'
    BY <1>3 DEF Inv, RecordInFlight
  <2>2. ASSUME NEW p \in Partitions, NEW i \in 1 .. next'[p]
        PROVE  Log[p][i] \in Resolved' \/ (p = at /\ i = next[p])
    BY <1>3, <1>h, <1>r
  <2> QED BY <2>1, <2>2, <1>3 DEF BatchHandled
<1>4. CASE pc \in InFlight /\ pc' \notin InFlight /\ next' = committed
  <2>1. ASSUME NEW p \in Partitions, NEW i \in 1 .. next'[p] PROVE Log[p][i] \in Resolved'
    BY <1>4, <1>c, <1>r
  <2> QED BY <2>1, <1>4 DEF RecordInFlight, BatchHandled
<1>5. CASE /\ pc \in InFlight /\ pc' \notin InFlight
           /\ next' = next /\ Resolved' = Resolved \cup {rec}
  <2>1. rec = Log[at][next[at]]
    BY <1>5 DEF Inv, RecordInFlight
  <2>2. ASSUME NEW p \in Partitions, NEW i \in 1 .. next'[p] PROVE Log[p][i] \in Resolved'
    BY <1>5, <1>h, <2>1
  <2> QED BY <2>2, <1>5 DEF RecordInFlight, BatchHandled
<1>6. ASSUME NEW p \in Partitions, Pick(p) PROVE RecordInFlight' /\ BatchHandled'
  <2>1. /\ pc \notin InFlight /\ at' = p /\ rec' = Log[p][next[p] + 1]
        /\ next' = [next EXCEPT ![p] = next[p] + 1] /\ pc' \in InFlight
    BY <1>6 DEF Pick, InFlight
  <2>2. next \in [Partitions -> Nat] /\ next'[p] = next[p] + 1 /\ next[p] \in Nat
    BY <1>t, <2>1 DEF TypeOK
  <2>3. next'[p] \in 1 .. Len(Log[p])
    <3>1. next[p] < fetched[p]
      BY <1>6 DEF Pick, Offset
    <3> QED BY <1>t, <2>2, <3>1, OffsetsTyped
  <2>4. ASSUME NEW q \in Partitions, NEW i \in 1 .. next'[q]
        PROVE  Log[q][i] \in Resolved' \/ (q = p /\ i = next'[p])
    <3>1. CASE i \in 1 .. next[q]
      <4>1. Log[q][i] \in Resolved
        BY <3>1, <2>1, <1>h
      <4>2. Log[q][i] \in Resolved'
        BY <4>1, <1>r, Zenon
      <4> QED BY <4>2, Zenon
    <3>2. CASE i \notin 1 .. next[q]
      <4>1. next[q] \in Nat /\ next'[q] = IF q = p THEN next[q] + 1 ELSE next[q]
        BY <2>1, <2>2
      <4> QED BY <3>2, <4>1
    <3> QED BY <3>1, <3>2
  <2>5. BatchHandled'
    BY <2>1, <2>4, Zenon DEF BatchHandled
  <2>6. RecordInFlight'
    <3>1. at' = p /\ rec' = Log[p][next'[p]]
      BY <2>1, <2>2
    <3> QED BY <2>3, <3>1 DEF RecordInFlight
  <2> QED BY <2>5, <2>6
<1>7. \/ \E p \in Partitions : Pick(p)
      \/ /\ pc \notin InFlight /\ pc' \notin InFlight
         /\ next' = next \/ next' = committed
      \/ pc \in InFlight /\ pc' \in InFlight /\ UNCHANGED <<next, at, rec>>
      \/ pc \in InFlight /\ pc' \notin InFlight /\ next' = committed
      \/ pc \in InFlight /\ pc' \notin InFlight /\ next' = next /\ Resolved' = Resolved \cup {rec}
  <2>1. CASE Start \/ Crash
    BY <2>1 DEF Start, Crash, Idle, InFlight
  <2>2. CASE Configure \/ CheckRequests \/ PollEmpty \/ PollRecords \/ PollFatal \/ Commit
             \/ CommitFails
    BY <2>2 DEF Configure, CheckRequests, PollEmpty, PollRecords, PollFatal, Commit, CommitFails,
                BatchDone, InFlight
  <2>3. CASE UpdateDocument \/ Mirror
    BY <2>3 DEF UpdateDocument, Mirror, InFlight
  <2>4. CASE UpdateGraph \/ Reject
    <3>1. rec \in Records /\ outcome \in [Records -> SUBSET Outcomes]
      BY <1>t, <2>4 DEF UpdateGraph, Reject, TypeOK
    <3>2. CASE pc' = "pick"
      <4>1. PICK x : outcome' = [outcome EXCEPT ![rec] = @ \cup {x}]
        BY <2>4, <3>2 DEF UpdateGraph, Reject
      <4>2. Resolved' = Resolved \cup {rec}
        BY <3>1, <4>1 DEF Resolved
      <4> QED BY <2>4, <3>2, <4>2 DEF UpdateGraph, Reject, InFlight
    <3>3. CASE pc' # "pick"
      BY <2>4, <3>3 DEF UpdateGraph, Reject, InFlight
    <3> QED BY <3>2, <3>3
  <2>5. CASE UNCHANGED vars
    BY <2>5 DEF vars, loopVars, InFlight
  <2> QED BY <2>1, <2>2, <2>3, <2>4, <2>5 DEF Next, Loop, Stopped
<1> QED BY <1>2, <1>3, <1>4, <1>5, <1>6, <1>7

\* No offset is committed before every record below it has had an outcome, whatever
\* died or failed in between.
THEOREM NothingSkipped == Spec => []CommittedResolved
<1>1. Spec => []Inv
  BY InitInv, StepInv, PTL DEF Spec
<1>2. Inv => CommittedResolved
  BY DEF Inv
<1> QED BY <1>1, <1>2, PTL

-----------------------------------------------------------------------------
(* The loop implements the abstract consumer                                 *)

LEMMA RefinesInit == Init => Consumer!Init
<1> SUFFICES ASSUME Init PROVE Consumer!Init
  OBVIOUS
<1>1. Resolved = {}
  BY DEF Init, Resolved
<1> QED BY <1>1 DEF Init, Zero, Consumer!Init

LEMMA RefinesStep == Inv /\ [Next]_vars => [Consumer!Next]_(Consumer!vars)
<1> SUFFICES ASSUME Inv, [Next]_vars PROVE [Consumer!Next]_(Consumer!vars)
  OBVIOUS
<1>t. TypeOK
  BY DEF Inv
<1>1. CASE Resolved' = Resolved /\ committed' = committed
  BY <1>1 DEF Consumer!vars
<1>2. CASE Resolved' # Resolved
  <2>1. /\ pc \in InFlight /\ rec \in Records
        /\ Resolved' = Resolved \cup {rec} /\ committed' = committed
    BY <1>2, <1>t, ResolvedGrows DEF InFlight
  <2>2. at \in Partitions /\ next[at] \in 1 .. Len(Log[at]) /\ rec = Log[at][next[at]]
    BY <1>t, <2>1 DEF Inv, RecordInFlight, TypeOK
  <2>3. ASSUME NEW j \in 1 .. next[at] - 1 PROVE Log[at][j] \in Resolved
    <3>1. next[at] \in Nat /\ j \in 1 .. next[at] /\ j # next[at]
      BY <2>2, OffsetsTyped, <1>t
    <3> QED BY <2>2, <3>1 DEF Inv, BatchHandled
  <2>4. Consumer!Resolve(at, next[at])
    BY <2>1, <2>2, <2>3 DEF Consumer!Resolve, Consumer!PrefixResolved
  <2> QED BY <2>2, <2>4 DEF Consumer!Next
<1>3. CASE Resolved' = Resolved /\ committed' # committed
  <2>1. BatchDone /\ pc = "pick" /\ committed' = fetched
    BY <1>3 DEF Next, Loop, Stopped, vars, loopVars, Start, Configure, CheckRequests, PollEmpty,
                PollRecords, PollFatal, Pick, UpdateDocument, UpdateGraph, Mirror, Reject, Commit,
                CommitFails, Crash, BatchDone
  <2>2. ASSUME NEW p \in Partitions
        PROVE  /\ committed[p] <= fetched[p]
               /\ fetched[p] \in 0 .. Len(Log[p])
               /\ \A i \in 1 .. fetched[p] : Log[p][i] \in Resolved
    <3>1. next[p] = fetched[p]
      BY <1>t, <2>1, DoneAtEnd
    <3>2. \A i \in 1 .. next[p] : Log[p][i] \in Resolved
      BY <2>1 DEF Inv, BatchHandled, InFlight
    <3> QED BY <1>t, <3>1, <3>2, OffsetsTyped
  <2>3. fetched \in Consumer!Offsets
    BY <1>t, <2>2, OffsetsTyped DEF Consumer!Offsets, TypeOK
  <2>4. Consumer!Commit(fetched)
    BY <1>3, <2>1, <2>2 DEF Consumer!Commit, Consumer!PrefixResolved
  <2> QED BY <2>3, <2>4 DEF Consumer!Next
<1> QED BY <1>1, <1>2, <1>3

\* Every behaviour of the loop, deaths and failures included, is one of a consumer that
\* gives each record of a partition its outcome in order and commits after it.
THEOREM ImplementsConsumer == Spec => ConsumesAtLeastOnce
<1>1. Spec => []Inv
  BY InitInv, StepInv, PTL DEF Spec
<1> QED BY <1>1, RefinesInit, RefinesStep, PTL DEF Spec, ConsumesAtLeastOnce, Consumer!Spec

-----------------------------------------------------------------------------
(* The store under the loop                                                  *)

\* What a step of the loop may do to the store.
LEMMA StoreStep ==
  ASSUME TypeOK, [Next]_vars
  PROVE  \/ StoreOpened
         \/ StoreLost /\ pc' = "down"
         \/ \E d \in Document : Update(d)
         \/ rec \in Records /\ AppendGraph(rec)
         \/ UNCHANGED storeVars /\ (pc' = "down" <=> pc = "down")
<1>1. CASE Start \/ CheckRequests
  BY <1>1 DEF Start, CheckRequests
<1>2. CASE Configure \/ PollEmpty \/ PollFatal
  <2>1. doc \in Document
    BY DEF TypeOK, StoreTypeOK
  <2> QED BY <1>2, <2>1 DEF Configure, PollEmpty, PollFatal, TryUpdate, UpdateFails
<1>3. CASE UpdateDocument
  <2>1. rec \in Records /\ doc \in Document
    BY <1>3 DEF UpdateDocument, TypeOK, StoreTypeOK
  <2>2. CASE \E d \in AcceptMessage(doc, rec) : Update(d)
    BY <2>1, <2>2, AcceptTyped
  <2>3. CASE UpdateFails /\ pc' = "mirror"
    BY <1>3, <2>3 DEF UpdateFails, UpdateDocument
  <2> QED BY <1>3, <2>2, <2>3 DEF UpdateDocument
<1>4. CASE UpdateGraph
  BY <1>4 DEF UpdateGraph, GraphFails, TypeOK
<1>5. CASE Reject
  <2>1. CountReject(doc, reason, mirrored) \in Document
    BY <1>5, CountTyped DEF Reject, TypeOK, StoreTypeOK
  <2> QED BY <1>5, <2>1 DEF Reject, TryUpdate, UpdateFails
<1>6. CASE Crash
  BY <1>6 DEF Crash
<1>7. CASE PollRecords \/ Mirror \/ Commit \/ CommitFails \/ (\E p \in Partitions : Pick(p))
           \/ UNCHANGED vars
  BY <1>7 DEF PollRecords, Mirror, Commit, CommitFails, BatchDone, Pick, vars, loopVars
<1> QED BY <1>1, <1>2, <1>3, <1>4, <1>5, <1>6, <1>7 DEF Next, Loop, Stopped

\* While the process is up, the document in memory is the one on disk.
THEOREM MemoryIsDisk == Spec => []DocumentOnDisk
<1>1. Init => DocumentOnDisk
  BY DEF Init, DocumentOnDisk
<1>2. TypeOK /\ DocumentOnDisk /\ [Next]_vars => DocumentOnDisk'
  BY StoreStep DEF DocumentOnDisk, StoreOpened, Update, AppendGraph, storeVars
<1> QED BY <1>1, <1>2, TypeCorrect, PTL DEF Spec

\* An edge of the store with its evidence taken away is the same edge.
LEMMA EdgeFields ==
  ASSUME StoreTypeOK, NEW e \in edges
  PROVE  /\ NoEvidence(e).link = e.link /\ NoEvidence(e).from = e.from /\ NoEvidence(e).to = e.to
         /\ \A t : LET f == [e EXCEPT !.to = t] IN
               f.link = e.link /\ f.from = e.from /\ f.to = t /\ f.ev = e.ev
  BY DEF StoreTypeOK, EdgeRows, NoEvidence

\* No step deletes an edge, changes its ends or its start, or reopens it.
THEOREM HistoryKept == Spec => EdgesAreHistory
<1>1. ASSUME TypeOK, [Next]_vars, NEW e \in edges
      PROVE  \E f \in edges' : f.link = e.link /\ f.from = e.from /\ (e.to # Open => f.to = e.to)
  <2>t. StoreTypeOK
    BY <1>1 DEF TypeOK
  <2>1. CASE edges' = edges
    BY <2>1
  <2>2. ASSUME NEW d \in Document, Update(d)
        PROVE  \E f \in edges' : f.link = e.link /\ f.from = e.from /\ (e.to # Open => f.to = e.to)
    <3>1. NoEvidence(e) \in edges'
      BY <2>2 DEF Update
    <3> QED BY <2>t, <3>1, EdgeFields
  <2>3. ASSUME NEW r \in Records, AppendGraph(r)
        PROVE  \E f \in edges' : f.link = e.link /\ f.from = e.from /\ (e.to # Open => f.to = e.to)
    <3>1. e \in Inserted(r)
      BY DEF Inserted
    <3>2. CASE e \in ToClose(r)
      <4>1. [e EXCEPT !.to = Time(r)] \in edges' /\ e.to = Open
        BY <2>3, <3>2 DEF AppendGraph, Closed, ToClose
      <4> QED BY <2>t, <4>1, EdgeFields
    <3>3. CASE e \notin ToClose(r)
      BY <2>3, <3>1, <3>3 DEF AppendGraph
    <3> QED BY <3>2, <3>3
  <2> QED BY <1>1, <2>1, <2>2, <2>3, StoreStep DEF StoreOpened, StoreLost, storeVars
<1>2. TypeOK /\ [Next]_vars =>
        [\A e \in edges : \E f \in edges' :
            f.link = e.link /\ f.from = e.from /\ (e.to # Open => f.to = e.to)]_vars
  BY <1>1
<1> QED BY <1>2, TypeCorrect, PTL DEF Spec, EdgesAreHistory

\* Two edges that differ only in their evidence.
Twins(e, f) == NoEvidence(e) = NoEvidence(f) /\ e # f

\* Twins have the same fields but for their evidence.
LEMMA TwinFields ==
  ASSUME StoreTypeOK, NEW e \in edges, NEW f \in edges, Twins(e, f)
  PROVE  e.link = f.link /\ e.from = f.from /\ e.to = f.to /\ e.ev # f.ev
<1>1. e \in EdgeRows /\ f \in EdgeRows
  BY DEF StoreTypeOK
<1>2. e.link = f.link /\ e.from = f.from /\ e.to = f.to
  BY EdgeFields DEF Twins
<1> QED BY <1>1, <1>2 DEF Twins, EdgeRows

\* Once two edges differ only in their evidence, no step makes the document tables
\* writable again.  Update is refused; appendGraph closes both or neither, since what it
\* closes depends on their link and their end; opening the store leaves the graph alone.
THEOREM NeverWritableAgain == Spec => UnwritableForever
<1>1. ASSUME TypeOK, [Next]_vars, ~RewriteFits PROVE ~RewriteFits'
  <2>t. StoreTypeOK
    BY <1>1 DEF TypeOK
  <2>1. PICK e \in edges, f \in edges : Twins(e, f)
    BY <1>1 DEF RewriteFits, Twins
  <2>2. /\ e.link = f.link /\ e.from = f.from /\ e.to = f.to /\ e.ev # f.ev
        /\ e \in EdgeRows /\ f \in EdgeRows
    BY <2>t, <2>1, TwinFields DEF StoreTypeOK
  <2>3. CASE edges' = edges
    BY <2>1, <2>3 DEF RewriteFits, Twins
  <2>4. ASSUME NEW r \in Records, AppendGraph(r) PROVE ~RewriteFits'
    <3>1. e \in Inserted(r) /\ f \in Inserted(r)
      BY DEF Inserted
    <3>2. e \in ToClose(r) <=> f \in ToClose(r)
      BY <2>2, <3>1 DEF ToClose
    <3>3. CASE e \in ToClose(r)
      <4> DEFINE ce == [e EXCEPT !.to = Time(r)]
                 cf == [f EXCEPT !.to = Time(r)]
      <4>1. ce \in edges' /\ cf \in edges'
        BY <2>4, <3>2, <3>3 DEF AppendGraph, Closed
      <4>2. ce.ev = e.ev /\ cf.ev = f.ev
        BY <2>t, EdgeFields
      <4>3. NoEvidence(ce) = NoEvidence(cf)
        BY <2>2 DEF NoEvidence, EdgeRows
      <4> QED BY <2>2, <4>1, <4>2, <4>3 DEF RewriteFits
    <3>4. CASE e \notin ToClose(r)
      <4>1. e \in edges' /\ f \in edges'
        BY <2>4, <3>1, <3>2, <3>4 DEF AppendGraph
      <4> QED BY <2>1, <4>1 DEF RewriteFits, Twins
    <3> QED BY <3>3, <3>4
  <2>5. \A d : ~Update(d)
    BY <1>1 DEF Update
  <2> QED BY <1>1, <2>3, <2>4, <2>5, StoreStep DEF StoreOpened, StoreLost, storeVars
<1>2. TypeOK /\ [Next]_vars => [~RewriteFits => ~RewriteFits']_vars
  BY <1>1
<1> QED BY <1>2, TypeCorrect, PTL DEF Spec, UnwritableForever

-----------------------------------------------------------------------------
(* Accepted records                                                          *)

HasEdge(l, t) == \E e \in edges : e.link = l /\ e.from = t

\* An edge with given ends and start stays.
LEMMA EdgeStays ==
  ASSUME TypeOK, [Next]_vars, NEW l, NEW t, HasEdge(l, t)
  PROVE  HasEdge(l, t)'
<1>t. StoreTypeOK
  BY DEF TypeOK
<1>1. PICK e \in edges : e.link = l /\ e.from = t
  BY DEF HasEdge
<1>2. CASE edges' = edges
  BY <1>2, <1>1 DEF HasEdge
<1>3. ASSUME NEW d \in Document, Update(d) PROVE HasEdge(l, t)'
  <2>1. NoEvidence(e) \in edges'
    BY <1>3 DEF Update
  <2> QED BY <1>t, <1>1, <2>1, EdgeFields DEF HasEdge
<1>4. ASSUME NEW r \in Records, AppendGraph(r) PROVE HasEdge(l, t)'
  <2>1. CASE e \in ToClose(r)
    <3>1. [e EXCEPT !.to = Time(r)] \in edges'
      BY <1>4, <2>1 DEF AppendGraph, Closed
    <3> QED BY <1>t, <1>1, <3>1, EdgeFields DEF HasEdge
  <2>2. CASE e \notin ToClose(r)
    BY <1>4, <1>1, <2>2 DEF AppendGraph, Inserted, HasEdge
  <2> QED BY <2>1, <2>2
<1> QED BY <1>2, <1>3, <1>4, StoreStep DEF StoreOpened, StoreLost, storeVars

\* appendGraph leaves an edge for every link of its record.
LEMMA LinksAppended ==
  ASSUME StoreTypeOK, NEW r \in Records, AppendGraph(r), NEW l \in Links(r)
  PROVE  HasEdge(l, Time(r))'
<1>1. Edge(l, r) \in Inserted(r)
  BY DEF Inserted
<1>2. /\ Edge(l, r).link = l /\ Edge(l, r).from = Time(r)
      /\ [Edge(l, r) EXCEPT !.to = Time(r)].link = l
      /\ [Edge(l, r) EXCEPT !.to = Time(r)].from = Time(r)
  BY DEF Edge
<1>3. CASE Edge(l, r) \in ToClose(r)
  <2>1. [Edge(l, r) EXCEPT !.to = Time(r)] \in edges'
    BY <1>3 DEF AppendGraph, Closed
  <2> QED BY <1>2, <2>1 DEF HasEdge
<1>4. CASE Edge(l, r) \notin ToClose(r)
  <2>1. Edge(l, r) \in edges'
    BY <1>1, <1>4 DEF AppendGraph
  <2> QED BY <1>2, <2>1 DEF HasEdge
<1> QED BY <1>3, <1>4

\* A record is reported accepted only by UpdateGraph, after appendGraph.
LEMMA AcceptedByGraph ==
  ASSUME TypeOK, [Next]_vars, NEW r \in Records,
         "accepted" \in outcome'[r], "accepted" \notin outcome[r]
  PROVE  AppendGraph(r)
<1>1. outcome \in [Records -> SUBSET Outcomes]
  BY DEF TypeOK
<1>2. outcome' # outcome
  OBVIOUS
<1>3. CASE UpdateGraph
  BY <1>1, <1>3 DEF UpdateGraph, TypeOK
<1>4. CASE Reject
  <2>1. reason \in Reasons /\ "accepted" \notin Reasons
    BY <1>4 DEF Reject, TypeOK, Reasons
  <2>2. outcome' = [outcome EXCEPT ![rec] = @ \cup {reason}]
    BY <1>4 DEF Reject
  <2> QED BY <1>1, <2>1, <2>2
<1>5. CASE ~UpdateGraph /\ ~Reject
  BY <1>2, <1>5 DEF Next, Loop, Stopped, vars, loopVars, Start, Configure, CheckRequests,
          PollEmpty, PollRecords, PollFatal, Pick, UpdateDocument, Mirror, Commit, CommitFails,
          Crash
<1> QED BY <1>3, <1>4, <1>5

\* A record reported accepted keeps all its links in the graph, through deaths between
\* the transaction of the message and that of the graph, evictions and closings.
THEOREM AcceptanceKept == Spec => []AcceptedInGraph
<1>1. Init => AcceptedInGraph
  BY DEF Init, AcceptedInGraph
<1>2. TypeOK /\ AcceptedInGraph /\ [Next]_vars => AcceptedInGraph'
  <2> SUFFICES ASSUME TypeOK, AcceptedInGraph, [Next]_vars,
                      NEW r \in Records, "accepted" \in outcome'[r], NEW l \in Links(r)
               PROVE  HasEdge(l, Time(r))'
    BY DEF AcceptedInGraph, HasEdge
  <2>1. CASE "accepted" \in outcome[r]
    <3>1. HasEdge(l, Time(r))
      BY <2>1 DEF AcceptedInGraph, HasEdge
    <3> QED BY <3>1, EdgeStays
  <2>2. CASE "accepted" \notin outcome[r]
    BY <2>2, AcceptedByGraph, LinksAppended DEF TypeOK
  <2> QED BY <2>1, <2>2
<1> QED BY <1>1, <1>2, TypeCorrect, PTL DEF Spec

-----------------------------------------------------------------------------
(* The graph tables                                                          *)

\* The ends of a link of a record are entities the record upserts.
LEMMA EndsTouched ==
  ASSUME NEW r \in Records, NEW l \in Links(r)
  PROVE  l.src \in Touched(r) /\ l.dst \in Touched(r)
  BY DEF Touched

LEMMA EndsKnown ==
  ASSUME NEW l \in AllLinks PROVE l.src \in EntityIds /\ l.dst \in EntityIds
<1>1. PICK r \in Records : l \in Links(r)
  BY DEF AllLinks
<1> QED BY <1>1, EndsTouched DEF EntityIds

\* last_seen never goes back, and is at least the time of the record for what it upserts.
LEMMA LastSeenGrows ==
  ASSUME StoreTypeOK, NEW r \in Records, AppendGraph(r), NEW x \in EntityIds
  PROVE  /\ entities[x] \in Nat /\ entities'[x] \in Nat
         /\ entities'[x] >= entities[x]
         /\ x \in Touched(r) => entities'[x] >= Time(r)
<1>1. entities[x] \in Nat /\ Time(r) \in Nat
  BY MetaTyped DEF StoreTypeOK, Time, MetaOf
<1>2. entities'[x] = IF x \in Touched(r) /\ Time(r) > entities[x] THEN Time(r) ELSE entities[x]
  BY DEF AppendGraph, LastSeenAfter
<1> QED BY <1>1, <1>2

\* The three things GraphConsistent says of an edge.
Cited(e)     == e.ev \in db.messages \cup {Null}
Seen(e)      == entities[e.link.src] >= e.from /\ entities[e.link.dst] >= e.from
Explained(e) == \E v \in prov : /\ v.link = e.link /\ v.from = e.from
                                /\ v.decision = "inserted"
                                /\ e.ev \in {v.ev, Null}

\* Every edge after appendGraph is one that was inserted before or by it, but for its end.
LEMMA EdgeOrigin ==
  ASSUME StoreTypeOK, NEW r \in Records, AppendGraph(r), NEW e \in edges'
  PROVE  \E g \in Inserted(r) : e.link = g.link /\ e.from = g.from /\ e.ev = g.ev
<1>1. CASE e \in Inserted(r)
  BY <1>1
<1>2. CASE e \notin Inserted(r)
  <2>1. PICK g \in ToClose(r) : e = [g EXCEPT !.to = Time(r)]
    BY <1>2 DEF AppendGraph, Closed
  <2>2. g \in Inserted(r)
    BY DEF ToClose
  <2>3. g \in EdgeRows \/ \E l \in Links(r) : g = Edge(l, r)
    BY <2>2 DEF Inserted, StoreTypeOK
  <2>4. e.link = g.link /\ e.from = g.from /\ e.ev = g.ev
    BY <2>1, <2>3 DEF EdgeRows, Edge
  <2> QED BY <2>2, <2>4
<1> QED BY <1>1, <1>2

\* An edge of the record itself, new to the table, is cited, seen and explained.
LEMMA InsertedConsistent ==
  ASSUME StoreTypeOK, NEW r \in Records, AppendGraph(r), NEW l \in Links(r),
         Edge(l, r) \notin edges
  PROVE  Cited(Edge(l, r))' /\ Seen(Edge(l, r))' /\ Explained(Edge(l, r))'
<1>1. Edge(l, r).link = l /\ Edge(l, r).from = Time(r) /\ Edge(l, r).ev = r
  BY DEF Edge
<1>2. Cited(Edge(l, r))'
  BY <1>1 DEF AppendGraph, GraphFits, Cited
<1>3. Seen(Edge(l, r))'
  <2>1. l.src \in EntityIds /\ l.dst \in EntityIds
    BY LinksTyped, EndsKnown
  <2>2. entities'[l.src] >= Time(r) /\ entities'[l.dst] >= Time(r)
    BY <2>1, EndsTouched, LastSeenGrows
  <2> QED BY <1>1, <2>2 DEF Seen
<1>4. Explained(Edge(l, r))'
  <2> DEFINE v == [link |-> l, from |-> Time(r), ev |-> r, decision |-> "inserted"]
  <2>1. v \in ProvenanceOf(r)
    BY DEF ProvenanceOf
  <2>2. v \in prov'
    BY <2>1 DEF AppendGraph
  <2> QED BY <1>1, <2>2 DEF Explained
<1> QED BY <1>2, <1>3, <1>4

\* appendGraph keeps what is said of an edge that was there.
LEMMA KeptConsistent ==
  ASSUME StoreTypeOK, NEW r \in Records, AppendGraph(r), NEW g \in edges,
         Cited(g), Seen(g), Explained(g)
  PROVE  Cited(g)' /\ Seen(g)' /\ Explained(g)'
<1>1. Cited(g)'
  BY DEF AppendGraph, Cited
<1>2. Seen(g)'
  <2>1. g.link \in AllLinks /\ g.from \in Nat
    BY DEF StoreTypeOK, EdgeRows
  <2>2. g.link.src \in EntityIds /\ g.link.dst \in EntityIds
    BY <2>1, EndsKnown
  <2>3. entities[g.link.src] >= g.from /\ entities[g.link.dst] >= g.from
    BY DEF Seen
  <2>4. entities'[g.link.src] >= g.from /\ entities'[g.link.dst] >= g.from
    BY <2>1, <2>2, <2>3, LastSeenGrows
  <2> QED BY <2>4 DEF Seen
<1>3. Explained(g)'
  BY DEF AppendGraph, Explained
<1> QED BY <1>1, <1>2, <1>3

\* What is said of an edge depends on its ends, start and evidence only.
LEMMA SameEdge ==
  ASSUME NEW e, NEW g, e.link = g.link, e.from = g.from, e.ev = g.ev,
         Cited(g)', Seen(g)', Explained(g)'
  PROVE  Cited(e)' /\ Seen(e)' /\ Explained(e)'
  BY DEF Cited, Seen, Explained

\* A rewrite of the document or an appendGraph keeps the tables in agreement.
LEMMA GraphStep ==
  ASSUME StoreTypeOK, GraphConsistent,
         \/ UNCHANGED <<db, edges, entities, prov>>
         \/ \E d \in Document : Update(d)
         \/ \E r \in Records : AppendGraph(r)
  PROVE  GraphConsistent'
<1>d. \A e \in edges : Cited(e) /\ Seen(e) /\ Explained(e)
  BY DEF GraphConsistent, Cited, Seen, Explained
<1>p. GraphConsistent' <=> \A e \in edges' : Cited(e)' /\ Seen(e)' /\ Explained(e)'
  BY DEF GraphConsistent, Cited, Seen, Explained
<1> SUFFICES ASSUME NEW e \in edges' PROVE Cited(e)' /\ Seen(e)' /\ Explained(e)'
  BY <1>p
<1>1. CASE UNCHANGED <<db, edges, entities, prov>>
  BY <1>1, <1>d DEF Cited, Seen, Explained
<1>2. ASSUME NEW d \in Document, Update(d)
      PROVE  Cited(e)' /\ Seen(e)' /\ Explained(e)'
  <2>1. PICK g \in edges : e = NoEvidence(g)
    BY <1>2 DEF Update
  <2>2. e.link = g.link /\ e.from = g.from
    BY <2>1, EdgeFields
  <2>3. e.ev = Null
    BY <2>1 DEF NoEvidence, StoreTypeOK, EdgeRows
  <2>4. Seen(g) /\ Explained(g)
    BY <1>d
  <2>5. entities' = entities /\ prov' = prov
    BY <1>2 DEF Update
  <2> QED BY <2>2, <2>3, <2>4, <2>5 DEF Cited, Seen, Explained
<1>3. ASSUME NEW r \in Records, AppendGraph(r)
      PROVE  Cited(e)' /\ Seen(e)' /\ Explained(e)'
  <2>1. PICK g \in Inserted(r) : e.link = g.link /\ e.from = g.from /\ e.ev = g.ev
    BY <1>3, EdgeOrigin
  <2>2. CASE g \in edges
    BY <1>3, <2>1, <2>2, <1>d, KeptConsistent, SameEdge
  <2>3. CASE g \notin edges
    <3>1. PICK l \in Links(r) : g = Edge(l, r)
      BY <2>3 DEF Inserted
    <3> QED BY <1>3, <2>1, <2>3, <3>1, InsertedConsistent, SameEdge
  <2> QED BY <2>2, <2>3
<1> QED BY <1>1, <1>2, <1>3

\* Evidence names a stored message, no end of an edge was last seen before the edge
\* began, and the provenance still names the record that caused an edge.
THEOREM GraphAgrees == Spec => []GraphConsistent
<1>1. Init => GraphConsistent
  BY DEF Init, StoreInit, GraphConsistent
<1>2. TypeOK /\ GraphConsistent /\ [Next]_vars => GraphConsistent'
  BY StoreStep, GraphStep DEF TypeOK, StoreOpened, StoreLost, storeVars
<1> QED BY <1>1, <1>2, TypeCorrect, PTL DEF Spec

-----------------------------------------------------------------------------
(* The reject counters                                                       *)

\* The equations of RejectsBalance, of a document.
Balanced(d) ==
    /\ d.rejected = d.mirrored + d.mirrorFailed
    /\ d.rejected = d.byReason["unknown_topic"] + d.byReason["invalid_envelope"]
                    + d.byReason["store_update_failed"] + d.byReason["graph_write_failed"]

\* A record mirrored but not yet counted.
MirrorPending == pc = "reject" /\ mirrored

\* RejectsBalance is not inductive: the mirrored record must still be uncounted when
\* Reject counts it, and what Reject counts is the document in memory.
RejectInv ==
    /\ DocumentOnDisk
    /\ Balanced(db)
    /\ db.mirrored <= produced
    /\ MirrorPending => db.mirrored + 1 <= produced

LEMMA CountersTyped ==
  ASSUME NEW d \in Document
  PROVE  /\ d.rejected \in Nat /\ d.mirrored \in Nat /\ d.mirrorFailed \in Nat
         /\ d.byReason \in [Reasons -> Nat]
         /\ \A x \in Reasons : d.byReason[x] \in Nat
  BY DEF Document

\* What the Update after a reject does to the counters.
LEMMA CountBalanced ==
  ASSUME NEW d \in Document, NEW x \in Reasons, NEW b \in BOOLEAN, Balanced(d)
  PROVE  /\ Balanced(CountReject(d, x, b))
         /\ CountReject(d, x, b).mirrored = IF b THEN d.mirrored + 1 ELSE d.mirrored
<1> DEFINE c == CountReject(d, x, b)
<1>1. /\ c.rejected = d.rejected + 1
      /\ c.mirrored = IF b THEN d.mirrored + 1 ELSE d.mirrored
      /\ c.mirrorFailed = IF b THEN d.mirrorFailed ELSE d.mirrorFailed + 1
      /\ c.byReason = [d.byReason EXCEPT ![x] = d.byReason[x] + 1]
  BY DEF CountReject, Document
<1>2. c.rejected = c.mirrored + c.mirrorFailed
  BY <1>1, CountersTyped DEF Balanced
<1>3. \A y \in Reasons : c.byReason[y] = IF y = x THEN d.byReason[y] + 1 ELSE d.byReason[y]
  BY <1>1, CountersTyped
<1>4. c.rejected = c.byReason["unknown_topic"] + c.byReason["invalid_envelope"]
                   + c.byReason["store_update_failed"] + c.byReason["graph_write_failed"]
  <2>1. d.rejected = d.byReason["unknown_topic"] + d.byReason["invalid_envelope"]
                     + d.byReason["store_update_failed"] + d.byReason["graph_write_failed"]
    BY DEF Balanced
  <2>2. /\ d.byReason["unknown_topic"] \in Nat /\ d.byReason["invalid_envelope"] \in Nat
        /\ d.byReason["store_update_failed"] \in Nat /\ d.byReason["graph_write_failed"] \in Nat
    BY CountersTyped DEF Reasons
  <2>3. /\ c.byReason["unknown_topic"] = IF x = "unknown_topic" THEN d.byReason["unknown_topic"] + 1
                                         ELSE d.byReason["unknown_topic"]
        /\ c.byReason["invalid_envelope"] = IF x = "invalid_envelope"
                                            THEN d.byReason["invalid_envelope"] + 1
                                            ELSE d.byReason["invalid_envelope"]
        /\ c.byReason["store_update_failed"] = IF x = "store_update_failed"
                                               THEN d.byReason["store_update_failed"] + 1
                                               ELSE d.byReason["store_update_failed"]
        /\ c.byReason["graph_write_failed"] = IF x = "graph_write_failed"
                                              THEN d.byReason["graph_write_failed"] + 1
                                              ELSE d.byReason["graph_write_failed"]
    BY <1>3 DEF Reasons
  <2>4. x \in {"unknown_topic", "invalid_envelope", "store_update_failed", "graph_write_failed"}
    BY DEF Reasons
  <2> DEFINE i == d.byReason["unknown_topic"]
             j == d.byReason["invalid_envelope"]
             k == d.byReason["store_update_failed"]
             l == d.byReason["graph_write_failed"]
  <2>5. c.rejected = (i + j + k + l) + 1
    BY ONLY <1>1, <2>1
  <2>6. i \in Nat /\ j \in Nat /\ k \in Nat /\ l \in Nat
    BY ONLY <2>2
  <2> HIDE DEF c, i, j, k, l
  <2>7. /\ (i + j + k + l) + 1 = (i + 1) + j + k + l /\ (i + j + k + l) + 1 = i + (j + 1) + k + l
        /\ (i + j + k + l) + 1 = i + j + (k + 1) + l /\ (i + j + k + l) + 1 = i + j + k + (l + 1)
    BY ONLY <2>6
  <2>8. CASE x = "unknown_topic"
    <3>1. /\ c.byReason["unknown_topic"] = i + 1 /\ c.byReason["invalid_envelope"] = j
          /\ c.byReason["store_update_failed"] = k /\ c.byReason["graph_write_failed"] = l
      BY ONLY <2>3, <2>8 DEF i, j, k, l
    <3> QED BY ONLY Zenon, <2>5, <2>7, <3>1
  <2>9. CASE x = "invalid_envelope"
    <3>1. /\ c.byReason["unknown_topic"] = i /\ c.byReason["invalid_envelope"] = j + 1
          /\ c.byReason["store_update_failed"] = k /\ c.byReason["graph_write_failed"] = l
      BY ONLY <2>3, <2>9 DEF i, j, k, l
    <3> QED BY ONLY Zenon, <2>5, <2>7, <3>1
  <2>10. CASE x = "store_update_failed"
    <3>1. /\ c.byReason["unknown_topic"] = i /\ c.byReason["invalid_envelope"] = j
          /\ c.byReason["store_update_failed"] = k + 1 /\ c.byReason["graph_write_failed"] = l
      BY ONLY <2>3, <2>10 DEF i, j, k, l
    <3> QED BY ONLY Zenon, <2>5, <2>7, <3>1
  <2>11. CASE x = "graph_write_failed"
    <3>1. /\ c.byReason["unknown_topic"] = i /\ c.byReason["invalid_envelope"] = j
          /\ c.byReason["store_update_failed"] = k /\ c.byReason["graph_write_failed"] = l + 1
      BY ONLY <2>3, <2>11 DEF i, j, k, l
    <3> QED BY ONLY Zenon, <2>5, <2>7, <3>1
  <2> QED BY ONLY <2>4, <2>8, <2>9, <2>10, <2>11
<1> QED BY <1>1, <1>2, <1>4 DEF Balanced

\* acceptMessage leaves the reject counters alone.
LEMMA AcceptBalanced ==
  ASSUME NEW d \in Document, NEW r \in Records, NEW e \in AcceptMessage(d, r), Balanced(d)
  PROVE  Balanced(e) /\ e.mirrored = d.mirrored
<1>1. /\ e.rejected = d.rejected /\ e.mirrored = d.mirrored /\ e.mirrorFailed = d.mirrorFailed
      /\ e.byReason = d.byReason
  BY DEF AcceptMessage, Document
<1> QED BY <1>1 DEF Balanced

LEMMA RejectStep == TypeOK /\ RejectInv /\ [Next]_vars => RejectInv'
<1> SUFFICES ASSUME TypeOK, RejectInv, [Next]_vars PROVE RejectInv'
  OBVIOUS
<1>t. db \in Document /\ doc \in Document /\ produced \in Nat /\ db.mirrored \in Nat
  BY CountersTyped DEF TypeOK, StoreTypeOK
<1>m. DocumentOnDisk'
  BY StoreStep DEF RejectInv, DocumentOnDisk, StoreOpened, Update, AppendGraph, storeVars
<1>1. CASE /\ db'.mirrored = db.mirrored /\ Balanced(db')
           /\ produced' = produced /\ ~MirrorPending'
  BY <1>1, <1>m DEF RejectInv
<1>2. CASE Start \/ CheckRequests \/ Crash
  BY <1>1, <1>2 DEF Start, CheckRequests, Crash, StoreOpened, StoreLost, RejectInv, MirrorPending
<1>3. CASE Configure \/ PollEmpty \/ PollFatal
  <2>1. doc = db
    BY <1>3 DEF Configure, PollEmpty, PollFatal, RejectInv, DocumentOnDisk
  <2> QED BY <1>1, <1>3, <2>1 DEF Configure, PollEmpty, PollFatal, TryUpdate, Update, UpdateFails,
                                 storeVars, RejectInv, MirrorPending
<1>4. CASE UpdateDocument
  <2>1. doc = db /\ rec \in Records /\ produced' = produced /\ pc' # "reject"
    BY <1>4 DEF UpdateDocument, RejectInv, DocumentOnDisk, TypeOK
  <2>2. \/ \E d \in AcceptMessage(doc, rec) : db' = d
        \/ db' = db
    BY <1>4 DEF UpdateDocument, Update, UpdateFails, storeVars
  <2>3. Balanced(db') /\ db'.mirrored = db.mirrored
    BY <1>t, <2>1, <2>2, AcceptBalanced DEF RejectInv
  <2> QED BY <1>1, <2>1, <2>3 DEF MirrorPending
<1>5. CASE UpdateGraph
  BY <1>1, <1>5 DEF UpdateGraph, AppendGraph, GraphFails, storeVars, RejectInv, MirrorPending
<1>6. CASE Mirror
  <2>1. db' = db /\ (produced' = produced + 1 \/ (produced' = produced /\ mirrored' = FALSE))
    BY <1>6 DEF Mirror, storeVars
  <2>2. db.mirrored <= produced /\ Balanced(db)
    BY DEF RejectInv
  <2>3. db'.mirrored <= produced' /\ (MirrorPending' => db'.mirrored + 1 <= produced')
    BY <1>t, <2>1, <2>2 DEF MirrorPending
  <2> QED BY <1>m, <2>1, <2>2, <2>3 DEF RejectInv
<1>7. CASE Reject
  <2>1. /\ doc = db /\ reason \in Reasons /\ mirrored \in BOOLEAN
        /\ produced' = produced /\ pc = "reject" /\ pc' = "pick"
    BY <1>7 DEF Reject, RejectInv, DocumentOnDisk, TypeOK
  <2>2. db' = CountReject(db, reason, mirrored) \/ db' = db
    BY <1>7, <2>1 DEF Reject, TryUpdate, Update, UpdateFails, storeVars
  <2>3. CASE db' = db
    BY <1>1, <2>1, <2>3 DEF RejectInv, MirrorPending
  <2>4. CASE db' = CountReject(db, reason, mirrored)
    <3>1. Balanced(db') /\ db'.mirrored = IF mirrored THEN db.mirrored + 1 ELSE db.mirrored
      BY <1>t, <2>1, <2>4, CountBalanced DEF RejectInv
    <3>2. db.mirrored <= produced /\ (mirrored => db.mirrored + 1 <= produced)
      BY <2>1 DEF RejectInv, MirrorPending
    <3>3. db'.mirrored <= produced'
      BY <1>t, <2>1, <3>1, <3>2
    <3> QED BY <1>m, <2>1, <3>1, <3>3 DEF RejectInv, MirrorPending
  <2> QED BY <2>2, <2>3, <2>4
<1>8. CASE PollRecords \/ Commit \/ CommitFails \/ (\E p \in Partitions : Pick(p))
  BY <1>1, <1>8 DEF PollRecords, Commit, CommitFails, BatchDone, Pick, storeVars, RejectInv,
                    MirrorPending
<1>9. CASE UNCHANGED vars
  BY <1>9, <1>m DEF vars, loopVars, storeVars, RejectInv, MirrorPending
<1> QED BY <1>2, <1>3, <1>4, <1>5, <1>6, <1>7, <1>8, <1>9 DEF Next, Loop, Stopped

\* Every reject is counted once, under one reason, as mirrored or as not, and no more
\* are counted as mirrored than the reject topic holds.
THEOREM CountersBalance == Spec => []RejectsBalance
<1>1. Init => RejectInv
  <2>1. /\ EmptyDocument.rejected = 0 /\ EmptyDocument.mirrored = 0
        /\ EmptyDocument.mirrorFailed = 0
        /\ \A x \in Reasons : EmptyDocument.byReason[x] = 0
    BY DEF EmptyDocument
  <2>2. Balanced(EmptyDocument)
    BY <2>1 DEF Balanced, Reasons
  <2>3. ASSUME Init PROVE /\ pc = "down" /\ ~MirrorPending
                          /\ db = EmptyDocument /\ produced = 0
    BY <2>3 DEF Init, StoreInit, MirrorPending
  <2>4. ASSUME Init PROVE db.mirrored <= produced
    BY <2>1, <2>3, <2>4
  <2> QED BY <2>2, <2>3, <2>4 DEF RejectInv, DocumentOnDisk
<1>2. RejectInv => RejectsBalance
  BY DEF RejectInv, Balanced, RejectsBalance
<1> QED BY <1>1, <1>2, RejectStep, TypeCorrect, PTL DEF Spec

-----------------------------------------------------------------------------
(* Retained messages                                                         *)

LEMMA LimitTyped == ASSUME TypeOK PROVE limit \in Nat \ {0}
  BY LimitsTyped DEF TypeOK, StoreTypeOK

LEMMA MessagesFinite ==
  ASSUME NEW S \in SUBSET Records
  PROVE  IsFiniteSet(S) /\ Cardinality(S) \in Nat /\ Cardinality(S) <= Cardinality(Records)
  BY RecordsFinite, FS_Subset, FS_CardinalityType

LEMMA OneMore ==
  ASSUME NEW S \in SUBSET Records, NEW r \in Records
  PROVE  Cardinality(S \cup {r}) = IF r \in S THEN Cardinality(S) ELSE Cardinality(S) + 1
  BY MessagesFinite, FS_AddElement

\* What acceptMessage keeps of the messages.
LEMMA AcceptKeeps ==
  ASSUME NEW d \in Document, NEW r \in Records, NEW e \in AcceptMessage(d, r), r \notin d.messages
  PROVE  /\ e.messages \in Retained(d.messages \cup {r}) /\ e.accepted = d.accepted + 1
         /\ e.rollup = [k \in RollupIds |-> IF k \in Rollups(r) THEN d.rollup[k] + 1
                                            ELSE d.rollup[k]]
<1>1. PICK kept \in Retained(d.messages \cup {r}) :
        e = [d EXCEPT !.messages = kept,
                      !.rollup = [k \in RollupIds |-> IF k \in Rollups(r) THEN @[k] + 1 ELSE @[k]],
                      !.task = TaskAfter(d, r),
                      !.accepted = @ + 1]
  BY DEF AcceptMessage, MessageExists
<1> DEFINE rollup == [k \in RollupIds |-> IF k \in Rollups(r) THEN d.rollup[k] + 1 ELSE d.rollup[k]]
           task == TaskAfter(d, r)
<1> HIDE DEF rollup, task
<1>2. e = [d EXCEPT !.messages = kept, !.rollup = rollup, !.task = task, !.accepted = d.accepted + 1]
  BY <1>1 DEF rollup, task
<1>3. e.messages = kept /\ e.rollup = rollup /\ e.accepted = d.accepted + 1
  BY <1>2 DEF Document
<1> QED BY <1>3 DEF rollup

\* A step leaves messages, counts and rollups alone, or accepts the record in hand.
LEMMA MessagesStep ==
  ASSUME TypeOK, DocumentOnDisk, [Next]_vars
  PROVE  /\ limit' = limit
         /\ \/ /\ db'.messages = db.messages /\ db'.accepted = db.accepted
               /\ db'.rollup = db.rollup
            \/ rec \in Records /\ db' \in AcceptMessage(db, rec)
<1>t. db \in Document /\ doc \in Document
  BY DEF TypeOK, StoreTypeOK
<1>1. limit' = limit
  BY StoreStep DEF StoreOpened, StoreLost, Update, AppendGraph, storeVars
<1>2. CASE db' = db
  BY <1>1, <1>2
<1>3. CASE Configure \/ PollEmpty \/ PollFatal
  BY <1>1, <1>3 DEF Configure, PollEmpty, PollFatal, TryUpdate, Update, UpdateFails, storeVars,
                    DocumentOnDisk
<1>4. CASE UpdateDocument
  <2>1. doc = db /\ rec \in Records
    BY <1>4 DEF UpdateDocument, DocumentOnDisk, TypeOK
  <2> QED BY <1>1, <1>4, <2>1 DEF UpdateDocument, Update, UpdateFails, storeVars
<1>5. CASE Reject
  <2>1. doc = db
    BY <1>5 DEF Reject, DocumentOnDisk
  <2>2. db' = CountReject(db, reason, mirrored) \/ db' = db
    BY <1>5, <2>1 DEF Reject, TryUpdate, Update, UpdateFails, storeVars
  <2>3. /\ CountReject(db, reason, mirrored).messages = db.messages
        /\ CountReject(db, reason, mirrored).accepted = db.accepted
        /\ CountReject(db, reason, mirrored).rollup = db.rollup
    BY <1>t DEF CountReject, Document
  <2> QED BY <1>1, <2>2, <2>3
<1>6. CASE ~(Configure \/ PollEmpty \/ PollFatal \/ UpdateDocument \/ Reject)
  <2>1. db' = db
    BY <1>6 DEF Next, Loop, Stopped, vars, storeVars, Start, CheckRequests, PollRecords, Pick,
                UpdateGraph, Mirror, Commit, CommitFails, Crash, StoreOpened, StoreLost,
                AppendGraph, GraphFails
  <2> QED BY <1>1, <2>1
<1> QED BY <1>3, <1>4, <1>5, <1>6

-----------------------------------------------------------------------------
(* Counts                                                                    *)

Counted(d) ==
    /\ d.accepted = Cardinality(d.messages)
    /\ \A k \in RollupIds : d.rollup[k] = Cardinality({r \in d.messages : k \in Rollups(r)})

LEMMA AcceptCounts ==
  ASSUME TypeOK, Cardinality(Records) <= limit, Counted(db),
         NEW r \in Records, NEW e \in AcceptMessage(db, r)
  PROVE  Counted(e)
<1>t. db \in Document /\ db.messages \in SUBSET Records /\ db.rollup \in [RollupIds -> Nat]
  BY DEF TypeOK, StoreTypeOK, Document
<1>1. CASE r \in db.messages
  BY <1>1 DEF AcceptMessage, MessageExists
<1>2. CASE r \notin db.messages
  <2> DEFINE S == db.messages \cup {r}
  <2>1. /\ e.messages \in Retained(S) /\ e.accepted = db.accepted + 1
        /\ e.rollup = [k \in RollupIds |-> IF k \in Rollups(r) THEN db.rollup[k] + 1
                                           ELSE db.rollup[k]]
    BY ZenonT(60), <1>t, <1>2, AcceptKeeps
  <2>2. S \in SUBSET Records
    BY <1>t
  <2>3. Cardinality(S) <= limit
    BY <2>2, MessagesFinite, LimitTyped, RecordsFinite, FS_CardinalityType
  <2>4. e.messages = S
    BY <2>1, <2>3 DEF Retained
  <2>5. e.accepted = Cardinality(e.messages)
    BY <1>t, <1>2, <2>1, <2>4, OneMore DEF Counted
  <2>6. ASSUME NEW k \in RollupIds PROVE e.rollup[k] = Cardinality({m \in e.messages : k \in Rollups(m)})
    <3> DEFINE old == {m \in db.messages : k \in Rollups(m)}
               new == {m \in e.messages : k \in Rollups(m)}
    <3>1. old \in SUBSET Records /\ r \notin old
      BY <1>t, <1>2
    <3>2. new = IF k \in Rollups(r) THEN old \cup {r} ELSE old
      BY <2>4
    <3>3. db.rollup[k] = Cardinality(old)
      BY DEF Counted
    <3> HIDE DEF old, new
    <3>4. Cardinality(new) = IF k \in Rollups(r) THEN Cardinality(old) + 1 ELSE Cardinality(old)
      BY <3>1, <3>2, OneMore
    <3> QED BY <2>1, <3>3, <3>4 DEF new
  <2> QED BY <2>5, <2>6 DEF Counted
<1> QED BY <1>1, <1>2

\* Below the cap a record is counted once, however often the broker delivers it again: the
\* duplicate is recognised in the document that was read back from the tables.
THEOREM RedeliveryCountsOnce == Spec => []CountedOnce
<1> DEFINE CountInv == Cardinality(Records) <= limit => Counted(db)
<1>1. Init => CountInv
  <2>1. EmptyDocument.messages = {} /\ EmptyDocument.accepted = 0
    BY DEF EmptyDocument
  <2>2. \A k \in RollupIds : EmptyDocument.rollup[k] = 0
    BY DEF EmptyDocument
  <2>3. \A k \in RollupIds : {r \in {} : k \in Rollups(r)} = {}
    OBVIOUS
  <2>4. Counted(EmptyDocument)
    BY <2>1, <2>2, <2>3, FS_EmptySet DEF Counted
  <2> QED BY <2>4 DEF Init, StoreInit
<1>2. TypeOK /\ DocumentOnDisk /\ CountInv /\ [Next]_vars => CountInv'
  <2> SUFFICES ASSUME TypeOK, DocumentOnDisk, CountInv, [Next]_vars, Cardinality(Records) <= limit'
               PROVE  Counted(db')
    BY DEF Counted
  <2>1. limit' = limit /\ Counted(db)
    BY MessagesStep
  <2>2. CASE db'.messages = db.messages /\ db'.accepted = db.accepted /\ db'.rollup = db.rollup
    BY <2>1, <2>2 DEF Counted
  <2>3. CASE rec \in Records /\ db' \in AcceptMessage(db, rec)
    BY <2>1, <2>3, AcceptCounts
  <2> QED BY <2>2, <2>3, MessagesStep
<1>3. CountInv => CountedOnce
  BY DEF Counted, CountedOnce
<1> HIDE DEF CountInv
<1> QED BY <1>1, <1>2, <1>3, TypeCorrect, MemoryIsDisk, PTL DEF Spec

-----------------------------------------------------------------------------
(* The window                                                                *)

\* A record that is accepted but no longer stored was not newer than any that is, and the
\* messages fill the window.
Outside(r) == /\ Cardinality(db.messages) = limit
              /\ \A m \in db.messages : Time(m) >= Time(r)
WindowInv == /\ Cardinality(db.messages) <= limit
             /\ \A r \in Records : "accepted" \in outcome[r] /\ r \notin db.messages => Outside(r)

LEMMA TimeTyped == ASSUME NEW r \in Records PROVE Time(r) \in Nat
  BY MetaTyped DEF Time, MetaOf

\* A new message pushes out one that is not newer than any that stays.
LEMMA WindowSlides ==
  ASSUME TypeOK, WindowInv, NEW s \in Records, s \notin db.messages,
         NEW T \in Retained(db.messages \cup {s})
  PROVE  /\ Cardinality(T) <= limit
         /\ \A r \in Records : (r \in db.messages \cup {s} \/ Outside(r)) /\ r \notin T =>
               Cardinality(T) = limit /\ \A m \in T : Time(m) >= Time(r)
<1> DEFINE S == db.messages \cup {s}
<1>t. db.messages \in SUBSET Records /\ S \in SUBSET Records /\ limit \in Nat
  BY LimitTyped DEF TypeOK, StoreTypeOK, Document
<1>1. Cardinality(S) = Cardinality(db.messages) + 1 /\ Cardinality(db.messages) \in Nat
  BY <1>t, OneMore, MessagesFinite
<1>2. CASE Cardinality(S) <= limit
  <2>1. T = S
    BY <1>2 DEF Retained
  <2>2. \A r \in Records : ~Outside(r)
    BY <1>t, <1>1, <1>2 DEF Outside
  <2> QED BY <1>2, <2>1, <2>2
<1>3. CASE ~(Cardinality(S) <= limit)
  <2>1. /\ T \subseteq S /\ Cardinality(T) = limit
        /\ \A k \in T, x \in S \ T : Time(k) >= Time(x)
    BY <1>3 DEF Retained
  <2>2. ASSUME NEW r \in Records, r \notin T, r \in S \/ Outside(r), NEW m \in T
        PROVE  Time(m) >= Time(r)
    <3>1. CASE r \in S
      BY <2>1, <2>2, <3>1
    <3>2. CASE r \notin S /\ m \in db.messages
      BY <2>2, <3>2 DEF Outside
    <3>3. CASE r \notin S /\ m = s
      <4>1. PICK x \in S : x \notin T
        BY <1>t, <1>3, <2>1
      <4>2. x \in db.messages /\ Time(m) >= Time(x)
        BY <2>1, <2>2, <3>3, <4>1
      <4>3. Time(x) >= Time(r)
        BY <2>2, <3>3, <4>2 DEF Outside
      <4>4. Time(x) \in Nat /\ Time(m) \in Nat /\ Time(r) \in Nat
        BY <1>t, <2>1, <4>1, TimeTyped
      <4> QED BY <4>2, <4>3, <4>4
    <3> QED BY <2>1, <3>1, <3>2, <3>3
  <2> QED BY <1>t, <2>1, <2>2
<1> QED BY <1>2, <1>3

\* Whatever order the broker delivers in and however often, the messages kept are the newest
\* of those accepted, and none is evicted before the cap is reached.
THEOREM NewestStay == Spec => []WindowIsNewest
<1>1. Init => WindowInv
  <2>1. EmptyDocument.messages = {} /\ Cardinality({}) = 0
    BY FS_EmptySet DEF EmptyDocument
  <2>2. ASSUME Init PROVE db = EmptyDocument /\ limit \in Nat /\ \A r \in Records : outcome[r] = {}
    BY <2>2, LimitsTyped DEF Init, StoreInit
  <2>3. ASSUME Init PROVE Cardinality(db.messages) = 0 /\ limit \in Nat
    BY <2>1, <2>2, <2>3
  <2> QED BY <2>2, <2>3 DEF WindowInv
<1>2. TypeOK /\ DocumentOnDisk /\ WindowInv /\ [Next]_vars => WindowInv'
  <2> SUFFICES ASSUME TypeOK, DocumentOnDisk, WindowInv, [Next]_vars PROVE WindowInv'
    OBVIOUS
  <2>t. db \in Document /\ limit' = limit
    BY MessagesStep DEF TypeOK, StoreTypeOK
  <2>1. ASSUME NEW r \in Records, "accepted" \in outcome'[r], "accepted" \notin outcome[r]
        PROVE  r \in db.messages /\ db' = db
    BY <2>1, AcceptedByGraph DEF AppendGraph, GraphFits
  <2>2. CASE db'.messages = db.messages
    <3>1. ASSUME NEW r \in Records, "accepted" \in outcome'[r], r \notin db'.messages
          PROVE  Outside(r)
      BY <2>1, <2>2, <3>1 DEF WindowInv
    <3> QED BY <2>t, <2>2, <3>1 DEF WindowInv, Outside
  <2>3. CASE rec \in Records /\ db' \in AcceptMessage(db, rec) /\ db'.messages # db.messages
    <3>1. rec \notin db.messages
      BY <2>3 DEF AcceptMessage, MessageExists
    <3>2. db'.messages \in Retained(db.messages \cup {rec})
      BY <2>t, <2>3, <3>1, AcceptKeeps
    <3>3. ASSUME NEW r \in Records, "accepted" \in outcome'[r], r \notin db'.messages
          PROVE  r \in db.messages \cup {rec} \/ Outside(r)
      BY <2>1, <2>3, <3>3 DEF WindowInv
    <3> QED BY <2>t, <2>3, <3>1, <3>2, <3>3, WindowSlides DEF WindowInv, Outside
  <2> QED BY <2>2, <2>3, MessagesStep
<1>3. WindowInv /\ TypeOK => WindowIsNewest
  BY DEF WindowInv, Outside, WindowIsNewest
<1> QED BY <1>1, <1>2, <1>3, TypeCorrect, MemoryIsDisk, PTL DEF Spec
=============================================================================
