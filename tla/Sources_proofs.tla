---------------------------- MODULE Sources_proofs ----------------------------
(***************************************************************************)
(* What the connector to Kafka, the fetches of feeds, the noise gate and the  *)
(* sorting out of duplicates promise, for every set of partitions, log, batch *)
(* bound, site, document and policy.                                         *)
(***************************************************************************)
EXTENDS KafkaConnector, FeedFetch, AlertFilter, FiniteSetTheorems, TLAPS

-----------------------------------------------------------------------------
\* Sets of naturals: the connector takes the greatest offset of a batch.
LEMMA LeastOf ==
  ASSUME NEW T \in SUBSET Nat, T # {}
  PROVE  \E x \in T : \A y \in T : x <= y
<1> DEFINE R == OpToRel(<, Nat)
<1>1. IsWellFoundedOn(R, Nat)
  BY NatLessThanWellFounded
<1>2. \A x, y \in Nat : x < y => <<x, y>> \in R
  BY DEF OpToRel
<1> HIDE DEF R
<1>3. PICK x \in T : \A y \in T : ~(<<y, x>> \in R)
  BY <1>1, WFMin
<1>4. x \in Nat /\ \A y \in T : y \in Nat /\ ~(y < x)
  BY <1>2, <1>3
<1>5. \A y \in T : x <= y
  BY <1>4
<1> QED BY <1>5

\* A set of naturals with a bound has a greatest element.
LEMMA MaxOf ==
  ASSUME NEW T \in SUBSET Nat, T # {}, NEW b \in Nat, \A y \in T : y <= b
  PROVE  Max(T) \in T /\ \A y \in T : y <= Max(T)
<1> DEFINE B == {m \in Nat : \A y \in T : y <= m}
<1>1. PICK m \in B : \A k \in B : m <= k
  BY LeastOf
<1>2. m \in T
  <2> SUFFICES ASSUME m \notin T PROVE FALSE
    OBVIOUS
  <2>1. \A y \in T : y \in Nat /\ y < m
    BY <1>1
  <2>2. m - 1 \in B
    <3>1. PICK y \in T : y \in Nat /\ y < m
      BY <2>1
    <3>2. m \in Nat /\ m - 1 \in Nat
      BY <1>1, <3>1
    <3> QED BY <2>1, <3>2
  <2> QED BY <1>1, <2>2
<1>3. \E x \in T : \A y \in T : x >= y
  BY <1>1, <1>2
<1> QED BY <1>3 DEF Max

\* Induction: what holds of 0 and of the successor of all it holds of.
LEMMA SetInduction ==
  ASSUME NEW S, 0 \in S, \A n \in Nat : n \in S => n + 1 \in S
  PROVE  Nat \subseteq S
<1> SUFFICES ASSUME Nat \ S # {} PROVE FALSE
  OBVIOUS
<1>1. PICK x \in Nat \ S : \A y \in Nat \ S : x <= y
  BY LeastOf
<1>2. x # 0 /\ x - 1 \in Nat /\ x - 1 \in S
  BY <1>1
<1> QED BY <1>1, <1>2

-----------------------------------------------------------------------------
\* Every record of a stretch of the log that maps has been in a batch or in a test poll.
Covered(p, a, b) == \A i \in a + 1 .. b : SourceOf(<<p, i>>) # Dropped => <<p, i>> \in taken \cup tested

OffsetsTyped ==
    /\ produced \in [Partitions -> Nat] /\ position \in [Partitions -> Nat]
    /\ committed \in [Partitions -> Nat \cup {NoOffset}] /\ origin \in [Partitions -> Nat \cup {NoOffset}]
    /\ batch \subseteq Partitions \X Nat

\* NothingSkipped is not inductive: where the client stands is covered from the offset of the group
\* on, and so is a batch up to each of its records.
CoverInv ==
    /\ OffsetsTyped /\ batch \subseteq taken
    /\ \A p \in Partitions : committed[p] = NoOffset <=> origin[p] = NoOffset
    /\ \A p \in Partitions : committed[p] # NoOffset => Covered(p, origin[p], committed[p])
    /\ stage \in {"test", "poll", "commit"} =>
          \A p \in Partitions : committed[p] # NoOffset => Covered(p, committed[p], position[p])
    /\ stage = "commit" => \A r \in batch : r[2] <= produced[r[1]] /\ Covered(r[1], position[r[1]], r[2])

LEMMA InitCovered == KafkaInit => CoverInv
  BY DEF KafkaInit, CoverInv, OffsetsTyped, NoOffset

\* Two stretches that meet.
LEMMA CoveredMore ==
  ASSUME NEW p, NEW a \in Nat, NEW b \in Nat, NEW c \in Nat, Covered(p, a, b), Covered(p, b, c)
  PROVE  Covered(p, a, c)
<1> SUFFICES ASSUME NEW i \in a + 1 .. c, SourceOf(<<p, i>>) # Dropped PROVE <<p, i>> \in taken \cup tested
  BY DEF Covered
<1>1. i \in a + 1 .. b \/ i \in b + 1 .. c
  OBVIOUS
<1> QED BY <1>1 DEF Covered

LEMMA CoveredStays ==
  ASSUME taken \subseteq taken', tested \subseteq tested', NEW p, NEW a, NEW b, Covered(p, a, b)
  PROVE  Covered(p, a, b)'
  BY DEF Covered, SourceOf

\* What a poll gives of a partition.
LEMMA FetchedOf ==
  ASSUME OffsetsTyped, NEW n \in Batches
  PROVE  /\ Fetched(n) \subseteq Partitions \X Nat
         /\ \A p \in Partitions, i \in Nat : <<p, i>> \in Fetched(n) <=> i \in position[p] + 1 .. position[p] + n[p]
         /\ \A p \in Partitions : n[p] \in Nat /\ position[p] \in Nat /\ position[p] + n[p] <= produced[p]
<1>1. \A p \in Partitions : n[p] \in Nat /\ position[p] \in Nat /\ position[p] + n[p] <= produced[p]
  BY ConnectorTyped DEF Batches, OffsetsTyped
<1>2. \A r \in Fetched(n) : \E p \in Partitions : \E j \in 1 .. n[p] : r = <<p, position[p] + j>>
  BY DEF Fetched
<1>3. Fetched(n) \subseteq Partitions \X Nat
  <2> SUFFICES ASSUME NEW r \in Fetched(n) PROVE r \in Partitions \X Nat
    OBVIOUS
  <2>1. PICK p \in Partitions : \E j \in 1 .. n[p] : r = <<p, position[p] + j>>
    BY <1>2
  <2>2. PICK j \in 1 .. n[p] : r = <<p, position[p] + j>>
    BY <2>1
  <2>3. position[p] + j \in Nat
    BY <1>1
  <2> QED BY <2>2, <2>3
<1>4. ASSUME NEW p \in Partitions, NEW i \in Nat
      PROVE  <<p, i>> \in Fetched(n) <=> i \in position[p] + 1 .. position[p] + n[p]
  <2>1. ASSUME <<p, i>> \in Fetched(n) PROVE i \in position[p] + 1 .. position[p] + n[p]
    <3>1. PICK q \in Partitions : \E j \in 1 .. n[q] : <<p, i>> = <<q, position[q] + j>>
      BY <1>2, <2>1
    <3>2. q = p /\ \E j \in 1 .. n[p] : i = position[p] + j
      BY <3>1
    <3> QED BY <1>1, <3>2
  <2>2. ASSUME i \in position[p] + 1 .. position[p] + n[p] PROVE <<p, i>> \in Fetched(n)
    <3> DEFINE j == i - position[p]
    <3>1. j \in 1 .. n[p] /\ i = position[p] + j
      BY <1>1, <2>2
    <3> HIDE DEF j
    <3>2. <<p, i>> \in {<<p, position[p] + k>> : k \in 1 .. n[p]}
      BY <3>1
    <3> QED BY <3>2 DEF Fetched
  <2> QED BY <2>1, <2>2
<1> QED BY <1>1, <1>3, <1>4

\* A batch holds, with a record, all that map of the same partition before it.
LEMMA MappedOf ==
  ASSUME OffsetsTyped, NEW n \in Batches, NEW order, NEW first \in Mapped(Fetched(n), order)
  PROVE  /\ first \subseteq Fetched(n)
         /\ \A r \in first : \A i \in position[r[1]] + 1 .. r[2] :
               SourceOf(<<r[1], i>>) # Dropped => <<r[1], i>> \in first
<1> DEFINE good == {r \in Fetched(n) : SourceOf(r) # Dropped}
<1>1. /\ first \subseteq good
      /\ \A r \in first, q \in good : Before(order, q, r) => q \in first
  BY DEF Mapped, kSubset
<1>2. ASSUME NEW r \in first, NEW i \in position[r[1]] + 1 .. r[2], SourceOf(<<r[1], i>>) # Dropped
      PROVE  <<r[1], i>> \in first
  <2>1. r \in Fetched(n) /\ r \in Partitions \X Nat
    BY <1>1, FetchedOf
  <2>2. PICK p \in Partitions, k \in Nat : r = <<p, k>>
    BY <2>1
  <2>3. k \in position[p] + 1 .. position[p] + n[p] /\ n[p] \in Nat /\ position[p] \in Nat
    BY <2>1, <2>2, FetchedOf
  <2>4. i \in Nat /\ i \in position[p] + 1 .. position[p] + n[p] /\ (i = k \/ i < k)
    BY <1>2, <2>2, <2>3
  <2>5. <<p, i>> \in good
    BY <1>2, <2>2, <2>4, FetchedOf
  <2>6. CASE i = k
    BY <2>2, <2>6
  <2>7. CASE i < k
    <3>1. Before(order, <<p, i>>, r)
      BY <2>2, <2>7 DEF Before
    <3> QED BY <1>1, <2>2, <2>5, <3>1
  <2> QED BY <2>4, <2>6, <2>7
<1> QED BY <1>1, <1>2

\* A step of the sweep, or of the producers, that leaves the offsets of the group alone.
LEMMA CoverKept ==
  ASSUME CoverInv, OffsetsTyped', committed' = committed, origin' = origin, batch' \subseteq taken',
         taken \subseteq taken', tested \subseteq tested',
         stage' \in {"test", "poll", "commit"} =>
            \A p \in Partitions : committed[p] # NoOffset => Covered(p, committed[p], position[p])',
         stage' = "commit" => \A r \in batch' : r[2] <= produced'[r[1]] /\ Covered(r[1], position[r[1]], r[2])'
  PROVE  CoverInv'
<1>1. ASSUME NEW p \in Partitions, committed[p] # NoOffset PROVE Covered(p, origin[p], committed[p])'
  <2>1. Covered(p, origin[p], committed[p])
    BY <1>1 DEF CoverInv
  <2> QED BY <2>1 DEF Covered, SourceOf
<1> QED BY <1>1 DEF CoverInv

LEMMA PollCovered ==
  ASSUME CoverInv, NEW n \in Batches, NEW order, NEW done, PollOf(n, order, done)
  PROVE  CoverInv'
<1>1. /\ stage = "poll" /\ taken' = taken \cup batch'
      /\ stage' = IF batch' = {} THEN "save" ELSE "commit"
      /\ UNCHANGED <<produced, committed, position, tested, origin>>
      /\ batch' = {} \/ batch' \in Mapped(Fetched(n), order)
  BY DEF PollOf
<1>2. OffsetsTyped
  BY DEF CoverInv
<1>3. CASE batch' = {}
  <2>1. OffsetsTyped'
    BY <1>1, <1>2, <1>3 DEF OffsetsTyped
  <2> QED BY <1>1, <1>3, <2>1, CoverKept
<1>4. CASE batch' \in Mapped(Fetched(n), order)
  <2>1. /\ batch' \subseteq Fetched(n)
        /\ \A r \in batch' : \A i \in position[r[1]] + 1 .. r[2] :
               SourceOf(<<r[1], i>>) # Dropped => <<r[1], i>> \in batch'
    BY <1>2, <1>4, MappedOf
  <2>2. batch' \subseteq Partitions \X Nat /\ OffsetsTyped'
    BY <1>1, <1>2, <2>1, FetchedOf DEF OffsetsTyped
  <2>3. ASSUME NEW r \in batch' PROVE r[2] <= produced'[r[1]] /\ Covered(r[1], position[r[1]], r[2])'
    <3>1. PICK p \in Partitions, k \in Nat : r = <<p, k>>
      BY <2>2, <2>3
    <3>2. k <= produced[p]
      <4>1. k \in position[p] + 1 .. position[p] + n[p]
        BY <1>2, <2>1, <2>3, <3>1, FetchedOf
      <4>2. n[p] \in Nat /\ position[p] \in Nat /\ position[p] + n[p] <= produced[p] /\ produced[p] \in Nat
        BY <1>2, FetchedOf DEF OffsetsTyped
      <4> QED BY <4>1, <4>2
    <3>3. \A i \in position[p] + 1 .. k : SourceOf(<<p, i>>) # Dropped => <<p, i>> \in batch'
      BY <2>1, <2>3, <3>1
    <3>4. Covered(p, position[p], k)'
      BY <1>1, <3>3 DEF Covered, SourceOf
    <3> QED BY <1>1, <3>1, <3>2, <3>4
  <2>4. ASSUME NEW p \in Partitions, committed[p] # NoOffset PROVE Covered(p, committed[p], position[p])'
    <3>1. Covered(p, committed[p], position[p])
      BY <1>1, <2>4 DEF CoverInv
    <3> QED BY <1>1, <3>1 DEF Covered, SourceOf
  <2> QED BY <1>1, <2>2, <2>3, <2>4, CoverKept
<1> QED BY <1>1, <1>3, <1>4

\* A commit passes what the batch has, and no more.
LEMMA OffsetsCovered ==
  ASSUME CoverInv, stage = "commit", NEW p \in Partitions
  PROVE  \/ Offsets[p] = committed[p]
         \/ Offsets[p] \in Nat /\ Covered(p, position[p], Offsets[p])
<1> DEFINE mine == {r[2] : r \in {b \in batch : b[1] = p}}
<1>1. Offsets[p] = IF mine = {} THEN committed[p] ELSE Max(mine)
  BY DEF Offsets
<1>2. CASE mine # {}
  <2>1. ASSUME NEW k \in mine PROVE k \in Nat /\ <<p, k>> \in batch
    <3>1. PICK r \in batch : r[1] = p /\ r[2] = k
      BY <2>1
    <3>2. r \in Partitions \X Nat
      BY <3>1 DEF CoverInv, OffsetsTyped
    <3> QED BY <3>1, <3>2
  <2>2. \A k \in mine : k <= produced[p] /\ Covered(p, position[p], k)
    <3> SUFFICES ASSUME NEW k \in mine PROVE k <= produced[p] /\ Covered(p, position[p], k)
      OBVIOUS
    <3>1. <<p, k>> \in batch
      BY <2>1
    <3>2. \A r \in batch : r[2] <= produced[r[1]] /\ Covered(r[1], position[r[1]], r[2])
      BY DEF CoverInv
    <3>3. <<p, k>>[2] <= produced[<<p, k>>[1]] /\ Covered(<<p, k>>[1], position[<<p, k>>[1]], <<p, k>>[2])
      BY <3>1, <3>2
    <3> QED BY <3>3
  <2>3. mine \in SUBSET Nat /\ produced[p] \in Nat
    BY <2>1 DEF CoverInv, OffsetsTyped
  <2> HIDE DEF mine
  <2>4. Max(mine) \in mine
    BY <1>2, <2>2, <2>3, MaxOf
  <2> QED BY <1>1, <1>2, <2>1, <2>2, <2>4
<1> QED BY <1>1, <1>2

LEMMA CommitCovered ==
  ASSUME CoverInv, Commit
  PROVE  CoverInv'
<1>1. /\ stage = "commit" /\ stage' = "save"
      /\ committed' = Offsets \/ committed' = committed
      /\ origin' = [p \in Partitions |-> IF origin[p] # NoOffset \/ committed'[p] = NoOffset
                                         THEN origin[p] ELSE position[p]]
      /\ UNCHANGED <<produced, position, taken, tested, batch>>
  BY DEF Commit, CommitOf
<1>2. ASSUME NEW p \in Partitions
      PROVE  /\ committed'[p] \in Nat \cup {NoOffset} /\ origin'[p] \in Nat \cup {NoOffset}
             /\ committed'[p] = NoOffset <=> origin'[p] = NoOffset
             /\ committed'[p] # NoOffset => Covered(p, origin'[p], committed'[p])
  <2>1. /\ committed[p] \in Nat \cup {NoOffset} /\ origin[p] \in Nat \cup {NoOffset} /\ position[p] \in Nat
        /\ committed[p] = NoOffset <=> origin[p] = NoOffset
        /\ committed[p] # NoOffset => Covered(p, origin[p], committed[p]) /\ Covered(p, committed[p], position[p])
        /\ NoOffset \notin Nat
    BY <1>1 DEF CoverInv, OffsetsTyped, NoOffset
  <2>2. \/ committed'[p] = committed[p]
        \/ committed'[p] \in Nat /\ Covered(p, position[p], committed'[p])
    BY <1>1, OffsetsCovered
  <2>3. origin'[p] = IF origin[p] # NoOffset \/ committed'[p] = NoOffset THEN origin[p] ELSE position[p]
    BY <1>1
  <2>4. CASE committed'[p] = committed[p]
    BY <2>1, <2>3, <2>4
  <2>5. CASE committed'[p] \in Nat /\ Covered(p, position[p], committed'[p])
    <3>1. CASE committed[p] = NoOffset
      BY <2>1, <2>3, <2>5, <3>1
    <3>2. CASE committed[p] # NoOffset
      <4>1. Covered(p, origin[p], position[p])
        BY <2>1, <3>2, CoveredMore
      <4>2. Covered(p, origin[p], committed'[p])
        BY <2>1, <2>5, <3>2, <4>1, CoveredMore
      <4> QED BY <2>1, <2>3, <2>5, <3>2, <4>2
    <3> QED BY <3>1, <3>2
  <2> QED BY <2>2, <2>4, <2>5
<1>3. committed' = [p \in Partitions |-> committed'[p]] /\ origin' = [p \in Partitions |-> origin'[p]]
  BY <1>1 DEF Offsets, CoverInv, OffsetsTyped
<1>4. OffsetsTyped'
  BY <1>1, <1>2, <1>3 DEF CoverInv, OffsetsTyped
<1>5. \A p \in Partitions : committed'[p] # NoOffset => Covered(p, origin[p], committed[p])'
  BY <1>1, <1>2 DEF Covered, SourceOf
<1> QED BY <1>1, <1>2, <1>4, <1>5 DEF CoverInv

LEMMA ConnectCovered ==
  ASSUME CoverInv, Connect
  PROVE  CoverInv'
<1>1. /\ position' = [p \in Partitions |-> Position(p)]
      /\ stage' \in {"test", "poll"} /\ UNCHANGED <<produced, committed, batch, taken, tested, origin>>
  BY DEF Connect, kafkaSeen
<1>2. \A p \in Partitions : Position(p) \in Nat /\ (committed[p] # NoOffset => Position(p) = committed[p])
  BY DEF CoverInv, OffsetsTyped, Position
<1>3. OffsetsTyped'
  BY <1>1, <1>2 DEF CoverInv, OffsetsTyped
<1>4. ASSUME NEW p \in Partitions, committed[p] # NoOffset PROVE Covered(p, committed[p], position[p])'
  <2>1. position'[p] = committed[p] /\ committed[p] \in Nat
    BY <1>1, <1>2, <1>4
  <2>2. position'[p] \in Nat /\ committed'[p] = position'[p]
    BY <1>1, <2>1
  <2>3. committed'[p] + 1 .. position'[p] = {}
    BY <2>2
  <2> QED BY <2>3 DEF Covered
<1> QED BY <1>1, <1>3, <1>4, CoverKept DEF CoverInv

LEMMA TestPollCovered ==
  ASSUME CoverInv, TestPoll
  PROVE  CoverInv'
<1>1. PICK n \in Batches : /\ position' = [p \in Partitions |-> position[p] + n[p]]
                           /\ tested' = tested \cup Fetched(n)
  BY DEF TestPoll
<1>2. /\ stage = "test" /\ stage' \in {"poll", "save"}
      /\ UNCHANGED <<produced, committed, batch, taken, origin>>
  BY DEF TestPoll
<1>3. OffsetsTyped
  BY DEF CoverInv
<1>4. \A p \in Partitions : n[p] \in Nat /\ position[p] \in Nat /\ position[p] + n[p] \in Nat
  BY <1>3, FetchedOf
<1>5. OffsetsTyped'
  BY <1>1, <1>2, <1>3, <1>4 DEF OffsetsTyped
<1>6. ASSUME NEW p \in Partitions, committed[p] # NoOffset PROVE Covered(p, committed[p], position[p])'
  <2>1. Covered(p, committed[p], position[p]) /\ committed[p] \in Nat
    BY <1>2, <1>6 DEF CoverInv, OffsetsTyped
  <2> SUFFICES ASSUME NEW i \in committed[p] + 1 .. position[p] + n[p], SourceOf(<<p, i>>) # Dropped
               PROVE  <<p, i>> \in taken \cup tested'
    BY <1>1, <1>2 DEF Covered, SourceOf
  <2>2. i \in Nat /\ (i \in committed[p] + 1 .. position[p] \/ i \in position[p] + 1 .. position[p] + n[p])
    BY <1>4, <2>1
  <2>3. CASE i \in committed[p] + 1 .. position[p]
    BY <1>1, <2>1, <2>3 DEF Covered
  <2>4. CASE i \in position[p] + 1 .. position[p] + n[p]
    <3>1. <<p, i>> \in Fetched(n)
      BY <1>3, <2>2, <2>4, FetchedOf
    <3> QED BY <1>1, <3>1
  <2> QED BY <2>2, <2>3, <2>4
<1>7. batch' \subseteq taken' /\ tested \subseteq tested'
  BY <1>1, <1>2 DEF CoverInv
<1> QED BY <1>2, <1>5, <1>6, <1>7, CoverKept

LEMMA StepCovered == CoverInv /\ [KafkaNext]_kafkaVars => CoverInv'
<1> SUFFICES ASSUME CoverInv, [KafkaNext]_kafkaVars PROVE CoverInv'
  OBVIOUS
<1>1. CASE Connect
  BY <1>1, ConnectCovered
<1>2. CASE TestPoll
  BY <1>2, TestPollCovered
<1>3. CASE Poll
  BY <1>3, PollCovered DEF Poll
<1>4. CASE Commit
  BY <1>4, CommitCovered
<1>5. CASE Save \/ CutShort
  <2>1. /\ stage' = "idle" /\ batch' = {} /\ position' = [p \in Partitions |-> 0]
        /\ UNCHANGED <<produced, committed, taken, tested, origin>>
    BY <1>5 DEF Save, CutShort, Ended, kafkaSeen
  <2>2. OffsetsTyped'
    BY <2>1 DEF CoverInv, OffsetsTyped
  <2> QED BY <2>1, <2>2, CoverKept
<1>6. ASSUME NEW q \in Partitions, Produce(q) PROVE CoverInv'
  <2>1. /\ produced' = [produced EXCEPT ![q] = @ + 1]
        /\ UNCHANGED <<committed, stage, position, batch, taken, tested, origin>>
    BY <1>6 DEF Produce, sweepVars, kafkaSeen
  <2>2. OffsetsTyped'
    BY <2>1 DEF CoverInv, OffsetsTyped
  <2>3. ASSUME stage = "commit", NEW r \in batch PROVE r[2] <= produced'[r[1]] /\ Covered(r[1], position[r[1]], r[2])'
    <3>1. r[2] <= produced[r[1]] /\ Covered(r[1], position[r[1]], r[2]) /\ r[1] \in Partitions /\ r[2] \in Nat
      BY <2>3 DEF CoverInv, OffsetsTyped
    <3>2. produced[r[1]] \in Nat /\ produced'[r[1]] \in Nat /\ produced[r[1]] <= produced'[r[1]]
      BY <2>1, <3>1 DEF CoverInv, OffsetsTyped
    <3>3. r[2] <= produced'[r[1]]
      BY <3>1, <3>2
    <3>4. Covered(r[1], position[r[1]], r[2])'
      BY <2>1, <3>1 DEF Covered, SourceOf
    <3> QED BY <3>3, <3>4
  <2>4. ASSUME NEW p \in Partitions, committed[p] # NoOffset, stage \in {"test", "poll", "commit"}
        PROVE  Covered(p, committed[p], position[p])'
    <3>1. Covered(p, committed[p], position[p])
      BY <2>4 DEF CoverInv
    <3> QED BY <2>1, <3>1 DEF Covered, SourceOf
  <2>5. batch' \subseteq taken' /\ taken \subseteq taken' /\ tested \subseteq tested'
    BY <2>1 DEF CoverInv
  <2> QED BY <2>1, <2>2, <2>3, <2>4, <2>5, CoverKept
<1>7. CASE UNCHANGED kafkaVars
  BY <1>7 DEF kafkaVars, sweepVars, kafkaSeen, CoverInv, OffsetsTyped, Covered, SourceOf
<1> QED BY <1>1, <1>2, <1>3, <1>4, <1>5, <1>6, <1>7 DEF KafkaNext, Sweep

\* No record that maps is passed by a commit before it was in a batch or in a test poll: neither the
\* cap, the order of the partitions, dropped records nor a failed commit loses one (collectKafkaAlerts).
THEOREM ConnectorSkipsNothing == KafkaSpec => []NothingSkipped
<1>1. CoverInv => NothingSkipped
  BY DEF CoverInv, NothingSkipped, Covered
<1> QED BY <1>1, InitCovered, StepCovered, PTL DEF KafkaSpec

-----------------------------------------------------------------------------
\* Until a sweep is cut short, what was taken is stored or in the batch, which waits for the save.
HeldInv == /\ deaths \in Nat
           /\ deaths = 0 => taken \subseteq stored \cup batch
           /\ stage \in {"idle", "test", "poll"} => batch = {}

LEMMA StepHeld == HeldInv /\ [KafkaNext]_kafkaVars => HeldInv'
<1> SUFFICES ASSUME HeldInv, [KafkaNext]_kafkaVars PROVE HeldInv'
  OBVIOUS
<1>1. CASE Connect
  BY <1>1 DEF Connect, HeldInv, bounds, kafkaSeen
<1>2. CASE TestPoll
  BY <1>2 DEF TestPoll, HeldInv
<1>3. CASE Poll
  <2>1. /\ stage = "poll" /\ taken' = taken \cup batch' /\ stage' \in {"save", "commit"}
        /\ stored' = stored /\ deaths' = deaths
    BY <1>3 DEF Poll, PollOf
  <2> QED BY <2>1 DEF HeldInv
<1>4. CASE Commit
  BY <1>4 DEF Commit, CommitOf, HeldInv
<1>5. CASE Save
  BY <1>5 DEF Save, Ended, HeldInv, bounds
<1>6. CASE CutShort
  <2>1. deaths' = deaths + 1 /\ stage' = "idle" /\ batch' = {}
    BY <1>6 DEF CutShort, Ended
  <2> QED BY <2>1 DEF HeldInv
<1>7. CASE (\E p \in Partitions : Produce(p)) \/ UNCHANGED kafkaVars
  BY <1>7 DEF Produce, HeldInv, kafkaVars, sweepVars, bounds, kafkaSeen
<1> QED BY <1>1, <1>2, <1>3, <1>4, <1>5, <1>6, <1>7 DEF KafkaNext, Sweep

\* As long as every sweep reaches its save, what was taken and committed is in the table by its
\* end, whatever the broker reported about the commit (collectKafkaAlerts, runOnce).
THEOREM CommitsAreStored == KafkaSpec => []CommittedIsStored
<1>1. KafkaInit => HeldInv
  BY DEF KafkaInit, HeldInv
<1>2. HeldInv => CommittedIsStored
  BY DEF HeldInv, CommittedIsStored
<1> QED BY <1>1, <1>2, StepHeld, PTL DEF KafkaSpec

-----------------------------------------------------------------------------
\* What a mark stands for has been delivered, and what a fetch has read of the site is no newer
\* than the site.
EditionsInv ==
    /\ site.edition \in Nat /\ delivered \in 0 .. site.edition
    /\ mark.etag \in 0 .. delivered /\ mark.version \in 0 .. delivered
    /\ asked \in [edition : 0 .. site.edition, fresh : BOOLEAN, index : 0 .. site.edition]
    /\ reply.edition \in Nat /\ NotModifiedIsKnown

LEMMA InitEditions == FetchInit => EditionsInv
<1> SUFFICES ASSUME FetchInit PROVE EditionsInv
  OBVIOUS
<1>1. /\ site.edition = 1 /\ delivered = 0 /\ mark.etag = 0 /\ mark.version = 0
      /\ asked = [edition |-> 0, fresh |-> FALSE, index |-> 0] /\ reply.status = "none" /\ reply.edition = 0
  BY DEF FetchInit, NoMark, NoAsk, NoReply
<1> QED BY <1>1 DEF EditionsInv, NotModifiedIsKnown

\* The site grows, and so does what was delivered.
LEMMA EditionsGrow ==
  ASSUME EditionsInv, site'.edition \in Nat, site'.edition >= site.edition,
         delivered' \in {delivered, site.edition},
         mark'.etag \in 0 .. delivered', mark'.version \in 0 .. delivered',
         asked' \in [edition : 0 .. site.edition, fresh : BOOLEAN, index : 0 .. site.edition],
         reply'.status = "not_modified" => reply' = reply \/ reply'.edition <= delivered',
         reply' = reply \/ reply'.edition \in Nat
  PROVE  EditionsInv'
<1>1. delivered <= delivered' /\ delivered' \in 0 .. site'.edition
  BY DEF EditionsInv
<1>2. NotModifiedIsKnown' /\ reply'.edition \in Nat
  <2>1. CASE reply' = reply
    <3>1. ASSUME reply.status = "not_modified" PROVE reply.edition <= delivered'
      BY <1>1, <3>1 DEF EditionsInv, NotModifiedIsKnown
    <3> QED BY <2>1, <3>1 DEF EditionsInv, NotModifiedIsKnown
  <2> QED BY <2>1 DEF NotModifiedIsKnown
<1>3. asked' \in [edition : 0 .. site'.edition, fresh : BOOLEAN, index : 0 .. site'.edition]
  BY DEF EditionsInv
<1> QED BY <1>1, <1>2, <1>3 DEF EditionsInv

LEMMA StepEditions == EditionsInv /\ [FetchNext]_fetchVars => EditionsInv'
<1> SUFFICES ASSUME EditionsInv, [FetchNext]_fetchVars PROVE EditionsInv'
  OBVIOUS
<1>a. /\ site.edition \in Nat /\ delivered \in 0 .. site.edition
      /\ mark.etag \in 0 .. delivered /\ mark.version \in 0 .. delivered
      /\ asked \in [edition : 0 .. site.edition, fresh : BOOLEAN, index : 0 .. site.edition]
      /\ NoAsk \in [edition : 0 .. site.edition, fresh : BOOLEAN, index : 0 .. site.edition]
  BY DEF EditionsInv, NoAsk
\* An error: the mark is cleared, or the fetch is tried again.
<1>b. ASSUME NEW e, Fail(e)
      PROVE  /\ mark'.etag \in 0 .. delivered /\ mark'.version \in 0 .. delivered
             /\ reply' = reply \/ (reply'.status = "error" /\ reply'.edition = 0)
  BY <1>a, <1>b DEF Fail, Answer, Recorded
\* A fetch that has come through.
<1>c. ASSUME NEW items, NEW etag, NEW version, Through(items, etag, version)
      PROVE  /\ delivered' = site.edition /\ reply'.status # "not_modified" /\ reply'.edition = site.edition
             /\ mark'.etag = etag /\ mark'.version = version
  BY <1>c DEF Through, Answer, Recorded
<1>1. CASE Publish
  <2>1. site'.edition = site.edition + 1 /\ UNCHANGED <<mark, asked, reply, delivered>>
    BY <1>1 DEF Publish
  <2> QED BY <1>a, <2>1, EditionsGrow
<1>2. CASE Start
  <2>1. UNCHANGED <<site, mark, delivered>> /\ asked' = NoAsk /\ reply' = NoReply
    BY <1>2 DEF Start
  <2> QED BY <1>a, <2>1, EditionsGrow DEF NoReply
<1>3. CASE NotModified
  <2>1. /\ UNCHANGED <<site, asked, delivered>> /\ site.edition \in {mark.etag, mark.version}
        /\ reply'.edition = site.edition /\ mark'.etag = mark.etag /\ mark'.version = mark.version
    BY <1>3 DEF NotModified, Answer, Recorded
  <2> QED BY <1>a, <2>1, EditionsGrow
<1>4. CASE Ask
  <2>1. UNCHANGED <<site, mark, reply, delivered>>
    BY <1>4 DEF Ask
  <2>2. asked' \in [edition : 0 .. site.edition, fresh : BOOLEAN, index : 0 .. site.edition]
    <3>1. asked' = [edition |-> site.edition, fresh |-> TRUE, index |-> 0] \/ asked' = NoAsk
      BY <1>4 DEF Ask
    <3> DEFINE editions == 0 .. site.edition
    <3>2. site.edition \in editions /\ 0 \in editions
      BY <1>a
    <3> HIDE DEF editions
    <3>3. [edition |-> site.edition, fresh |-> TRUE, index |-> 0] \in [edition : editions, fresh : BOOLEAN, index : editions]
      BY <3>2
    <3> QED BY <1>a, <3>1, <3>3 DEF editions
  <2> QED BY <1>a, <2>1, <2>2, EditionsGrow
<1>5. CASE Check
  <2>1. UNCHANGED <<site, asked, delivered>>
    BY <1>5 DEF Check
  <2>2. \/ UNCHANGED <<reply, mark>>
        \/ /\ reply'.edition = mark.version
           /\ mark'.etag = 0 /\ mark'.version = mark.version
    BY <1>5 DEF Check, Answer, Recorded
  <2> QED BY <1>a, <2>1, <2>2, EditionsGrow
<1>6. CASE Index
  <2>1. UNCHANGED <<site, delivered>>
    BY <1>6 DEF Index
  <2>2. \/ asked' = asked /\ \E e : Fail(e)
        \/ asked' = [asked EXCEPT !.index = site.edition] /\ UNCHANGED <<reply, mark>>
    BY <1>6 DEF Index
  <2>3. asked' \in [edition : 0 .. site.edition, fresh : BOOLEAN, index : 0 .. site.edition]
    BY <1>a, <2>2
  <2>4. /\ mark'.etag \in 0 .. delivered /\ mark'.version \in 0 .. delivered
        /\ reply' = reply \/ (reply'.status = "error" /\ reply'.edition = 0)
    BY <1>a, <1>b, <2>2
  <2> QED BY <1>a, <2>1, <2>3, <2>4, EditionsGrow
<1>7. CASE Stream
  <2>1. UNCHANGED <<site, asked>>
    BY <1>7 DEF Stream
  <2>2. \/ delivered' = delivered /\ \E e : Fail(e)
        \/ /\ delivered' = site.edition /\ reply'.status # "not_modified" /\ reply'.edition = site.edition
           /\ mark'.etag = asked.edition /\ mark'.version = asked.index
    BY <1>7, <1>c DEF Stream
  <2>3. CASE delivered' = delivered /\ \E e : Fail(e)
    BY <1>a, <1>b, <2>1, <2>3, EditionsGrow
  <2>4. CASE ~(delivered' = delivered /\ \E e : Fail(e))
    BY <1>a, <2>1, <2>2, <2>4, EditionsGrow
  <2> QED BY <2>3, <2>4
<1>8. CASE Fetch
  <2>1. UNCHANGED <<site, asked>>
    BY <1>8 DEF Fetch
  <2>2. \/ delivered' = delivered /\ \E e : Fail(e)
        \/ /\ delivered' = site.edition /\ reply'.status # "not_modified" /\ reply'.edition = site.edition
           /\ mark'.etag = 0 /\ mark'.version = 0
    BY <1>8, <1>c DEF Fetch
  <2>3. CASE delivered' = delivered /\ \E e : Fail(e)
    BY <1>a, <1>b, <2>1, <2>3, EditionsGrow
  <2>4. CASE ~(delivered' = delivered /\ \E e : Fail(e))
    BY <1>a, <2>1, <2>2, <2>4, EditionsGrow
  <2> QED BY <2>3, <2>4
<1>9. CASE UNCHANGED fetchVars
  BY <1>a, <1>9, EditionsGrow DEF fetchVars
<1> QED BY <1>1, <1>2, <1>3, <1>4, <1>5, <1>6, <1>7, <1>8, <1>9 DEF FetchNext

\* Alerts of what is answered with `not_modified`, or of a later edition, have been handed over
\* before, whatever the site does between the requests of a fetch (fetchOpenSanctions).
THEOREM UnmodifiedWasDelivered == FetchSpec => []NotModifiedIsKnown
<1>1. EditionsInv => NotModifiedIsKnown
  BY DEF EditionsInv
<1> QED BY <1>1, InitEditions, StepEditions, PTL DEF FetchSpec

-----------------------------------------------------------------------------
\* What is chosen of a list, cut off it and put in order, and what an answer without items means.

\* One step of Chosen.
Picked(x, i, keep) == IF i \in keep THEN Append(x, i) ELSE x

\* What is chosen of the first n stands where its number among the chosen is.
Place(doc, keep, n) == Cardinality({l \in 1 .. n : doc[l] \in keep})
ChosenOf(s, doc, keep, n) == /\ Len(s) = Place(doc, keep, n)
                             /\ \A k \in 1 .. n : doc[k] \in keep => s[Place(doc, keep, k)] = doc[k]

LEMMA PlaceStep ==
  ASSUME NEW doc, NEW keep, NEW n \in Nat
  PROVE  /\ Place(doc, keep, 0) = 0 /\ Place(doc, keep, n) \in Nat
         /\ doc[n + 1] \in keep => Place(doc, keep, n + 1) = Place(doc, keep, n) + 1
         /\ doc[n + 1] \notin keep => Place(doc, keep, n + 1) = Place(doc, keep, n)
<1> DEFINE P(m) == {l \in 1 .. m : doc[l] \in keep}
<1>1. P(0) = {} /\ Cardinality({}) = 0
  BY FS_EmptySet
<1>2. IsFiniteSet(P(n))
  <2>1. IsFiniteSet(1 .. n) /\ P(n) \subseteq 1 .. n
    BY FS_Interval
  <2> QED BY <2>1, FS_Subset
<1>3. doc[n + 1] \in keep => P(n + 1) = P(n) \cup {n + 1}
  OBVIOUS
<1>4. doc[n + 1] \notin keep => P(n + 1) = P(n)
  OBVIOUS
<1>5. n + 1 \notin P(n)
  OBVIOUS
<1>6. \A m : Place(doc, keep, m) = Cardinality(P(m))
  BY DEF Place
<1> HIDE DEF P
<1>7. Cardinality(P(n)) \in Nat /\ Cardinality(P(n) \cup {n + 1}) = Cardinality(P(n)) + 1
  BY <1>2, <1>5, FS_AddElement, FS_CardinalityType
<1> QED BY <1>1, <1>3, <1>4, <1>6, <1>7

LEMMA PlaceGrows ==
  ASSUME NEW doc, NEW keep, NEW n \in Nat, NEW k \in 1 .. n
  PROVE  /\ Place(doc, keep, k) \in Nat /\ Place(doc, keep, k) <= Place(doc, keep, n)
         /\ doc[k] \in keep => Place(doc, keep, k) >= 1
         /\ (k < n /\ doc[n] \in keep) => Place(doc, keep, k) < Place(doc, keep, n)
<1> DEFINE P(m) == {l \in 1 .. m : doc[l] \in keep}
<1>1. P(k) \subseteq P(n) /\ (doc[k] \in keep => k \in P(k)) /\ ((k < n /\ doc[n] \in keep) => n \in P(n) /\ n \notin P(k))
  OBVIOUS
<1>2. IsFiniteSet(P(n)) /\ IsFiniteSet(P(k))
  <2>1. IsFiniteSet(1 .. n) /\ P(n) \subseteq 1 .. n
    BY FS_Interval
  <2>2. IsFiniteSet(P(n))
    BY <2>1, FS_Subset
  <2> QED BY <1>1, <2>2, FS_Subset
<1>3. \A m : Place(doc, keep, m) = Cardinality(P(m))
  BY DEF Place
<1> HIDE DEF P
<1>4. Cardinality(P(k)) \in Nat /\ Cardinality(P(n)) \in Nat /\ Cardinality(P(k)) <= Cardinality(P(n))
  BY <1>1, <1>2, FS_Subset, FS_CardinalityType
<1>5. doc[k] \in keep => Cardinality(P(k)) # 0
  BY <1>1, <1>2, FS_EmptySet
<1>6. (k < n /\ doc[n] \in keep) => Cardinality(P(k)) # Cardinality(P(n))
  BY <1>1, <1>2, FS_Subset
<1> QED BY <1>3, <1>4, <1>5, <1>6

\* Chosen gives items of the document and no others, all of those it is to keep, in their order.
LEMMA ChosenIs ==
  ASSUME NEW A, NEW doc \in Seq(A), NEW keep
  PROVE  Chosen(doc, keep) \in Seq(A) /\ ChosenOf(Chosen(doc, keep), doc, keep, Len(doc))
<1> DEFINE Lists == Seq(A)
           L == Len(doc)
           Run(f, n) == f[0] = <<>> /\ \A k \in 1 .. n : f[k] = Picked(f[k - 1], doc[k], keep)
           Has(n) == n <= L => \E f \in [0 .. n -> Lists] : Run(f, n)
           S == {n \in Nat : Has(n)}
           Step(f) == [n \in 0 .. L |-> IF n = 0 THEN <<>> ELSE Picked(f[n - 1], doc[n], keep)]
           some == CHOOSE f : f = Step(f)
<1>l. L \in Nat /\ <<>> \in Lists /\ \A n \in 1 .. L : \A x \in Lists : Picked(x, doc[n], keep) \in Lists
  BY DEF Picked
<1>6. Chosen(doc, keep) = some[L]
  BY DEF Chosen, Picked
<1> HIDE DEF L, Lists
<1> HIDE DEF Has
<1>h. \A k \in Nat : k \in S <=> Has(k)
  OBVIOUS
<1> HIDE DEF S
<1>1. 0 \in S
  <2> DEFINE f == [k \in 0 .. 0 |-> <<>>]
  <2>1. f \in [0 .. 0 -> Lists] /\ Run(f, 0)
    BY <1>l
  <2> QED BY <1>h, <2>1 DEF Has
<1>2. ASSUME NEW n \in Nat, n \in S PROVE n + 1 \in S
  <2>0. Has(n)
    BY <1>2, <1>h
  <2> SUFFICES Has(n + 1)
    BY <1>h
  <2> HIDE DEF Run
  <2> SUFFICES ASSUME n + 1 <= L PROVE \E f \in [0 .. n + 1 -> Lists] : Run(f, n + 1)
    BY DEF Has
  <2>1. PICK f \in [0 .. n -> Lists] : Run(f, n)
    <3>1. n <= L
      BY <1>l
    <3> QED BY ONLY <2>0, <3>1 DEF Has
  <2> USE DEF Run
  <2> DEFINE g == [k \in 0 .. n + 1 |-> IF k <= n THEN f[k] ELSE Picked(f[n], doc[n + 1], keep)]
  <2>2. Picked(f[n], doc[n + 1], keep) \in Lists
    BY <1>l
  <2>3. g \in [0 .. n + 1 -> Lists] /\ g[0] = <<>>
    BY <2>1, <2>2
  <2>4. \A k \in 1 .. n + 1 : g[k] = Picked(g[k - 1], doc[k], keep)
    <3> TAKE k \in 1 .. n + 1
    <3>1. CASE k <= n
      <4>1. k \in 1 .. n /\ k - 1 \in 0 .. n /\ k \in 0 .. n + 1 /\ k - 1 \in 0 .. n + 1 /\ k - 1 <= n
        BY ONLY <3>1, n \in Nat, k \in 1 .. n + 1
      <4>2. g[k] = f[k] /\ g[k - 1] = f[k - 1]
        BY <3>1, <4>1
      <4>3. f[k] = Picked(f[k - 1], doc[k], keep)
        BY <2>1, <4>1
      <4> HIDE DEF g
      <4> QED BY ONLY Zenon, <4>2, <4>3
    <3>2. CASE k = n + 1
      <4>1. k \in 0 .. n + 1 /\ n \in 0 .. n + 1 /\ ~(k <= n) /\ n <= n /\ k - 1 = n
        BY ONLY <3>2, n \in Nat
      <4>2. g[k] = Picked(f[n], doc[n + 1], keep) /\ g[n] = f[n]
        BY <4>1
      <4> HIDE DEF g
      <4> QED BY ONLY Zenon, <3>2, <4>1, <4>2
    <3> QED BY <3>1, <3>2
  <2> HIDE DEF g
  <2> QED BY <2>3, <2>4
<1>3. \E f \in [0 .. L -> Lists] : Run(f, L)
  <2>1. L \in S
    BY <1>1, <1>2, <1>l, SetInduction
  <2>2. Has(L) /\ L <= L
    BY <1>h, <1>l, <2>1
  <2> HIDE DEF Run
  <2> QED BY ONLY <2>2 DEF Has
<1>4. \E f : f = Step(f)
  <2>1. PICK f \in [0 .. L -> Lists] : Run(f, L)
    BY <1>3
  <2>2. \A n \in 0 .. L : f[n] = IF n = 0 THEN <<>> ELSE Picked(f[n - 1], doc[n], keep)
    BY <2>1, <1>l
  <2> QED BY <2>1, <2>2
<1>5. some = Step(some)
  BY <1>4
<1> HIDE DEF some
<1>7. some[0] = <<>> /\ \A n \in 1 .. L : some[n] = Picked(some[n - 1], doc[n], keep)
  BY <1>5, <1>l
<1> DEFINE T == {n \in Nat : n <= L => some[n] \in Lists /\ ChosenOf(some[n], doc, keep, n)}
<1>8. 0 \in T
  <2>1. Len(<<>>) = 0 /\ Place(doc, keep, 0) = 0 /\ 1 .. 0 = {}
    BY PlaceStep
  <2> QED BY <1>7, <1>l, <2>1 DEF ChosenOf
<1>9. ASSUME NEW n \in Nat, n \in T PROVE n + 1 \in T
  <2> SUFFICES ASSUME n + 1 <= L PROVE some[n + 1] \in Lists /\ ChosenOf(some[n + 1], doc, keep, n + 1)
    OBVIOUS
  <2> DEFINE s == some[n]
             z == some[n + 1]
             c == Place(doc, keep, n)
  <2>1. n + 1 \in 1 .. L /\ (n + 1) - 1 = n /\ n <= L
    BY <1>l
  <2>2. s \in Lists /\ ChosenOf(s, doc, keep, n)
    BY <1>9, <2>1
  <2>3. z = Picked(s, doc[n + 1], keep) /\ z \in Lists
    BY <1>7, <1>l, <2>1, <2>2
  <2>4. c \in Nat /\ Len(s) = c /\ \A k \in 1 .. n : doc[k] \in keep => s[Place(doc, keep, k)] = doc[k]
    BY <2>2, PlaceStep DEF ChosenOf
  <2>5. ASSUME NEW k \in 1 .. n, doc[k] \in keep PROVE Place(doc, keep, k) \in 1 .. c
    BY <2>4, <2>5, PlaceGrows
  <2> HIDE DEF s, z
  <2>6. CASE doc[n + 1] \in keep
    <3>1. Place(doc, keep, n + 1) = c + 1
      BY <2>6, PlaceStep
    <3> HIDE DEF c
    <3>2. z = Append(s, doc[n + 1]) /\ s \in Seq(A) /\ doc[n + 1] \in A
      BY <2>1, <2>2, <2>3, <2>6 DEF Picked, Lists, L
    <3>3. Len(z) = c + 1 /\ z[c + 1] = doc[n + 1] /\ \A m \in 1 .. c : z[m] = s[m]
      BY <2>4, <3>2
    <3>4. ASSUME NEW k \in 1 .. n + 1, doc[k] \in keep PROVE z[Place(doc, keep, k)] = doc[k]
      <4>1. CASE k = n + 1
        BY <3>1, <3>3, <4>1
      <4>2. CASE k # n + 1
        <5>1. k \in 1 .. n
          BY <4>2
        <5> QED BY <2>4, <2>5, <3>3, <3>4, <5>1
      <4> QED BY <4>1, <4>2
    <3> QED BY <2>3, <3>1, <3>3, <3>4 DEF ChosenOf, z
  <2>7. CASE doc[n + 1] \notin keep
    <3>1. Place(doc, keep, n + 1) = c
      BY <2>7, PlaceStep
    <3> HIDE DEF c
    <3>2. z = s
      BY <2>3, <2>7 DEF Picked
    <3>3. \A k \in 1 .. n + 1 : doc[k] \in keep => k \in 1 .. n
      BY <2>7
    <3> QED BY <2>3, <2>4, <3>1, <3>2, <3>3 DEF ChosenOf, z
  <2> QED BY <2>6, <2>7
<1> HIDE DEF T
<1>10. L \in T
  BY <1>8, <1>9, <1>l, SetInduction
<1> QED BY <1>6, <1>10, <1>l DEF T, Lists, L

LEMMA ChosenTyped ==
  ASSUME NEW A, NEW doc \in Seq(A), NEW keep
  PROVE  Chosen(doc, keep) \in Seq(A)
  BY ChosenIs

\* In a strict order a finite set is ranked from 0 on, each rank once.
StrictOrder(K, R) == /\ \A a, b \in K : a # b => <<a, b>> \in R \/ <<b, a>> \in R
                     /\ \A a \in K : <<a, a>> \notin R
                     /\ \A a, b, c \in K : <<a, b>> \in R /\ <<b, c>> \in R => <<a, c>> \in R
Upper(K, R, a)    == {b \in K : <<b, a>> \in R}
RankedBy(K, R, rank) == \A a \in K : rank[a] = Cardinality(Upper(K, R, a))
Numbered(K, rank) == /\ \A a \in K : rank[a] \in 0 .. Cardinality(K) - 1
                     /\ \A a, b \in K : rank[a] = rank[b] => a = b
                     /\ \A n \in 0 .. Cardinality(K) - 1 : \E a \in K : rank[a] = n

LEMMA Ranks ==
  ASSUME NEW K, IsFiniteSet(K), NEW R, StrictOrder(K, R),
         NEW rank, RankedBy(K, R, rank)
  PROVE  Numbered(K, rank)
<1> DEFINE N == Cardinality(K)
<1>0. \A a \in K : rank[a] = Cardinality(Upper(K, R, a))
  BY DEF RankedBy
<1>1. N \in Nat
  BY FS_CardinalityType
<1>2. ASSUME NEW a \in K PROVE IsFiniteSet(Upper(K, R, a)) /\ rank[a] \in 0 .. N - 1
  <2>1. Upper(K, R, a) \subseteq K /\ a \notin Upper(K, R, a)
    BY DEF Upper, StrictOrder
  <2>2. IsFiniteSet(Upper(K, R, a)) /\ rank[a] \in Nat /\ rank[a] <= N /\ rank[a] # N
    BY <1>0, <2>1, FS_Subset, FS_CardinalityType
  <2> HIDE DEF N
  <2> QED BY <1>1, <2>2
<1>3. ASSUME NEW a \in K, NEW b \in K, <<a, b>> \in R PROVE rank[a] < rank[b]
  <2>1. Upper(K, R, a) \subseteq Upper(K, R, b) /\ Upper(K, R, a) # Upper(K, R, b)
    BY <1>3 DEF Upper, StrictOrder
  <2>2. rank[a] <= rank[b] /\ rank[a] # rank[b]
    BY <1>0, <1>2, <2>1, FS_Subset
  <2> HIDE DEF N
  <2> QED BY <1>1, <1>2, <2>2
<1>4. ASSUME NEW a \in K, NEW b \in K, rank[a] = rank[b] PROVE a = b
  <2>1. CASE a # b
    <3>1. <<a, b>> \in R \/ <<b, a>> \in R
      BY <2>1 DEF StrictOrder
    <3>2. rank[a] < rank[b] \/ rank[b] < rank[a]
      BY <1>3, <3>1
    <3> HIDE DEF N
    <3> QED BY <1>1, <1>2, <1>4, <3>2
  <2> QED BY <2>1
<1>5. ASSUME NEW n \in 0 .. N - 1 PROVE \E a \in K : rank[a] = n
  <2> DEFINE I == {rank[a] : a \in K}
             f == [a \in K |-> rank[a]]
  <2>1. I \subseteq 0 .. N - 1
    BY <1>2
  <2>2. f \in Injection(K, I)
    BY <1>4 DEF Injection, IsInjective
  <2>3. IsFiniteSet(0 .. N - 1) /\ Cardinality(0 .. N - 1) = N
    BY <1>1, FS_Interval
  <2>4. IsFiniteSet(I) /\ Cardinality(I) <= N
    BY <2>1, <2>3, FS_Subset
  <2> HIDE DEF I, f
  <2>5. Cardinality(K) <= Cardinality(I)
    BY <2>2, <2>4, FS_Injection
  <2>6. Cardinality(I) = N
    <3>1. Cardinality(I) \in Nat
      BY <2>4, FS_CardinalityType
    <3> QED BY <1>1, <2>4, <2>5, <3>1
  <2>7. I = 0 .. N - 1
    BY <2>1, <2>3, <2>6, FS_Subset
  <2> QED BY <2>7 DEF I
<1> HIDE DEF N
<1> QED BY <1>2, <1>4, <1>5 DEF N, Numbered

\* What a cut leaves of a list.
LEMMA MinOf ==
  ASSUME NEW m \in Nat, NEW n \in Nat
  PROVE  Min({m, n}) = IF m <= n THEN m ELSE n
<1>1. CASE m <= n
  <2>1. m \in {m, n} /\ \A y \in {m, n} : m <= y
    BY <1>1
  <2>2. Min({m, n}) \in {m, n} /\ Min({m, n}) <= m
    BY <2>1 DEF Min
  <2> QED BY <1>1, <2>2
<1>2. CASE ~(m <= n)
  <2>1. n \in {m, n} /\ \A y \in {m, n} : n <= y
    BY <1>2
  <2>2. Min({m, n}) \in {m, n} /\ Min({m, n}) <= n
    BY <2>1 DEF Min
  <2> QED BY <1>2, <2>2
<1> QED BY <1>1, <1>2

FirstOf(s, n) == {s[m] : m \in {k \in 1 .. Len(s) : k <= n}}

LEMMA CutIs ==
  ASSUME NEW A, NEW s \in Seq(A), NEW n \in Nat
  PROVE  /\ Cut(s, n) \in Seq(A) /\ ToSet(Cut(s, n)) = FirstOf(s, n)
         /\ (Cut(s, n) = <<>> /\ n > 0) => s = <<>>
         /\ \A m \in 1 .. Len(s) : m <= n => Cut(s, n)[m] = s[m]
<1> DEFINE e == IF n <= Len(s) THEN n ELSE Len(s)
           c == Cut(s, n)
<1>1. e \in Nat /\ e <= Len(s) /\ Len(s) \in Nat
  OBVIOUS
<1>2. c = SubSeq(s, 1, e)
  <2>1. Min({n, Len(s)}) = e
    BY <1>1, MinOf
  <2> QED BY <2>1 DEF Cut
<1>3. c \in Seq(A) /\ Len(c) = e /\ \A m \in 1 .. e : c[m] = s[m]
  <2> HIDE DEF e, c
  <2> QED BY <1>1, <1>2
<1> HIDE DEF c
<1>4. \A m \in 1 .. Len(s) : m <= n => m \in 1 .. e /\ c[m] = s[m]
  BY <1>3
<1>5. ToSet(c) = {c[m] : m \in 1 .. e}
  BY <1>3 DEF ToSet
<1>6. ToSet(c) = {s[m] : m \in {k \in 1 .. Len(s) : k <= n}}
  <2> DEFINE M == {k \in 1 .. Len(s) : k <= n}
  <2>1. 1 .. e = M
    BY <1>1
  <2>2. \A m \in 1 .. e : c[m] = s[m]
    BY <1>3
  <2> HIDE DEF M, e
  <2>3. {c[m] : m \in 1 .. e} = {s[m] : m \in 1 .. e}
    BY ONLY <2>2
  <2> QED BY ONLY Zenon, <1>5, <2>1, <2>3 DEF M
<1>7. (c = <<>> /\ n > 0) => s = <<>>
  <2>1. c = <<>> => e = 0
    BY <1>3
  <2> QED BY <1>1, <2>1
<1> QED BY <1>3, <1>4, <1>6, <1>7 DEF c, FirstOf

LEMMA CutHas ==
  ASSUME NEW A, NEW s \in Seq(A), NEW n \in Nat, NEW m \in {k \in 1 .. Len(s) : k <= n}
  PROVE  s[m] \in ToSet(Cut(s, n))
<1>1. ToSet(Cut(s, n)) = FirstOf(s, n)
  BY CutIs
<1> QED BY <1>1 DEF FirstOf

\* The places of what is chosen are those of the list, each once, in order.
At(doc, keep) == {k \in 1 .. Len(doc) : doc[k] \in keep}

LEMMA ChosenPlaces ==
  ASSUME NEW A, NEW doc \in Seq(A), NEW keep, NEW s, s = Chosen(doc, keep)
  PROVE  /\ s \in Seq(A) /\ IsFiniteSet(At(doc, keep))
         /\ \A k \in At(doc, keep) : Place(doc, keep, k) \in 1 .. Len(s) /\ s[Place(doc, keep, k)] = doc[k]
         /\ \A k, l \in At(doc, keep) : k < l => Place(doc, keep, k) < Place(doc, keep, l)
         /\ \A n \in 1 .. Len(s) : \E k \in At(doc, keep) : Place(doc, keep, k) = n
<1> DEFINE L == Len(doc)
           place == [k \in At(doc, keep) |-> Place(doc, keep, k)]
<1>1. s \in Seq(A) /\ ChosenOf(s, doc, keep, L) /\ L \in Nat
  BY ChosenIs
<1>2. Len(s) \in Nat /\ Len(s) = Place(doc, keep, L) /\ \A k \in 1 .. L : doc[k] \in keep => s[Place(doc, keep, k)] = doc[k]
  BY <1>1 DEF ChosenOf
<1>3. Len(s) = Cardinality(At(doc, keep))
  BY <1>2 DEF Place, At
<1>4. IsFiniteSet(At(doc, keep)) /\ At(doc, keep) \subseteq 1 .. L
  <2>1. IsFiniteSet(1 .. L) /\ At(doc, keep) \subseteq 1 .. L
    BY <1>1, FS_Interval DEF At
  <2> QED BY <2>1, FS_Subset
<1>5. \A k \in At(doc, keep) : doc[k] \in keep
  BY DEF At
<1> HIDE DEF L
<1>6. ASSUME NEW k \in At(doc, keep) PROVE Place(doc, keep, k) \in 1 .. Len(s)
  <2>1. k \in 1 .. L /\ doc[k] \in keep
    BY <1>4, <1>5
  <2> QED BY <1>1, <1>2, <2>1, PlaceGrows
<1>7. ASSUME NEW k \in At(doc, keep), NEW l \in At(doc, keep), k < l PROVE Place(doc, keep, k) < Place(doc, keep, l)
  <2>1. k \in 1 .. l /\ l \in Nat /\ doc[l] \in keep
    BY <1>1, <1>4, <1>5, <1>7
  <2> QED BY <1>7, <2>1, PlaceGrows
<1>8. ASSUME NEW n \in 1 .. Len(s) PROVE \E k \in At(doc, keep) : Place(doc, keep, k) = n
  <2>1. place \in [At(doc, keep) -> 1 .. Len(s)]
    BY <1>6
  <2>2. \A k, l \in At(doc, keep) : k # l => place[k] # place[l]
    <3> SUFFICES ASSUME NEW k \in At(doc, keep), NEW l \in At(doc, keep), k # l PROVE place[k] # place[l]
      OBVIOUS
    <3>1. k < l \/ l < k
      BY <1>1, <1>4
    <3>2. place[k] < place[l] \/ place[l] < place[k]
      BY <1>7, <3>1
    <3>3. place[k] \in Nat /\ place[l] \in Nat
      BY <2>1
    <3> QED BY <3>2, <3>3
  <2>3. IsFiniteSet(1 .. Len(s)) /\ Cardinality(1 .. Len(s)) = Len(s)
    BY <1>2, FS_Interval
  <2>5. \A k \in At(doc, keep) : place[k] = Place(doc, keep, k)
    OBVIOUS
  <2> HIDE DEF place
  <2>4. place \in Injection(At(doc, keep), 1 .. Len(s))
    BY <2>1, <2>2 DEF Injection, IsInjective
  <2>6. place \in Surjection(At(doc, keep), 1 .. Len(s))
    BY <1>3, <2>3, <2>4, FS_Injection
  <2> QED BY <2>5, <2>6 DEF Surjection
<1> QED BY <1>1, <1>2, <1>4, <1>5, <1>6, <1>7, <1>8

LEMMA ChosenGives ==
  ASSUME NEW A, NEW doc \in Seq(A), NEW keep
  PROVE  /\ ToSet(Chosen(doc, keep)) = {i \in ToSet(doc) : i \in keep}
         /\ Chosen(doc, keep) = <<>> => \A i \in ToSet(doc) : i \notin keep
<1> DEFINE s == Chosen(doc, keep)
<1>1. /\ s \in Seq(A)
      /\ \A k \in At(doc, keep) : Place(doc, keep, k) \in 1 .. Len(s) /\ s[Place(doc, keep, k)] = doc[k]
      /\ \A n \in 1 .. Len(s) : \E k \in At(doc, keep) : Place(doc, keep, k) = n
  BY ChosenPlaces
<1> HIDE DEF s
<1>2. ToSet(s) = {s[n] : n \in 1 .. Len(s)} /\ ToSet(doc) = {doc[k] : k \in 1 .. Len(doc)}
  BY <1>1 DEF ToSet
<1>3. ASSUME NEW n \in 1 .. Len(s) PROVE s[n] \in ToSet(doc) /\ s[n] \in keep
  <2>1. PICK k \in At(doc, keep) : Place(doc, keep, k) = n
    BY <1>1
  <2>2. s[n] = doc[k]
    BY <1>1, <2>1
  <2> QED BY <1>2, <2>2 DEF At
<1>4. ASSUME NEW k \in 1 .. Len(doc), doc[k] \in keep PROVE doc[k] \in ToSet(s)
  <2>1. k \in At(doc, keep)
    BY <1>4 DEF At
  <2> QED BY <1>1, <1>2, <2>1
<1>5. ToSet(s) = {i \in ToSet(doc) : i \in keep}
  BY <1>2, <1>3, <1>4
<1>6. s = <<>> => ToSet(s) = {}
  BY <1>2
<1> QED BY <1>5, <1>6 DEF s

-----------------------------------------------------------------------------
\* The order of sortFeedItemsNewest, on places.
BeforeIn(s, l, k) == Newer(s[l], s[k]) \/ (l < k /\ ~Newer(s[k], s[l]))
Ahead(s, k)       == {l \in DOMAIN s : BeforeIn(s, l, k)}

LEMMA AheadFinite ==
  ASSUME NEW s \in Seq(Items), NEW k
  PROVE  IsFiniteSet(Ahead(s, k)) /\ Cardinality(Ahead(s, k)) \in Nat
<1>1. Len(s) \in Nat /\ DOMAIN s = 1 .. Len(s)
  OBVIOUS
<1>2. IsFiniteSet(1 .. Len(s)) /\ Ahead(s, k) \subseteq 1 .. Len(s)
  BY <1>1, FS_Interval DEF Ahead
<1> QED BY <1>2, FS_Subset, FS_CardinalityType

LEMMA NewestIs ==
  ASSUME NEW s \in Seq(Items), NEW S, S = NewestFirst(s)
  PROVE  /\ S \in Seq(Items) /\ Len(S) = Len(s)
         /\ \A k \in 1 .. Len(s) : Cardinality(Ahead(s, k)) + 1 \in 1 .. Len(s) /\ S[Cardinality(Ahead(s, k)) + 1] = s[k]
         /\ \A n \in 1 .. Len(s) : \E k \in 1 .. Len(s) : Cardinality(Ahead(s, k)) + 1 = n
<1> DEFINE K == 1 .. Len(s)
           R == {p \in K \X K : BeforeIn(s, p[1], p[2])}
           rank == [k \in K |-> Cardinality(Upper(K, R, k))]
<1>1. IsFiniteSet(K) /\ Cardinality(K) = Len(s) /\ Len(s) \in Nat /\ DOMAIN s = K
  <2>1. Len(s) \in Nat /\ DOMAIN s = K
    OBVIOUS
  <2>2. IsFiniteSet(1 .. Len(s)) /\ Cardinality(1 .. Len(s)) = Len(s)
    <3> DEFINE n == Len(s)
    <3>1. n \in Nat /\ 1 \in Int /\ n \in Int
      BY <2>1
    <3> HIDE DEF n
    <3>2. IsFiniteSet(1 .. n) /\ Cardinality(1 .. n) = IF 1 > n THEN 0 ELSE n - 1 + 1
      BY ONLY <3>1, FS_Interval
    <3>3. (IF 1 > n THEN 0 ELSE n - 1 + 1) = n
      BY ONLY <3>1
    <3> QED BY ONLY <3>2, <3>3 DEF n
  <2> QED BY <2>1, <2>2
<1>2. \A k \in K : s[k] \in Items /\ k \in Nat /\ Trait[s[k]].date \in Nat
  BY FetchTyped
<1>3. \A k, l \in K : <<l, k>> \in R <=> Trait[s[l]].date > Trait[s[k]].date \/ (l < k /\ ~(Trait[s[k]].date > Trait[s[l]].date))
  BY DEF BeforeIn, Newer
<1>4. StrictOrder(K, R)
  <2> HIDE DEF R, K
  <2>1. \A a, b \in K : a # b => <<a, b>> \in R \/ <<b, a>> \in R
    BY <1>2, <1>3
  <2>2. \A a \in K : <<a, a>> \notin R
    BY <1>2, <1>3
  <2>3. \A a, b, c \in K : <<a, b>> \in R /\ <<b, c>> \in R => <<a, c>> \in R
    <3> SUFFICES ASSUME NEW a \in K, NEW b \in K, NEW c \in K, <<a, b>> \in R, <<b, c>> \in R PROVE <<a, c>> \in R
      OBVIOUS
    <3> DEFINE x == Trait[s[a]].date
               y == Trait[s[b]].date
               z == Trait[s[c]].date
    <3>1. x \in Nat /\ y \in Nat /\ z \in Nat /\ a \in Nat /\ b \in Nat /\ c \in Nat
      BY <1>2
    <3>2. (x > y \/ (a < b /\ ~(y > x))) /\ (y > z \/ (b < c /\ ~(z > y)))
      BY <1>3
    <3>3. x > z \/ (a < c /\ ~(z > x)) => <<a, c>> \in R
      BY <1>3
    <3> HIDE DEF x, y, z
    <3>4. x > z \/ (a < c /\ ~(z > x))
      BY ONLY <3>1, <3>2
    <3> QED BY ONLY <3>3, <3>4
  <2> QED BY <2>1, <2>2, <2>3 DEF StrictOrder
<1>5. RankedBy(K, R, rank) /\ \A k \in K : rank[k] = Cardinality(Upper(K, R, k))
  BY DEF RankedBy
<1>6. \A k \in K : Upper(K, R, k) = Ahead(s, k)
  BY <1>1 DEF Upper, Ahead
<1> DEFINE place == [k \in K |-> rank[k] + 1]
<1>7. S = [n \in K |-> s[CHOOSE k \in K : place[k] = n]]
  <2>1. \A k \in K : Ahead(s, k) = {l \in K : Newer(s[l], s[k]) \/ (l < k /\ ~Newer(s[k], s[l]))}
    BY <1>1 DEF Ahead, BeforeIn
  <2> DEFINE other == [k \in K |-> Cardinality({l \in K : Newer(s[l], s[k]) \/ (l < k /\ ~Newer(s[k], s[l]))}) + 1]
  <2>2. other = place
    BY <1>5, <1>6, <2>1
  <2>3. S = [n \in K |-> s[CHOOSE k \in K : other[k] = n]]
    BY <1>1 DEF NewestFirst
  <2> HIDE DEF other, place
  <2> QED BY <2>2, <2>3
<1>p. \A k \in K : place[k] = rank[k] + 1
  OBVIOUS
<1> HIDE DEF place
<1> HIDE DEF R, rank
<1>8. Numbered(K, rank)
  <2> HIDE DEF K
  <2> QED BY <1>1, <1>4, <1>5, Ranks
<1>9. /\ \A k \in K : rank[k] \in 0 .. Len(s) - 1
      /\ \A a, b \in K : rank[a] = rank[b] => a = b
      /\ \A n \in 0 .. Len(s) - 1 : \E a \in K : rank[a] = n
  BY <1>1, <1>8 DEF Numbered
<1>10. \A k \in K : rank[k] = Cardinality(Ahead(s, k))
  BY <1>5, <1>6
<1>11. ASSUME NEW k \in K PROVE rank[k] + 1 \in K /\ S[rank[k] + 1] = s[k]
  <2>1. rank[k] + 1 \in K
    BY <1>1, <1>9
  <2> DEFINE c == CHOOSE j \in K : place[j] = rank[k] + 1
  <2>2. c \in K /\ rank[c] + 1 = rank[k] + 1
    BY <1>p
  <2>3. S[rank[k] + 1] = s[c]
    BY <1>7, <2>1
  <2> HIDE DEF c
  <2>4. rank[c] = rank[k]
    <3> DEFINE i == rank[c]
               j == rank[k]
    <3>1. i \in Nat /\ j \in Nat /\ i + 1 = j + 1
      BY <1>1, <1>9, <2>2
    <3> HIDE DEF i, j
    <3>2. i = j
      BY ONLY <3>1
    <3> QED BY ONLY <3>2 DEF i, j
  <2>5. c = k
    BY <1>9, <2>2, <2>4
  <2> QED BY <2>1, <2>3, <2>5
<1>12. ASSUME NEW n \in K PROVE \E k \in K : rank[k] + 1 = n
  <2>1. n - 1 \in 0 .. Len(s) - 1
    BY <1>1
  <2>2. PICK k \in K : rank[k] = n - 1
    BY <1>9, <2>1
  <2>3. rank[k] + 1 = n
    BY <1>1, <2>2
  <2> QED BY <2>3
<1>13. ASSUME NEW n \in K PROVE S[n] \in Items
  BY <1>2, <1>11, <1>12
<1>14. S \in Seq(Items) /\ Len(S) = Len(s)
  <2>1. S \in [1 .. Len(s) -> Items]
    BY <1>7, <1>13
  <2> QED BY <1>1, <2>1
<1> QED BY <1>10, <1>11, <1>12, <1>14

\* What is left of the newest of a list is left of the newest of a part of it as well.
LEMMA PartKeepsNewest ==
  ASSUME NEW doc \in Seq(Items), NEW all, NEW some \in SUBSET all, NEW n \in Nat,
         NEW x \in ToSet(Cut(NewestFirst(Chosen(doc, all)), n)), x \in some
  PROVE  x \in ToSet(Cut(NewestFirst(Chosen(doc, some)), n))
<1> DEFINE s == Chosen(doc, all)
           t == Chosen(doc, some)
           S == NewestFirst(s)
           T == NewestFirst(t)
           pa(k) == Place(doc, all, k)
           pb(k) == Place(doc, some, k)
           Ka == At(doc, all)
           Kb == At(doc, some)
<1>1. /\ s \in Seq(Items) /\ IsFiniteSet(Ka)
      /\ \A k \in Ka : pa(k) \in 1 .. Len(s) /\ s[pa(k)] = doc[k]
      /\ \A k, l \in Ka : k < l => pa(k) < pa(l)
      /\ \A m \in 1 .. Len(s) : \E k \in Ka : pa(k) = m
  BY ChosenPlaces
<1>2. /\ t \in Seq(Items) /\ IsFiniteSet(Kb)
      /\ \A k \in Kb : pb(k) \in 1 .. Len(t) /\ t[pb(k)] = doc[k]
      /\ \A k, l \in Kb : k < l => pb(k) < pb(l)
      /\ \A m \in 1 .. Len(t) : \E k \in Kb : pb(k) = m
  BY ChosenPlaces
<1>3. Ka \subseteq Nat /\ Kb \subseteq Ka /\ \A k \in Ka : doc[k] \in some => k \in Kb
  BY DEF At
<1> HIDE DEF s, t, Ka, Kb, pa, pb
<1>4. /\ S \in Seq(Items) /\ Len(S) = Len(s)
      /\ \A k \in 1 .. Len(s) : Cardinality(Ahead(s, k)) + 1 \in 1 .. Len(s) /\ S[Cardinality(Ahead(s, k)) + 1] = s[k]
      /\ \A m \in 1 .. Len(s) : \E k \in 1 .. Len(s) : Cardinality(Ahead(s, k)) + 1 = m
  BY <1>1, NewestIs
<1>5. /\ T \in Seq(Items) /\ Len(T) = Len(t)
      /\ \A k \in 1 .. Len(t) : Cardinality(Ahead(t, k)) + 1 \in 1 .. Len(t) /\ T[Cardinality(Ahead(t, k)) + 1] = t[k]
  BY <1>2, NewestIs
<1>6. x \in ToSet(Cut(S, n))
  BY DEF s
<1>7. x \in {S[m] : m \in {j \in 1 .. Len(S) : j <= n}}
  <2> HIDE DEF S
  <2>1. ToSet(Cut(S, n)) = FirstOf(S, n)
    BY <1>4, CutIs
  <2> QED BY <1>6, <2>1 DEF FirstOf
<1> HIDE DEF S, T
<1>8. PICK m \in 1 .. Len(s) : m <= n /\ x = S[m]
  BY <1>4, <1>7
<1>9. PICK i \in 1 .. Len(s) : Cardinality(Ahead(s, i)) + 1 = m
  BY <1>4, <1>8
<1>10. PICK k \in Ka : pa(k) = i
  BY <1>1, <1>9
<1>11. s[i] = x /\ doc[k] = x /\ k \in Kb
  BY <1>1, <1>3, <1>4, <1>8, <1>9, <1>10
<1> DEFINE j == pb(k)
<1>12. j \in 1 .. Len(t) /\ t[j] = x
  BY <1>2, <1>11
\* Whatever is ahead in the part was ahead in the whole.
<1>13. Cardinality(Ahead(t, j)) <= Cardinality(Ahead(s, i))
  <2> DEFINE back(l) == CHOOSE q \in Kb : pb(q) = l
             f == [l \in Ahead(t, j) |-> pa(back(l))]
  <2>1. ASSUME NEW l \in Ahead(t, j) PROVE back(l) \in Kb /\ pb(back(l)) = l /\ f[l] \in Ahead(s, i) /\ f[l] = pa(back(l))
    <3>1. l \in 1 .. Len(t) /\ BeforeIn(t, l, j)
      BY <1>2 DEF Ahead
    <3>2. back(l) \in Kb /\ pb(back(l)) = l
      BY <1>2, <3>1
    <3> DEFINE q == back(l)
    <3> HIDE DEF back
    <3>3. t[l] = doc[q] /\ s[pa(q)] = doc[q] /\ pa(q) \in 1 .. Len(s) /\ q \in Ka /\ k \in Ka
      BY <1>1, <1>2, <1>3, <3>2
    <3>4. l < j => pa(q) < i
      <4>1. ASSUME l < j PROVE pa(q) < i
        <5>1. q \in Nat /\ k \in Nat /\ l \in Nat /\ j \in Nat
          <6>1. q \in Nat /\ k \in Nat
            BY <1>3, <3>3
          <6>2. l \in Nat /\ j \in Nat
            BY <1>12, <3>1
          <6> QED BY <6>1, <6>2
        <5>2. k < q => j < l
          BY <1>2, <1>11, <3>2
        <5>3. q # k
          BY <4>1, <5>1, <3>2
        <5>4. q < k
          BY <4>1, <5>1, <5>2, <5>3
        <5> QED BY <1>1, <1>10, <3>3, <5>4
      <4> QED BY <4>1
    <3>5. BeforeIn(s, pa(q), i)
      BY <1>11, <1>12, <3>1, <3>3, <3>4 DEF BeforeIn
    <3>6. pa(q) \in Ahead(s, i)
      BY <1>1, <3>3, <3>5 DEF Ahead
    <3> QED BY <3>2, <3>6
  <2>2. \A a, b \in Ahead(t, j) : f[a] = f[b] => a = b
    <3> SUFFICES ASSUME NEW a \in Ahead(t, j), NEW b \in Ahead(t, j), f[a] = f[b] PROVE a = b
      OBVIOUS
    <3> HIDE DEF f, back
    <3>1. back(a) \in Ka /\ back(b) \in Ka /\ pa(back(a)) = pa(back(b)) /\ pb(back(a)) = a /\ pb(back(b)) = b
      BY <1>3, <2>1
    <3>2. pa(back(a)) \in Nat
      BY <1>1, <3>1
    <3>3. ~(back(a) < back(b)) /\ ~(back(b) < back(a))
      BY <1>1, <3>1, <3>2
    <3>5. back(a) \in Nat /\ back(b) \in Nat
      BY <1>3, <3>1
    <3>4. back(a) = back(b)
      BY <3>3, <3>5
    <3> QED BY <3>1, <3>4
  <2>3. DOMAIN f = Ahead(t, j) /\ f \in [Ahead(t, j) -> Ahead(s, i)]
    BY <2>1
  <2> HIDE DEF f
  <2>4. f \in Injection(Ahead(t, j), Ahead(s, i))
    BY <2>2, <2>3 DEF Injection, IsInjective
  <2>5. IsFiniteSet(Ahead(s, i))
    BY <1>1, AheadFinite
  <2> QED BY <2>4, <2>5, FS_Injection
<1>14. Cardinality(Ahead(t, j)) + 1 \in {z \in 1 .. Len(T) : z <= n} /\ T[Cardinality(Ahead(t, j)) + 1] = x
  <2> DEFINE c == Cardinality(Ahead(t, j))
             d == Cardinality(Ahead(s, i))
  <2>1. c + 1 \in 1 .. Len(T) /\ T[c + 1] = x
    BY <1>5, <1>12
  <2>2. c <= d /\ d + 1 = m /\ m <= n
    BY <1>8, <1>9, <1>13
  <2>3. c \in Nat /\ d \in Nat
    BY <1>1, <1>2, AheadFinite
  <2> HIDE DEF c, d
  <2>4. c + 1 <= n
    BY <2>2, <2>3
  <2> QED BY <2>1, <2>4 DEF c
<1>15. T \in Seq(Items) /\ n \in Nat
  BY <1>5
<1>16. x \in ToSet(Cut(T, n))
  BY <1>14, <1>15, CutHas
<1> QED BY <1>16 DEF T, t

\* The same of a list that is not put in order.
LEMMA PartKeepsFirst ==
  ASSUME NEW doc \in Seq(Items), NEW all, NEW some \in SUBSET all, NEW n \in Nat,
         NEW x \in ToSet(Cut(Chosen(doc, all), n)), x \in some
  PROVE  x \in ToSet(Cut(Chosen(doc, some), n))
<1> DEFINE s == Chosen(doc, all)
           t == Chosen(doc, some)
<1>1. s \in Seq(Items) /\ \A m \in 1 .. Len(s) : \E k \in At(doc, all) : Place(doc, all, k) = m /\ s[m] = doc[k]
  BY ChosenPlaces
<1>2. t \in Seq(Items) /\ \A k \in At(doc, some) : Place(doc, some, k) \in 1 .. Len(t) /\ t[Place(doc, some, k)] = doc[k]
  BY ChosenPlaces
<1>x. x \in ToSet(Cut(s, n))
  OBVIOUS
<1> HIDE DEF s, t
<1>3. x \in FirstOf(s, n)
  BY <1>1, <1>x, CutIs
<1>4. PICK m \in 1 .. Len(s) : m <= n /\ x = s[m]
  BY <1>3 DEF FirstOf
<1>5. PICK k \in At(doc, all) : Place(doc, all, k) = m /\ s[m] = doc[k]
  BY <1>1
<1>6. k \in At(doc, some) /\ k \in Nat
  BY <1>4, <1>5 DEF At
<1>7. Place(doc, some, k) <= Place(doc, all, k)
  <2> DEFINE P == {l \in 1 .. k : doc[l] \in some}
             Q == {l \in 1 .. k : doc[l] \in all}
  <2>1. P \subseteq Q /\ Q \subseteq 1 .. k /\ IsFiniteSet(1 .. k)
    BY <1>6, FS_Interval
  <2>2. Place(doc, some, k) = Cardinality(P) /\ Place(doc, all, k) = Cardinality(Q)
    BY DEF Place
  <2> HIDE DEF P, Q
  <2>3. IsFiniteSet(Q)
    BY <2>1, FS_Subset
  <2> QED BY <2>1, <2>2, <2>3, FS_Subset
<1> DEFINE c == Place(doc, some, k)
<1>8. c \in 1 .. Len(t) /\ t[c] = x
  BY <1>2, <1>4, <1>5, <1>6
<1>9. c <= n
  <2>1. c \in Nat /\ m \in Nat /\ c <= m
    BY <1>5, <1>7, <1>8
  <2> HIDE DEF c
  <2> QED BY <1>4, <2>1
<1> HIDE DEF c
<1>10. t[c] \in ToSet(Cut(t, n))
  BY <1>2, <1>8, <1>9, CutHas
<1> QED BY <1>8, <1>10 DEF t

-----------------------------------------------------------------------------
\* What an answer without items leaves unsaid of a document: nothing that would make an alert.
Spent(k, doc) == \A i \in ToSet(Seen(k, doc)) : ~(Passes(k, i) /\ Made(k, i))

LEMMA LimitPositive == ASSUME NEW k PROVE Limit(k) \in Nat /\ Limit(k) > 0
<1> DEFINE n == IF Setup.maxItems > 0 THEN Setup.maxItems ELSE 20
<1>1. Setup.maxItems \in Nat /\ Setup.window \in Nat
  BY FetchTyped
<1>2. n \in Nat /\ n > 0
  BY <1>1
<1>3. Limit(k) = IF k # "page" /\ Setup.window > 0 THEN Min({n, Setup.window}) ELSE n
  BY DEF Limit
<1> HIDE DEF n
<1>4. Min({n, Setup.window}) = IF n <= Setup.window THEN n ELSE Setup.window
  BY <1>1, <1>2, MinOf
<1> QED BY <1>1, <1>2, <1>3, <1>4

LEMMA CutGives ==
  ASSUME NEW s \in Seq(Items), NEW n \in Nat
  PROVE  Cut(s, n) \in Seq(Items) /\ ToSet(Cut(s, n)) \subseteq ToSet(s) /\ ((Cut(s, n) = <<>> /\ n > 0) => s = <<>>)
<1>1. ToSet(Cut(s, n)) = FirstOf(s, n)
  BY CutIs
<1>2. FirstOf(s, n) \subseteq ToSet(s)
  BY DEF FirstOf, ToSet
<1> QED BY <1>1, <1>2, CutIs

LEMMA NewestGives ==
  ASSUME NEW s \in Seq(Items)
  PROVE  NewestFirst(s) \in Seq(Items) /\ ToSet(NewestFirst(s)) \subseteq ToSet(s) /\ (NewestFirst(s) = <<>> => s = <<>>)
<1> DEFINE S == NewestFirst(s)
<1>1. /\ S \in Seq(Items) /\ Len(S) = Len(s)
      /\ \A k \in 1 .. Len(s) : Cardinality(Ahead(s, k)) + 1 \in 1 .. Len(s) /\ S[Cardinality(Ahead(s, k)) + 1] = s[k]
      /\ \A n \in 1 .. Len(s) : \E k \in 1 .. Len(s) : Cardinality(Ahead(s, k)) + 1 = n
  BY NewestIs
<1> HIDE DEF S
<1>2. \A n \in 1 .. Len(s) : \E k \in 1 .. Len(s) : S[n] = s[k]
  BY <1>1
<1>3. ToSet(S) = {S[n] : n \in 1 .. Len(s)} /\ ToSet(s) = {s[n] : n \in 1 .. Len(s)}
  <2>1. DOMAIN S = 1 .. Len(s) /\ DOMAIN s = 1 .. Len(s)
    BY <1>1
  <2> QED BY <2>1 DEF ToSet
<1>4. ToSet(S) \subseteq ToSet(s)
  BY <1>2, <1>3
<1>5. S = <<>> => s = <<>>
  BY <1>1
<1> QED BY <1>1, <1>4, <1>5 DEF S

LEMMA Within ==
  ASSUME NEW s \in Seq(Items), NEW keep, NEW n \in Nat, NEW i \in ToSet(Cut(NewestFirst(Chosen(s, keep)), n))
  PROVE  i \in ToSet(s) /\ i \in keep
<1> DEFINE c == Chosen(s, keep)
           S == NewestFirst(c)
<1>1. c \in Seq(Items) /\ ToSet(c) = {j \in ToSet(s) : j \in keep}
  BY ChosenTyped, ChosenGives
<1> HIDE DEF c
<1>2. S \in Seq(Items) /\ ToSet(S) \subseteq ToSet(c)
  BY <1>1, NewestGives
<1>3. i \in ToSet(Cut(S, n))
  BY DEF c
<1> HIDE DEF S
<1>4. ToSet(Cut(S, n)) \subseteq ToSet(S)
  BY <1>2, CutGives
<1> QED BY <1>1, <1>2, <1>3, <1>4

LEMMA ItemOf == ASSUME NEW s \in Seq(Items), NEW i \in ToSet(s) PROVE i \in Items
  BY DEF ToSet

LEMMA FirstTyped ==
  ASSUME NEW k, NEW doc \in Seq(Items)
  PROVE  First(k, doc) \in Seq(Items) /\ (k \notin PagedKinds => First(k, doc) = doc)
<1>1. PageSize \in Nat
  BY FetchTyped
<1> QED BY <1>1, CutGives DEF First

\* What is seen is of the document, or of its first page.
LEMMA SeenWithin ==
  ASSUME NEW k, NEW doc \in Seq(Items), NEW i \in ToSet(Seen(k, doc))
  PROVE  i \in ToSet(First(k, doc)) /\ i \in Items
<1> DEFINE page == First(k, doc)
           let  == IF k \in Filtered THEN Chosen(page, Admitted) ELSE page
           sorted == IF k \in {"feed", "channel"} THEN NewestFirst(let) ELSE let
<1>1. page \in Seq(Items)
  BY FirstTyped
<1>s. i \in ToSet(Cut(sorted, Limit(k)))
  BY DEF Seen
<1> HIDE DEF page
<1>2. let \in Seq(Items) /\ ToSet(let) \subseteq ToSet(page)
  BY <1>1, ChosenTyped, ChosenGives
<1> HIDE DEF let
<1>3. sorted \in Seq(Items) /\ ToSet(sorted) \subseteq ToSet(let)
  BY <1>2, NewestGives
<1> HIDE DEF sorted
<1>4. i \in ToSet(sorted)
  BY <1>3, <1>s, LimitPositive, CutGives
<1>5. i \in ToSet(page)
  BY <1>2, <1>3, <1>4
<1> QED BY <1>1, <1>5, ItemOf DEF page

\* No alert of a list: none of its items makes one.
LEMMA NoneMade ==
  ASSUME NEW c, NEW s \in Seq(Items), As(c, s) = <<>>
  PROVE  \A i \in ToSet(s) : c \notin Trait[i].makes
<1> DEFINE makers == {i \in Items : c \in Trait[i].makes}
<1>1. Chosen(s, makers) = <<>>
  BY DEF As
<1> HIDE DEF makers
<1>2. \A i \in ToSet(s) : i \notin makers
  BY <1>1, ChosenGives
<1>3. \A i \in ToSet(s) : i \in Items
  BY ItemOf
<1> QED BY <1>2, <1>3 DEF makers

\* fetchRSS and fetchTelegram: the newest of what the filters let in.
LEMMA SortedSpent ==
  ASSUME NEW k \in {"feed", "channel"}, NEW c, \A i \in Items : Made(k, i) <=> c \in Trait[i].makes,
         NEW doc \in Seq(Items), As(c, Cut(NewestFirst(Chosen(doc, Kept(k))), Limit(k))) = <<>>
  PROVE  Spent(k, doc)
<1> SUFFICES ASSUME NEW i \in ToSet(Seen(k, doc)), Passes(k, i), Made(k, i) PROVE FALSE
  BY DEF Spent
<1> DEFINE n == Limit(k)
           d == Cut(NewestFirst(Chosen(doc, Kept(k))), n)
<1>1. n \in Nat /\ n > 0
  BY LimitPositive
<1>2. i \in Items
  BY SeenWithin
<1>3. i \in Kept(k) /\ Kept(k) \in SUBSET Admitted
  BY DEF Passes, Filtered, Kept
<1>p. First(k, doc) = doc
  BY FirstTyped DEF PagedKinds
<1>4. i \in ToSet(Cut(NewestFirst(Chosen(doc, Admitted)), n))
  BY <1>p DEF Seen, Filtered
<1>d. As(c, d) = <<>>
  OBVIOUS
<1>5. i \in ToSet(d)
  <2> HIDE DEF n
  <2> QED BY <1>1, <1>3, <1>4, PartKeepsNewest
<1>6. d \in Seq(Items)
  <2> HIDE DEF n
  <2>1. Chosen(doc, Kept(k)) \in Seq(Items)
    BY ChosenTyped
  <2>2. NewestFirst(Chosen(doc, Kept(k))) \in Seq(Items)
    BY <2>1, NewestGives
  <2> QED BY <1>1, <2>2, CutGives
<1> HIDE DEF d
<1> QED BY <1>2, <1>5, <1>6, <1>d, NoneMade

\* fetchHTML: the first of what the filters let in.
LEMMA PageSpent ==
  ASSUME NEW doc \in Seq(Items), As("html", Cut(Chosen(doc, Kept("page")), Limit("page"))) = <<>>
  PROVE  Spent("page", doc)
<1> SUFFICES ASSUME NEW i \in ToSet(Seen("page", doc)), Passes("page", i), Made("page", i) PROVE FALSE
  BY DEF Spent
<1> DEFINE n == Limit("page")
           d == Cut(Chosen(doc, Kept("page")), n)
<1>1. n \in Nat
  BY LimitPositive
<1>3. i \in Kept("page") /\ Kept("page") \in SUBSET Admitted /\ "html" \in Trait[i].makes
  BY DEF Passes, Filtered, Kept, Made
<1>p. First("page", doc) = doc
  BY FirstTyped DEF PagedKinds
<1>4. i \in ToSet(Cut(Chosen(doc, Admitted), n))
  BY <1>p DEF Seen, Filtered
<1>d. As("html", d) = <<>>
  OBVIOUS
<1>5. i \in ToSet(d)
  <2> HIDE DEF n
  <2> QED BY <1>1, <1>3, <1>4, PartKeepsFirst
<1>6. d \in Seq(Items)
  <2> HIDE DEF n
  <2>1. Chosen(doc, Kept("page")) \in Seq(Items)
    BY ChosenTyped
  <2> QED BY <1>1, <2>1, CutGives
<1> HIDE DEF d
<1> QED BY <1>3, <1>5, <1>6, <1>d, NoneMade

\* The kinds without filters: nothing of what is seen makes an alert.
LEMMA OwnSpent ==
  ASSUME NEW k \in {"list", "details"} \cup PagedKinds, NEW doc \in Seq(Items),
         NEW s \in Seq(Items), ToSet(Seen(k, doc)) \subseteq ToSet(s), As("own", s) = <<>>
  PROVE  Spent(k, doc)
<1> SUFFICES ASSUME NEW i \in ToSet(Seen(k, doc)), Made(k, i) PROVE FALSE
  BY DEF Spent
<1>1. "own" \in Trait[i].makes
  BY DEF Made, PagedKinds
<1> QED BY <1>1, NoneMade

\* A cut of nothing but what makes an alert.
LEMMA CutAs ==
  ASSUME NEW k, NEW s \in Seq(Items), Cut(As("own", s), Limit(k)) = <<>>
  PROVE  As("own", s) = <<>>
<1>1. As("own", s) \in Seq(Items)
  BY ChosenTyped DEF As
<1> QED BY <1>1, LimitPositive, CutGives

LEMMA EmptySpent == ASSUME NEW k PROVE Spent(k, <<>>)
<1>1. <<>> \in Seq(Items) /\ PageSize \in Nat
  BY FetchTyped
<1>2. ToSet(<<>>) = {}
  BY DEF ToSet
<1>3. ToSet(First(k, <<>>)) = {}
  BY <1>1, <1>2, CutGives DEF First
<1> QED BY <1>1, <1>3, SeenWithin DEF Spent

LEMMA PagesSpent ==
  ASSUME NEW k \in PagedKinds, NEW doc \in Seq(Items), NEW n \in Nat \ {0},
         Cut(As("own", Cut(doc, n * PageSize)), Limit(k)) = <<>>
  PROVE  Spent(k, doc)
<1> DEFINE m == n * PageSize
<1>1. PageSize \in Nat /\ m \in Nat /\ m >= PageSize
  <2>1. PageSize \in Nat /\ n \in Nat /\ n - 1 \in Nat
    BY FetchTyped
  <2>2. \A x, y \in Nat : x * y \in Nat
    OBVIOUS
  <2>3. (n - 1) * PageSize \in Nat /\ m \in Nat
    BY <2>1, <2>2
  <2>4. m = (n - 1) * PageSize + PageSize
    BY <2>1
  <2> HIDE DEF m
  <2> QED BY <2>1, <2>3, <2>4
<1>5. Cut(As("own", Cut(doc, m)), Limit(k)) = <<>>
  BY DEF m
<1> HIDE DEF m
<1>2. Cut(doc, m) \in Seq(Items) /\ ToSet(Cut(doc, m)) = FirstOf(doc, m) /\ ToSet(Cut(doc, PageSize)) = FirstOf(doc, PageSize)
  BY <1>1, CutIs
<1>3. FirstOf(doc, PageSize) \subseteq FirstOf(doc, m)
  <2>1. \A j \in 1 .. Len(doc) : j <= PageSize => j <= m
    BY <1>1
  <2> QED BY <2>1 DEF FirstOf
<1>4. ToSet(Seen(k, doc)) \subseteq ToSet(Cut(doc, m))
  BY <1>2, <1>3, SeenWithin DEF First
<1>6. As("own", Cut(doc, m)) = <<>>
  BY <1>2, <1>5, CutAs
<1> QED BY <1>2, <1>4, <1>6, OwnSpent

LEMMA OutcomeSpent ==
  ASSUME NEW k \in Kinds \ {"merged", "x", "versioned"}, ~Unkeyed(k), NEW doc \in Seq(Items),
         NEW o \in Outcomes(k, doc), o.error = None, o.items = <<>>
  PROVE  Spent(k, doc)
<1> USE DEF Failed, Gives, Errors, None
<1>0. \A e \in Errors : Failed(e).error # None
  OBVIOUS
<1>1. CASE k = "feed"
  <2>1. o \in Feed(doc)
    BY <1>1 DEF Outcomes, PagedKinds
  <2>2. As("rss", Cut(NewestFirst(Chosen(doc, Kept("feed"))), Limit("feed"))) = <<>>
    BY <2>1 DEF Feed, Answers
  <2>3. \A i \in Items : Made(k, i) <=> "rss" \in Trait[i].makes
    BY <1>1 DEF Made
  <2> QED BY <1>1, <2>2, <2>3, SortedSpent
<1>2. CASE k = "page"
  <2>1. o \in Page(doc)
    BY <1>2 DEF Outcomes, PagedKinds
  <2>2. As("html", Cut(Chosen(doc, Kept("page")), Limit("page"))) = <<>>
    BY <2>1 DEF Page, Answers
  <2> QED BY <1>2, <2>2, PageSpent
<1>3. CASE k = "channel"
  <2>1. o \in Channel(doc)
    BY <1>3 DEF Outcomes, PagedKinds
  <2>2. As("html", Cut(NewestFirst(Chosen(doc, Kept("channel"))), Limit("channel"))) = <<>>
    BY <2>1 DEF Channel, Answers
  <2>3. \A i \in Items : Made(k, i) <=> "html" \in Trait[i].makes
    BY <1>3 DEF Made
  <2> QED BY <1>3, <2>2, <2>3, SortedSpent
<1>4. CASE k = "list"
  <2>1. o \in List(doc)
    BY <1>4 DEF Outcomes, PagedKinds
  <2>2. Cut(As("own", doc), Limit("list")) = <<>>
    BY <2>1 DEF List, Answers
  <2>3. As("own", doc) = <<>>
    BY <2>2, CutAs
  <2>4. First(k, doc) = doc
    BY <1>4, FirstTyped DEF PagedKinds
  <2>5. ToSet(Seen(k, doc)) \subseteq ToSet(doc)
    BY <2>4, SeenWithin
  <2> QED BY <1>4, <2>3, <2>5, OwnSpent
<1>5. CASE k \in PagedKinds
  <2>1. o \in Pages(k, doc)
    BY <1>5 DEF Outcomes, Paged, PagedKinds
  <2>2. PICK n \in Nat \ {0} : Cut(As("own", Cut(doc, n * PageSize)), Limit(k)) = <<>>
    <3> DEFINE T == {1} \cup {n \in 1 .. Len(doc) : (n - 1) * PageSize < Len(doc)}
               last == Max(T)
    <3>1. T \in SUBSET Nat /\ 1 \in T /\ Len(doc) + 1 \in Nat /\ \A y \in T : y <= Len(doc) + 1
      OBVIOUS
    <3>2. o \in {Failed(e) : e \in Errors} \cup {Gives(Cut(As("own", Cut(doc, n * PageSize)), Limit(k))) : n \in 1 .. last}
      BY <2>1 DEF Pages
    <3> HIDE DEF T
    <3>3. last \in Nat
      BY <3>1, MaxOf
    <3> HIDE DEF last
    <3>4. o \notin {Failed(e) : e \in Errors}
      BY <1>0
    <3>5. PICK n \in 1 .. last : o = Gives(Cut(As("own", Cut(doc, n * PageSize)), Limit(k)))
      BY <3>2, <3>4
    <3>6. n \in Nat \ {0}
      BY <3>3
    <3> QED BY <3>5, <3>6
  <2> QED BY <1>5, <2>2, PagesSpent
<1>6. CASE k = "details"
  <2> DEFINE summaries == Cut(doc, Limit("details"))
             given == {Chosen(summaries, answered) : answered \in SUBSET ToSet(summaries)}
  <2>1. o \in Details(doc)
    BY <1>6 DEF Outcomes, PagedKinds
  <2>2. o \in {Failed(e) : e \in Errors}
           \cup {IF As("own", s) = <<>> /\ s # summaries THEN Failed("timeout") ELSE Gives(As("own", s)) : s \in given}
    BY <2>1 DEF Details
  <2> HIDE DEF summaries, given
  <2>3. PICK s \in given : o = IF As("own", s) = <<>> /\ s # summaries THEN Failed("timeout") ELSE Gives(As("own", s))
    BY <2>2, <1>0
  <2>4. As("own", summaries) = <<>>
    BY <1>0, <2>3
  <2>5. summaries \in Seq(Items)
    BY LimitPositive, CutGives DEF summaries
  <2>6. First(k, doc) = doc
    BY <1>6, FirstTyped DEF PagedKinds
  <2>7. Seen(k, doc) = summaries
    BY <1>6, <2>6 DEF Seen, Filtered, summaries
  <2> QED BY <1>6, <2>4, <2>5, <2>7, OwnSpent
<1>7. k \in {"feed", "page", "channel", "list", "details"} \cup PagedKinds
  BY FetchTyped
<1> QED BY <1>1, <1>2, <1>3, <1>4, <1>5, <1>6, <1>7

\* A fetch is of the kind that its phase belongs to, and what was answered with nothing had nothing.
EmptyInv ==
    /\ kind \in Kinds /\ site.doc \in Seq(Items)
    /\ pc = "fetch" => kind # "versioned"
    /\ pc \in {"ask", "check", "index", "stream"} => kind = "versioned"
    /\ EmptyMeansEmpty

LEMMA EmptyInit == FetchInit => EmptyInv
  BY FetchTyped DEF FetchInit, EmptyInv, EmptyMeansEmpty, NoReply

LEMMA EmptyStep == EmptyInv /\ [FetchNext]_fetchVars => EmptyInv'
<1> SUFFICES ASSUME EmptyInv, [FetchNext]_fetchVars PROVE EmptyInv'
  OBVIOUS
<1> USE DEF EmptyInv
<1>0. /\ EmptyMeansEmpty <=> ((reply.status = "ok" /\ reply.items = <<>> /\ kind \notin {"merged", "x"} /\ ~Unkeyed(kind))
                                => Spent(kind, reply.doc))
      /\ EmptyMeansEmpty' <=> ((reply'.status = "ok" /\ reply'.items = <<>> /\ kind' \notin {"merged", "x"} /\ ~Unkeyed(kind'))
                                 => Spent(kind', reply'.doc))
  BY DEF EmptyMeansEmpty, Spent
<1>q. (reply' = reply \/ reply'.status # "ok") /\ kind' = kind => EmptyMeansEmpty'
  BY <1>0
<1>1. CASE UNCHANGED fetchVars
  BY <1>1, <1>q DEF fetchVars
<1>2. CASE Publish
  <2>1. site'.doc \in Seq(Items) /\ UNCHANGED <<kind, pc, reply>>
    BY <1>2, FetchTyped DEF Publish
  <2> QED BY <1>q, <2>1
<1>3. CASE Start
  <2>1. UNCHANGED <<kind, site>> /\ pc' = (IF kind # "versioned" THEN "fetch" ELSE IF mark.ok /\ mark.version # 0 THEN "ask" ELSE "index")
        /\ reply'.status # "ok"
    BY <1>3 DEF Start, NoReply
  <2> QED BY <1>q, <2>1
<1>4. CASE NotModified
  <2>1. UNCHANGED <<kind, site>> /\ pc' = "idle" /\ reply'.status # "ok"
    BY <1>4 DEF NotModified, Answer
  <2> QED BY <1>q, <2>1
<1>5. CASE Ask
  <2>1. UNCHANGED <<kind, site, reply>> /\ pc = "ask" /\ pc' = "check"
    BY <1>5 DEF Ask
  <2> QED BY <1>q, <2>1
<1>6. CASE Check
  <2>1. UNCHANGED <<kind, site>> /\ pc = "check"
    BY <1>6 DEF Check
  <2>2. (pc' = "idle" /\ reply'.status # "ok") \/ (pc' = "index" /\ reply' = reply)
    BY <1>6 DEF Check, Answer
  <2> QED BY <1>q, <2>1, <2>2
<1>7. ASSUME NEW e, Fail(e), UNCHANGED <<kind, site>>, pc \in {"index", "stream", "fetch"} PROVE EmptyInv'
  <2>1. (pc' = "idle" /\ reply'.status # "ok") \/ (pc' = (IF kind = "versioned" THEN "index" ELSE "fetch") /\ reply' = reply)
    BY <1>7 DEF Fail, Answer
  <2> QED BY <1>7, <1>q, <2>1
<1>8. CASE Index
  <2>1. UNCHANGED <<kind, site>> /\ pc = "index"
    BY <1>8 DEF Index
  <2>2. (\E e : Fail(e)) \/ (pc' = "stream" /\ reply' = reply)
    BY <1>8 DEF Index
  <2>3. CASE pc' = "stream" /\ reply' = reply
    BY <1>q, <2>1, <2>3
  <2> QED BY <1>7, <2>1, <2>2, <2>3
<1>9. CASE Stream
  <2>1. UNCHANGED <<kind, site>> /\ pc = "stream" /\ kind = "versioned"
    BY <1>9 DEF Stream
  <2>2. (\E e : Fail(e)) \/ Through(Cut(site.doc, Limit(kind)), asked.edition, asked.index)
    BY <1>9 DEF Stream
  <2>3. CASE Through(Cut(site.doc, Limit(kind)), asked.edition, asked.index)
    <3>1. pc' = "idle" /\ reply'.doc = site.doc
          /\ (reply'.status # "ok" \/ reply'.items = Cut(site.doc, Limit(kind)))
      BY <2>3 DEF Through, Answer
    <3>2. (reply'.status = "ok" /\ reply'.items = <<>>) => site.doc = <<>>
      BY <3>1, LimitPositive, CutGives
    <3>3. (reply'.status = "ok" /\ reply'.items = <<>>) => Spent(kind, reply'.doc)
      BY <3>1, <3>2, EmptySpent
    <3> QED BY <1>0, <2>1, <3>1, <3>3
  <2> QED BY <1>7, <2>1, <2>2, <2>3
<1>10. CASE Fetch
  <2>1. UNCHANGED <<kind, site>> /\ pc = "fetch" /\ kind # "versioned"
    BY <1>10 DEF Fetch
  <2>2. PICK o \in Outcomes(kind, site.doc) :
           Fail(o.error) \/ (o.error = None /\ Through(o.items, 0, 0))
    BY <1>10 DEF Fetch
  <2>3. CASE o.error = None /\ Through(o.items, 0, 0)
    <3>1. pc' = "idle" /\ reply'.doc = site.doc /\ (reply'.status # "ok" \/ reply'.items = o.items)
      BY <2>3 DEF Through, Answer
    <3>2. (reply'.status = "ok" /\ reply'.items = <<>> /\ kind \notin {"merged", "x"} /\ ~Unkeyed(kind))
            => Spent(kind, reply'.doc)
      BY <2>1, <2>3, <3>1, OutcomeSpent
    <3> QED BY <1>0, <2>1, <3>1, <3>2
  <2> QED BY <1>7, <2>1, <2>2, <2>3
<1> QED BY <1>1, <1>2, <1>3, <1>4, <1>5, <1>6, <1>8, <1>9, <1>10 DEF FetchNext

\* Nothing means nothing: of a source of any kind that has the credentials it needs, with any
\* documents, filters, dictionaries and limits, whichever requests failed and however often the site
\* changed, an ok answer without items says that what the fetcher looks at held nothing to make an
\* alert of.
THEOREM EmptyWasEmpty == FetchSpec => []EmptyMeansEmpty
<1>1. EmptyInv => EmptyMeansEmpty
  BY DEF EmptyInv
<1> QED BY <1>1, EmptyInit, EmptyStep, PTL DEF FetchSpec

-----------------------------------------------------------------------------
\* What the noise gate lets through.
LEMMA PassingTyped ==
  ASSUME NEW A, NEW doc \in Seq(A), NEW s
  PROVE  Passing(s, doc) \in Seq(A)
  BY ChosenTyped DEF Passing

\* An item that is let in finds a decision under its own title and link, of an item that bears both.
LEMMA DecisionFound ==
  ASSUME NEW s, NEW A, NEW doc \in Seq(A), NEW i \in ToSet(Passing(s, doc))
  PROVE  \E j \in ToSet(Passing(s, doc)) :
            /\ Entries[j].title = Entries[i].title /\ Entries[j].link = Entries[i].link
            /\ Decision(s, doc, Entries[i].title, Entries[i].link) = Evaluate(s, j)
<1> DEFINE p == Passing(s, doc)
           I == {n \in 1 .. Len(p) : Entries[p[n]].title = Entries[i].title /\ Entries[p[n]].link = Entries[i].link}
<1>1. p \in Seq(A)
  BY PassingTyped
<1>2. Decision(s, doc, Entries[i].title, Entries[i].link) =
        LET last == IF I # {} THEN Max(I) ELSE 0 IN IF last = 0 THEN "none" ELSE Evaluate(s, p[last])
  BY DEF Decision, SelectLastInSeq
<1> HIDE DEF p
<1>3. PICK n \in 1 .. Len(p) : p[n] = i
  BY <1>1 DEF ToSet, p
<1>4. I # {} /\ I \in SUBSET Nat /\ Len(p) \in Nat /\ \A k \in I : k <= Len(p)
  BY <1>1, <1>3
<1>5. PICK m \in I : m = Max(I)
  BY <1>4, MaxOf
<1> HIDE DEF I
<1>a. Max(I) \in I
  BY <1>5
<1>6. /\ Max(I) \in 1 .. Len(p) /\ Max(I) # 0
      /\ Entries[p[Max(I)]].title = Entries[i].title /\ Entries[p[Max(I)]].link = Entries[i].link
  <2> DEFINE top == Max(I)
  <2>1. top \in I
    BY <1>a
  <2> HIDE DEF top
  <2>2. /\ top \in 1 .. Len(p) /\ top # 0
        /\ Entries[p[top]].title = Entries[i].title /\ Entries[p[top]].link = Entries[i].link
    BY <1>4, <2>1 DEF I
  <2> QED BY <2>2 DEF top
<1>7. p[Max(I)] \in ToSet(p)
  BY <1>1, <1>6 DEF ToSet
<1> QED BY <1>2, <1>4, <1>6, <1>7 DEF p

LEMMA DraftsTyped ==
  ASSUME NEW s \in DOMAIN Origins, NEW doc \in Documents[s], NEW drafts \in Drafts(s, doc)
  PROVE  /\ doc \in Seq(DOMAIN Entries)
         /\ \E k \in Nat : DOMAIN drafts = 1 .. k
         /\ \A n \in DOMAIN drafts : drafts[n].item \in ToSet(Passing(s, doc))
<1>1. doc \in Seq(DOMAIN Entries)
  BY FilterTyped
<1> DEFINE p == Passing(s, doc)
<1>2. p \in Seq(DOMAIN Entries)
  BY <1>1, PassingTyped
<1> DEFINE P == ToSet(p)
<1>3. p \in Seq(P) /\ \A n \in DOMAIN p : p[n] \in P
  BY <1>2 DEF ToSet
<1> HIDE DEF P, p
<1>4. CASE drafts = Plain(s, doc)
  <2>1. drafts = [n \in DOMAIN p |-> [item |-> p[n], title |-> Entries[p[n]].title, category |-> Origins[s].category]]
    BY <1>4 DEF Plain, p
  <2>2. DOMAIN drafts = DOMAIN p /\ \A n \in DOMAIN p : drafts[n].item = p[n]
    BY <2>1
  <2> QED BY <1>1, <1>3, <2>2 DEF p, P
<1>5. ASSUME NEW answer \in Replies(doc), drafts = Classified(s, doc, answer)
      PROVE  (\E k \in Nat : DOMAIN drafts = 1 .. k) /\ \A n \in DOMAIN drafts : drafts[n].item \in P
  <2> DEFINE yes == Chosen(p, {i \in ToSet(doc) : answer[i].yes})
  <2>1. yes \in Seq(P)
    BY SMTT(60), <1>3, ChosenTyped
  <2>2. drafts = [n \in DOMAIN yes |-> [item     |-> yes[n],
                           title    |-> IF answer[yes[n]].translated THEN Translated[yes[n]] ELSE Entries[yes[n]].title,
                           category |-> answer[yes[n]].category]]
    BY <1>5 DEF Classified, p
  <2> HIDE DEF yes
  <2>3. DOMAIN drafts = DOMAIN yes /\ \A n \in DOMAIN yes : drafts[n].item = yes[n]
    BY <2>2
  <2> QED BY <2>1, <2>3
<1>6. drafts = Plain(s, doc) \/ \E answer \in Replies(doc) : drafts = Classified(s, doc, answer)
  BY DEF Drafts
<1> QED BY <1>1, <1>4, <1>5, <1>6 DEF p, P

\* An alert of two lists one after the other is of one of them.
LEMMA Joined ==
  ASSUME NEW s, NEW t, s = [n \in DOMAIN s |-> s[n]], t = [n \in DOMAIN t |-> t[n]],
         \E k \in Nat : DOMAIN s = 1 .. k, \E k \in Nat : DOMAIN t = 1 .. k
  PROVE  /\ \E k \in Nat : DOMAIN (s \o t) = 1 .. k
         /\ s \o t = [n \in DOMAIN (s \o t) |-> (s \o t)[n]]
         /\ \A n \in DOMAIN (s \o t) : \/ n \in DOMAIN s /\ (s \o t)[n] = s[n]
                                       \/ \E m \in DOMAIN t : (s \o t)[n] = t[m]
<1> DEFINE A == {s[n] : n \in DOMAIN s} \cup {t[n] : n \in DOMAIN t}
<1>1. s \in Seq(A) /\ t \in Seq(A)
  OBVIOUS
<1> HIDE DEF A
<1>2. s \o t \in Seq(A)
  BY <1>1
<1>3. \A n \in 1 .. Len(s) + Len(t) : (s \o t)[n] = IF n <= Len(s) THEN s[n] ELSE t[n - Len(s)]
  BY <1>1
<1>4. Len(s \o t) = Len(s) + Len(t) /\ Len(s) \in Nat /\ Len(t) \in Nat
  BY <1>1
<1>5. ASSUME NEW n \in DOMAIN (s \o t)
      PROVE  \/ n \in DOMAIN s /\ (s \o t)[n] = s[n]
             \/ \E m \in DOMAIN t : (s \o t)[n] = t[m]
  <2>1. n \in 1 .. Len(s) + Len(t)
    BY <1>2, <1>4
  <2>2. CASE n <= Len(s)
    BY <1>1, <1>3, <1>4, <2>1, <2>2
  <2>3. CASE n > Len(s)
    <3>1. n - Len(s) \in 1 .. Len(t) /\ (s \o t)[n] = t[n - Len(s)]
      BY <1>3, <1>4, <2>1, <2>3
    <3>2. n - Len(s) \in DOMAIN t
      BY <1>1, <3>1
    <3> QED BY <3>1, <3>2
  <2> QED BY <1>4, <2>1, <2>2, <2>3
<1>6. \E k \in Nat : DOMAIN (s \o t) = 1 .. k
  BY <1>2
<1>7. s \o t = [n \in DOMAIN (s \o t) |-> (s \o t)[n]]
  <2>1. \A u \in Seq(A) : u = [n \in DOMAIN u |-> u[n]]
    OBVIOUS
  <2> QED BY <1>2, <2>1
<1> QED BY <1>5, <1>6, <1>7

-----------------------------------------------------------------------------
\* What has been read of the source of an alert is what it was made of.
Judged(a) == /\ a = [f \in {"item", "source", "title", "verdict", "lane", "category", "severity"} |-> a[f]]
             /\ a.source \in DOMAIN Origins /\ read[a.source] # Unread
             /\ a.item \in DOMAIN Entries /\ a.lane = ""
             /\ JudgedNoise(a) /\ a.title = Entries[a.item].title => a.severity = "info"

NoiseInv ==
    /\ read = [s \in DOMAIN Origins |-> read[s]]
    /\ \E k \in Nat : DOMAIN collected = 1 .. k
    /\ collected = [n \in DOMAIN collected |-> collected[n]]
    /\ \A a \in {collected[n] : n \in DOMAIN collected} : Judged(a)
    /\ NoiseStaysInfo
    /\ shown \cup hidden # {} => Answered

\* An alert that is made of what the gate let in.
LEMMA AlertJudged ==
  ASSUME NEW s \in DOMAIN Origins, NEW doc \in Documents[s], NEW drafts \in Drafts(s, doc), NEW n \in DOMAIN drafts,
         read'[s] = doc, doc # Unread, UNCHANGED gate, NEW a, a = Alert(s, doc, drafts[n])
  PROVE  Judged(a)'
<1> DEFINE d == drafts[n]
<1>1. d.item \in ToSet(Passing(s, doc)) /\ doc \in Seq(DOMAIN Entries)
  BY DraftsTyped
<1> HIDE DEF d
<1>e. d.item \in DOMAIN Entries
  <2>1. Passing(s, doc) \in Seq(DOMAIN Entries)
    BY <1>1, PassingTyped
  <2> QED BY <1>1, <2>1 DEF ToSet
<1>2. /\ a.source = s /\ a.item = d.item /\ a.title = d.title /\ a.lane = ""
      /\ a = [f \in {"item", "source", "title", "verdict", "lane", "category", "severity"} |-> a[f]]
  BY DEF Alert, d
<1> SUFFICES ASSUME JudgedNoise(a)', a.title = Entries[a.item].title
             PROVE  a.severity = "info"
  BY <1>2, <1>e DEF Judged, d
<1>3. PICK j \in ToSet(Passing(s, doc)) :
        /\ Entries[j].title = Entries[d.item].title /\ Entries[j].link = Entries[d.item].link
        /\ Decision(s, doc, Entries[d.item].title, Entries[d.item].link) = Evaluate(s, j)
  BY <1>1, DecisionFound
<1>4. \A i : Evaluate(s, i)' = Evaluate(s, i)
  BY DEF Evaluate
<1>5. Passing(s, doc)' = Passing(s, doc)
  BY <1>4 DEF Passing
<1>6. j \in Namesakes(a)'
  BY <1>2, <1>3, <1>5 DEF Namesakes
<1>7. Evaluate(s, j) = "downgrade"
  BY ZenonT(60), <1>2, <1>4, <1>6 DEF JudgedNoise
<1>8. Decision(s, doc, d.title, Entries[d.item].link) = "downgrade"
  BY <1>2, <1>3, <1>7
<1> QED BY <1>8 DEF Alert, d

LEMMA NoiseStep == NoiseInv /\ [FilterNext]_filterVars => NoiseInv'
<1> SUFFICES ASSUME NoiseInv, [FilterNext]_filterVars PROVE NoiseInv'
  OBVIOUS
<1>k. ASSUME NEW a, Judged(a), UNCHANGED gate, read'[a.source] = read[a.source] PROVE Judged(a)'
  <2>1. \A i : Evaluate(a.source, i)' = Evaluate(a.source, i)
    BY <1>k DEF Evaluate
  <2>2. JudgedNoise(a)' = JudgedNoise(a)
    BY <1>k, <2>1 DEF JudgedNoise, Namesakes, Passing
  <2> QED BY <1>k, <2>2 DEF Judged
<1>s. ASSUME UNCHANGED <<gate, read, shown>> PROVE NoiseStaysInfo'
  <2>1. \A a : JudgedNoise(a)' = JudgedNoise(a)
    <3>1. \A s, i : Evaluate(s, i)' = Evaluate(s, i)
      BY <1>s DEF Evaluate
    <3>2. \A s, doc : Passing(s, doc)' = Passing(s, doc)
      BY <3>1 DEF Passing
    <3> QED BY <1>s, <3>1, <3>2 DEF JudgedNoise, Namesakes
  <2> QED BY <1>s, <2>1 DEF NoiseInv, NoiseStaysInfo
<1>1. CASE UNCHANGED filterVars
  <2>1. UNCHANGED <<gate, read, shown, hidden, collected>>
    BY <1>1 DEF filterVars
  <2>2. \A a \in {collected[n] : n \in DOMAIN collected} : Judged(a)'
    BY <1>k, <2>1 DEF NoiseInv
  <2>3. Answered' = Answered
    BY <2>1 DEF Answered
  <2> QED BY <1>s, <2>1, <2>2, <2>3 DEF NoiseInv
<1>2. ASSUME NEW s \in DOMAIN Origins, Read(s) PROVE NoiseInv'
  <2>1. PICK doc \in Documents[s] : \E drafts \in Drafts(s, doc) :
                 /\ read'  = [read EXCEPT ![s] = doc]
                 /\ collected' = collected \o [n \in DOMAIN drafts |-> Alert(s, doc, drafts[n])]
    BY <1>2 DEF Read
  <2>2. PICK drafts \in Drafts(s, doc) :
                 /\ read'  = [read EXCEPT ![s] = doc]
                 /\ collected' = collected \o [n \in DOMAIN drafts |-> Alert(s, doc, drafts[n])]
    BY <2>1
  <2>3. read[s] = Unread /\ UNCHANGED <<gate, shown, hidden>>
    BY <1>2 DEF Read
  <2>4. shown \cup hidden = {}
    BY <2>3 DEF NoiseInv, Answered
  <2>5. doc # Unread
    <3>1. doc \in Seq(DOMAIN Entries) /\ 0 \notin DOMAIN Entries
      BY FilterTyped
    <3>2. CASE doc = Unread
      <4>1. Len(doc) = 1 /\ doc[1] = 0
        BY <3>2 DEF Unread
      <4> DEFINE D == DOMAIN Entries
      <4>3. doc \in Seq(D) /\ Len(doc) = 1
        BY ONLY <3>1, <4>1
      <4> HIDE DEF D
      <4>4. \A k \in 1 .. Len(doc) : doc[k] \in D
        <5>1. doc \in Seq(D)
          BY ONLY <4>3
        <5> QED BY ONLY <5>1
      <4>5. 1 \in 1 .. Len(doc)
        BY ONLY <4>3
      <4>6. doc[1] \in DOMAIN Entries
        BY ONLY Zenon, <4>4, <4>5 DEF D
      <4> QED BY ONLY <3>1, <4>1, <4>6
    <3> QED BY <3>2
  <2>6. /\ read' = [r \in DOMAIN Origins |-> read'[r]] /\ read'[s] = doc
        /\ \A r \in DOMAIN Origins : r # s => read'[r] = read[r]
    BY <2>2 DEF NoiseInv
  <2> DEFINE new == [n \in DOMAIN drafts |-> Alert(s, doc, drafts[n])]
  <2>7. ASSUME NEW a, NEW n \in DOMAIN drafts, a = Alert(s, doc, drafts[n]) PROVE Judged(a)'
    BY <2>3, <2>5, <2>6, <2>7, AlertJudged
  <2>8. ASSUME NEW a \in {collected[n] : n \in DOMAIN collected} PROVE Judged(a)'
    <3>1. Judged(a)
      BY DEF NoiseInv
    <3>2. read'[a.source] = read[a.source]
      BY <2>3, <2>6, <3>1 DEF Judged
    <3> QED BY <1>k, <2>3, <3>1, <3>2
  <2>9. /\ \E k \in Nat : DOMAIN new = 1 .. k
        /\ new = [n \in DOMAIN new |-> new[n]]
        /\ \A n \in DOMAIN new : n \in DOMAIN drafts /\ new[n] = Alert(s, doc, drafts[n])
    <3>1. DOMAIN new = DOMAIN drafts
      OBVIOUS
    <3>2. \E k \in Nat : DOMAIN drafts = 1 .. k
      BY DraftsTyped
    <3> QED BY <3>1, <3>2
  <2>13. collected' = collected \o new
    BY <2>2
  <2> HIDE DEF new
  <2>10. /\ \E k \in Nat : DOMAIN collected' = 1 .. k
         /\ collected' = [n \in DOMAIN collected' |-> collected'[n]]
         /\ \A n \in DOMAIN collected' : \/ n \in DOMAIN collected /\ collected'[n] = collected[n]
                                         \/ \E m \in DOMAIN new : collected'[n] = new[m]
    <3>1. /\ \E k \in Nat : DOMAIN collected = 1 .. k
          /\ collected = [n \in DOMAIN collected |-> collected[n]]
      BY DEF NoiseInv
    <3>2. /\ \E k \in Nat : DOMAIN (collected \o new) = 1 .. k
          /\ collected \o new = [n \in DOMAIN (collected \o new) |-> (collected \o new)[n]]
          /\ \A n \in DOMAIN (collected \o new) :
                \/ n \in DOMAIN collected /\ (collected \o new)[n] = collected[n]
                \/ \E m \in DOMAIN new : (collected \o new)[n] = new[m]
      <4> HIDE DEF NoiseInv
      <4> QED BY SMTT(60), <2>9, <3>1, Joined
    <3> QED BY <2>13, <3>2
  <2>11. ASSUME NEW a \in {collected'[n] : n \in DOMAIN collected'} PROVE Judged(a)'
    <3>1. PICK n \in DOMAIN collected' : a = collected'[n]
      OBVIOUS
    <3>2. CASE n \in DOMAIN collected /\ a = collected[n]
      BY <2>8, <3>2
    <3>3. CASE \E m \in DOMAIN new : a = new[m]
      BY <2>7, <2>9, <3>3
    <3> QED BY <2>10, <3>1, <3>2, <3>3
  <2>12. NoiseStaysInfo' /\ shown' \cup hidden' = {}
    BY <2>3, <2>4 DEF NoiseStaysInfo
  <2> QED BY <2>6, <2>10, <2>11, <2>12 DEF NoiseInv
<1>3. CASE Sort
  <2>1. PICK kept \in Deduplicate(collected) :
              LET laned == {[a EXCEPT !.lane = Lane(a)] : a \in kept}
              IN  /\ shown'  = {a \in laned : Fresh(a) /\ Relevant(a)}
                  /\ hidden' = {a \in laned : ~(Fresh(a) /\ Relevant(a))}
    BY <1>3 DEF Sort
  <2>2. Answered /\ UNCHANGED <<gate, read, collected>>
    BY <1>3 DEF Sort
  <2>3. kept \subseteq {collected[n] : n \in DOMAIN collected}
    BY DEF Deduplicate, Picks, ByKey
  <2>4. ASSUME NEW b \in shown', JudgedNoise(b)', b.title = Entries[b.item].title PROVE b.lane = "info"
    <3>1. PICK a \in kept : b = [a EXCEPT !.lane = Lane(a)]
      BY <2>1
    <3>2. PICK n \in DOMAIN collected : a = collected[n]
      BY <2>3
    <3>3. Judged(a)
      BY <3>2 DEF NoiseInv
    <3>4. b.source = a.source /\ b.item = a.item /\ b.title = a.title /\ b.lane = Lane(a)
      BY <3>1, <3>3 DEF Judged
    <3>5. \A i : Evaluate(a.source, i)' = Evaluate(a.source, i)
      BY <2>2 DEF Evaluate
    <3>6. JudgedNoise(b)' = JudgedNoise(a)
      BY <2>2, <3>4, <3>5 DEF JudgedNoise, Namesakes, Passing
    <3>7. a.severity = "info"
      BY <2>4, <3>3, <3>4, <3>6 DEF Judged
    <3> QED BY <3>4, <3>7 DEF Lane
  <2>5. NoiseStaysInfo'
    BY <2>4 DEF NoiseStaysInfo
  <2>6. Answered'
    BY <2>2 DEF Answered
  <2>7. \A a \in {collected[n] : n \in DOMAIN collected} : Judged(a)'
    BY <1>k, <2>2 DEF NoiseInv
  <2> QED BY <2>2, <2>5, <2>6, <2>7 DEF NoiseInv
<1> QED BY <1>1, <1>2, <1>3 DEF FilterNext

LEMMA NoiseInit == FilterInit => NoiseInv
<1> SUFFICES ASSUME FilterInit PROVE NoiseInv
  OBVIOUS
<1>1. DOMAIN collected = 1 .. 0 /\ 1 .. 0 = {} /\ 0 \in Nat
  BY DEF FilterInit
<1>2. collected = [n \in DOMAIN collected |-> collected[n]]
  BY DEF FilterInit
<1>3. \A a \in {collected[n] : n \in DOMAIN collected} : Judged(a)
  BY <1>1
<1>4. read = [s \in DOMAIN Origins |-> read[s]] /\ shown = {} /\ hidden = {}
  BY DEF FilterInit
<1> QED BY <1>1, <1>2, <1>3, <1>4 DEF NoiseInv, NoiseStaysInfo

\* What the gate takes for noise is shown for information and never as an alarm, whichever policy
\* the item has met and whichever of its copies is left (applyNoiseDecision, classifySignalLane).
THEOREM NoiseIsInfo == FilterSpec => []NoiseStaysInfo
<1>2. NoiseInv => NoiseStaysInfo
  BY DEF NoiseInv
<1> QED BY NoiseInit, <1>2, NoiseStep, PTL DEF FilterSpec

-----------------------------------------------------------------------------
\* No two alerts of a set are equally relevant.
Ranked(as) == \A a, b \in as : ScoreOf(a) \in Int /\ (ScoreOf(a) = ScoreOf(b) => a = b)

\* Of ranked alerts there is one choice at most: of each class one, and none that is less relevant
\* than another of its class.
LEMMA PickIsOne ==
  ASSUME NEW as, IsFiniteSet(as), Ranked(as), NEW C, NEW kept \in SUBSET as, NEW other \in SUBSET as,
         \A a \in as : Cardinality({k \in other : C[k] = C[a]}) = 1,
         \A a \in kept, b \in as : C[b] = C[a] => ~(ScoreOf(b) > ScoreOf(a)),
         \A a \in other, b \in as : C[b] = C[a] => ~(ScoreOf(b) > ScoreOf(a))
  PROVE  kept \subseteq other
<1> SUFFICES ASSUME NEW a \in kept PROVE a \in other
  OBVIOUS
<1> DEFINE S == {k \in other : C[k] = C[a]}
<1>2. Cardinality(S) = 1
  OBVIOUS
<1>3. IsFiniteSet(S)
  BY FS_Subset
<1> HIDE DEF S
<1>4. PICK k : S = {k}
  BY <1>2, <1>3, FS_Singleton
<1>5. k \in other /\ C[k] = C[a] /\ k \in as
  BY <1>4 DEF S
<1>6. ~(ScoreOf(k) > ScoreOf(a)) /\ ~(ScoreOf(a) > ScoreOf(k))
  BY <1>5
<1>7. ScoreOf(k) = ScoreOf(a)
  <2>1. ScoreOf(k) \in Int /\ ScoreOf(a) \in Int
    BY <1>5 DEF Ranked
  <2> QED BY <1>6, <2>1
<1> QED BY <1>5, <1>7 DEF Ranked

LEMMA IdsPicked ==
  ASSUME NEW as, IsFiniteSet(as), Ranked(as),
         NEW kept \in Picks(as, Id, LAMBDA a, b : ScoreOf(a) > ScoreOf(b)),
         NEW other \in Picks(as, Id, LAMBDA a, b : ScoreOf(a) > ScoreOf(b))
  PROVE  kept \subseteq other /\ kept \subseteq as
<1> DEFINE C == [a \in as |-> Id(a)]
<1>1. /\ kept \subseteq as /\ other \subseteq as
      /\ \A a \in as : Cardinality({k \in other : Id(k) = Id(a)}) = 1
      /\ \A a \in kept, b \in as : Id(b) = Id(a) => ~(ScoreOf(b) > ScoreOf(a))
      /\ \A a \in other, b \in as : Id(b) = Id(a) => ~(ScoreOf(b) > ScoreOf(a))
  BY DEF Picks
<1>2. ASSUME NEW a \in as PROVE {k \in other : C[k] = C[a]} = {k \in other : Id(k) = Id(a)}
  BY <1>1
<1>3. /\ \A a \in as : Cardinality({k \in other : C[k] = C[a]}) = 1
      /\ \A a \in kept, b \in as : C[b] = C[a] => ~(ScoreOf(b) > ScoreOf(a))
      /\ \A a \in other, b \in as : C[b] = C[a] => ~(ScoreOf(b) > ScoreOf(a))
  BY <1>1, <1>2
<1> HIDE DEF C
<1> QED BY <1>1, <1>3, PickIsOne

LEMMA VariantsPicked ==
  ASSUME NEW as, IsFiniteSet(as), Ranked(as),
         NEW kept \in Picks(as, Variant, Preferred), NEW other \in Picks(as, Variant, Preferred)
  PROVE  kept \subseteq other
<1> DEFINE C == [a \in as |-> Variant(a)]
<1>1. /\ kept \subseteq as /\ other \subseteq as
      /\ \A a \in as : Cardinality({k \in other : Variant(k) = Variant(a)}) = 1
      /\ \A a \in kept, b \in as : Variant(b) = Variant(a) => ~(ScoreOf(b) > ScoreOf(a))
      /\ \A a \in other, b \in as : Variant(b) = Variant(a) => ~(ScoreOf(b) > ScoreOf(a))
  BY DEF Picks, Preferred
<1>2. ASSUME NEW a \in as PROVE {k \in other : C[k] = C[a]} = {k \in other : Variant(k) = Variant(a)}
  BY <1>1
<1>3. /\ \A a \in as : Cardinality({k \in other : C[k] = C[a]}) = 1
      /\ \A a \in kept, b \in as : C[b] = C[a] => ~(ScoreOf(b) > ScoreOf(a))
      /\ \A a \in other, b \in as : C[b] = C[a] => ~(ScoreOf(b) > ScoreOf(a))
  BY <1>1, <1>2
<1> HIDE DEF C
<1> QED BY <1>1, <1>3, PickIsOne

\* What is left under each key of a list, whose alerts are ranked, is known from their set.
LEMMA ByKeyOfSet ==
  ASSUME NEW s, NEW k \in Nat, DOMAIN s = 1 .. k, \A m, n \in DOMAIN s : m # n => ScoreOf(s[m]) # ScoreOf(s[n])
  PROVE  LET as == {s[n] : n \in DOMAIN s}
         IN  ByKey(s) = {a \in as : \A b \in as : Key(b) = Key(a) => a = b \/ ScoreOf(a) > ScoreOf(b)}
<1> DEFINE as == {s[n] : n \in DOMAIN s}
           top == {n \in DOMAIN s : \A l \in DOMAIN s : Key(s[l]) = Key(s[n]) =>
                      ScoreOf(s[n]) > ScoreOf(s[l]) \/ (ScoreOf(s[n]) = ScoreOf(s[l]) /\ n <= l)}
           best == {a \in as : \A b \in as : Key(b) = Key(a) => a = b \/ ScoreOf(a) > ScoreOf(b)}
<1>1. ByKey(s) = {s[n] : n \in top}
  BY DEF ByKey
<1>2. ASSUME NEW n \in top PROVE s[n] \in best
  OBVIOUS
<1>3. ASSUME NEW a \in best PROVE a \in {s[n] : n \in top}
  <2>1. PICK n \in DOMAIN s : a = s[n]
    OBVIOUS
  <2>2. ASSUME NEW l \in DOMAIN s, Key(s[l]) = Key(s[n])
        PROVE  ScoreOf(s[n]) > ScoreOf(s[l]) \/ (ScoreOf(s[n]) = ScoreOf(s[l]) /\ n <= l)
    <3>1. s[n] = s[l] \/ ScoreOf(s[n]) > ScoreOf(s[l])
      BY <2>1, <2>2
    <3>2. CASE s[n] = s[l]
      <4>1. n = l
        BY <3>2
      <4> QED BY <4>1
    <3> QED BY <3>1, <3>2
  <2> QED BY <2>1, <2>2
<1> HIDE DEF top, best
<1> QED BY <1>1, <1>2, <1>3 DEF best

\* The duplicates of a ranked list are known from the set of its alerts, and there is one way to
\* remove them at most.
LEMMA DeduplicateIsOne ==
  ASSUME NEW s, NEW t, NEW k \in Nat, DOMAIN s = 1 .. k, DOMAIN t = 1 .. k,
         {s[n] : n \in DOMAIN s} = {t[n] : n \in DOMAIN t},
         \A m, n \in DOMAIN s : m # n => ScoreOf(s[m]) # ScoreOf(s[n]),
         \A m, n \in DOMAIN t : m # n => ScoreOf(t[m]) # ScoreOf(t[n]),
         \A n \in DOMAIN s : ScoreOf(s[n]) \in Int
  PROVE  /\ Deduplicate(t) = Deduplicate(s)
         /\ \A x, y \in Deduplicate(s) : x = y
<1> DEFINE as == {s[n] : n \in DOMAIN s}
           B == ByKey(s)
<1>1. ByKey(t) = ByKey(s)
  <2>1. ByKey(s) = {a \in as : \A b \in as : Key(b) = Key(a) => a = b \/ ScoreOf(a) > ScoreOf(b)}
    BY ByKeyOfSet
  <2> DEFINE bs == {t[n] : n \in DOMAIN t}
  <2>2. ByKey(t) = {a \in bs : \A b \in bs : Key(b) = Key(a) => a = b \/ ScoreOf(a) > ScoreOf(b)}
    BY ByKeyOfSet
  <2>3. as = bs
    OBVIOUS
  <2> HIDE DEF as, bs
  <2> QED BY <2>1, <2>2, <2>3
<1>2. Deduplicate(t) = Deduplicate(s)
  BY <1>1 DEF Deduplicate
<1>3. IsFiniteSet(as)
  <2>1. IsFiniteSet(1 .. k)
    BY SMTT(60), FS_Interval
  <2> DEFINE f == [n \in 1 .. k |-> s[n]]
  <2>2. f \in Surjection(1 .. k, as)
    BY DEF Surjection
  <2> HIDE DEF f, as
  <2> QED BY <2>1, <2>2, FS_Surjection
<1>4. Ranked(as)
  BY DEF Ranked
<1>5. B \subseteq as
  BY DEF ByKey
<1> HIDE DEF as, B
<1>6. IsFiniteSet(B) /\ Ranked(B)
  BY <1>3, <1>4, <1>5, FS_Subset DEF Ranked
<1>7. ASSUME NEW x \in Deduplicate(s), NEW y \in Deduplicate(s) PROVE x = y
  <2>1. PICK v \in Picks(B, Id, LAMBDA a, b : ScoreOf(a) > ScoreOf(b)) : x \in Picks(v, Variant, Preferred)
    BY DEF Deduplicate, B
  <2>2. PICK w \in Picks(B, Id, LAMBDA a, b : ScoreOf(a) > ScoreOf(b)) : y \in Picks(w, Variant, Preferred)
    BY DEF Deduplicate, B
  <2>3. v \subseteq w /\ w \subseteq v /\ v \subseteq B
    BY <1>6, IdsPicked, Zenon
  <2>4. v = w /\ v \subseteq B
    BY <2>3
  <2>5. IsFiniteSet(v) /\ Ranked(v)
    BY <1>6, <2>4, FS_Subset DEF Ranked
  <2>7. x \subseteq y /\ y \subseteq x
    BY <2>1, <2>2, <2>4, <2>5, VariantsPicked, Zenon
  <2> QED BY <2>7
<1> QED BY <1>2, <1>7

\* What is shown and hidden is what one removal of the duplicates has left, with lanes.
KeptInv == Sorted => \E kept \in Deduplicate(collected) : shown \cup hidden = {[a EXCEPT !.lane = Lane(a)] : a \in kept}

LEMMA KeptStep == NoiseInv /\ KeptInv /\ [FilterNext]_filterVars => KeptInv'
<1> SUFFICES ASSUME NoiseInv, KeptInv, [FilterNext]_filterVars, Sorted' PROVE KeptInv'
  BY DEF KeptInv
<1>1. CASE Sort
  <2>1. PICK kept \in Deduplicate(collected) :
              LET laned == {[a EXCEPT !.lane = Lane(a)] : a \in kept}
              IN  /\ shown'  = {a \in laned : Fresh(a) /\ Relevant(a)}
                  /\ hidden' = {a \in laned : ~(Fresh(a) /\ Relevant(a))}
    BY <1>1 DEF Sort
  <2>2. collected' = collected
    BY <1>1 DEF Sort
  <2>3. shown' \cup hidden' = {[a EXCEPT !.lane = Lane(a)] : a \in kept}
    BY <2>1
  <2> QED BY <2>2, <2>3 DEF KeptInv
<1>2. ASSUME NEW s \in DOMAIN Origins, Read(s) PROVE FALSE
  BY <1>2 DEF Read, NoiseInv, Answered, Sorted
<1>3. CASE UNCHANGED filterVars
  BY <1>3 DEF filterVars, KeptInv, Sorted
<1> QED BY <1>1, <1>2, <1>3 DEF FilterNext

LEMMA OneOrder == NoiseInv /\ KeptInv => OrderDoesNotMatter
<1> SUFFICES ASSUME NoiseInv, KeptInv, Sorted,
                    \A k, l \in DOMAIN collected : k # l => ScoreOf(collected[k]) # ScoreOf(collected[l]),
                    NEW p \in Bijection(DOMAIN collected, DOMAIN collected)
             PROVE  Deduplicate([n \in DOMAIN collected |-> collected[p[n]]])
                       = {{[a EXCEPT !.lane = ""] : a \in shown \cup hidden}}
  BY DEF OrderDoesNotMatter
<1> DEFINE t == [n \in DOMAIN collected |-> collected[p[n]]]
           D == DOMAIN collected
<1>1. PICK k \in Nat : D = 1 .. k
  BY DEF NoiseInv
<1>2. p \in [D -> D] /\ \A w \in D : \E v \in D : p[v] = w
  BY DEF Bijection, Injection, Surjection
<1>3. \A m, n \in D : p[m] = p[n] => m = n
  BY DEF Bijection, Injection, IsInjective
<1>4. {t[n] : n \in DOMAIN t} = {collected[n] : n \in D}
  BY <1>2
<1>5. \A m, n \in D : m # n => ScoreOf(t[m]) # ScoreOf(t[n])
  BY <1>2, <1>3
<1>6. ASSUME NEW n \in D PROVE ScoreOf(collected[n]) \in Int /\ Judged(collected[n])
  <2>1. Judged(collected[n])
    BY DEF NoiseInv
  <2>2. collected[n].item \in DOMAIN Entries
    BY <2>1 DEF Judged
  <2> QED BY <2>1, <2>2, FilterTyped DEF ScoreOf
<1>7. Deduplicate(t) = Deduplicate(collected) /\ \A x, y \in Deduplicate(collected) : x = y
  <2>1. DOMAIN t = 1 .. k /\ DOMAIN collected = 1 .. k
    BY <1>1
  <2> HIDE DEF t, D
  <2> QED BY <1>1, <1>4, <1>5, <1>6, <2>1, DeduplicateIsOne DEF D
<1>8. PICK kept \in Deduplicate(collected) : shown \cup hidden = {[a EXCEPT !.lane = Lane(a)] : a \in kept}
  BY DEF KeptInv
<1>9. kept \subseteq {collected[n] : n \in DOMAIN collected}
  BY DEF Deduplicate, Picks, ByKey
<1> DEFINE Back(a) == [[a EXCEPT !.lane = Lane(a)] EXCEPT !.lane = ""]
<1>10. ASSUME NEW a \in kept PROVE Back(a) = a
  <2>1. Judged(a)
    BY <1>6, <1>9
  <2> DEFINE ln == Lane(a)
  <2> HIDE DEF ln
  <2>2. [[a EXCEPT !.lane = ln] EXCEPT !.lane = ""] = a
    BY <2>1 DEF Judged
  <2> QED BY <2>2 DEF ln
<1>11. {[a EXCEPT !.lane = ""] : a \in shown \cup hidden} = {Back(a) : a \in kept}
  BY ZenonT(60), <1>8
<1>12. {Back(a) : a \in kept} = kept
  <2> HIDE DEF Back
  <2> QED BY <1>10
<1> QED BY <1>7, <1>8, <1>11, <1>12

\* Where no two alerts are equally relevant, what is kept is one set, whatever the order of the answers
\* and of the maps, for every document and every classifier.
THEOREM OrderIsIrrelevant == FilterSpec => []OrderDoesNotMatter
<1>1. FilterInit => KeptInv
  BY DEF FilterInit, KeptInv, Sorted
<1> QED BY <1>1, NoiseInit, NoiseStep, KeptStep, OneOrder, PTL DEF FilterSpec

=============================================================================
