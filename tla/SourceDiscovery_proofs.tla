------------------------- MODULE SourceDiscovery_proofs -------------------------
(***************************************************************************)
(* For every set of candidates and sites, every number of workers, every     *)
(* seed and table, and every bound on deaths, failures and shutdowns:        *)
(*   - no feed is taken twice in a pass of the discovery loop;               *)
(*   - what was rejected is not collected until it is called `validated`, an *)
(*     edition of the seed that is recorded has been merged, and the         *)
(*     approved are in the table before they leave the queue.                *)
(* A merge is a recursive function over its entries, of which MergeInduction *)
(* is the rule of proof.  Induction itself is that every set of naturals has *)
(* a least element (WFMin), for it takes a set and no predicate.             *)
(***************************************************************************)
EXTENDS SourceDiscovery, WellFoundedInduction, TLAPS

\* What a pass holds, whatever the registry brought into `known`.
PassTyped ==
    pass \in [pc : {"idle", "generate", "load", "crawl", "promote", "write", "fill"},
              known : {pass.known}, gathered : {pass.gathered}, todo : {pass.todo},
              vetting : [Candidates -> Urls \cup {NoUrl}], remaining : {pass.remaining},
              promoted : Seq(Promotion), queued : {pass.queued}]

\* FeedTakenOnce is not inductive: a worker looks only into `known`, so whatever is with the
\* vetter or approved must still be there.
TakenInv == /\ PassTyped /\ FeedTakenOnce
            /\ \A c \in InVetting : pass.vetting[c] \in pass.known
            /\ \A i \in DOMAIN pass.promoted : pass.promoted[i].feed \in pass.known

\* A pass with nothing in hand.
LEMMA EmptyPass ==
  ASSUME PassTyped, pass.vetting = NoPass.vetting, pass.promoted = <<>>
  PROVE  TakenInv
<1>1. InVetting = {}
  BY DEF InVetting, NoPass
<1>2. DOMAIN pass.promoted = {} /\ Approved = {}
  BY DEF Approved
<1> QED BY <1>1, <1>2 DEF TakenInv, FeedTakenOnce

LEMMA NoPassTyped ==
  /\ NoPass.vetting \in [Candidates -> Urls \cup {NoUrl}]
  /\ NoPass.promoted = <<>> /\ NoPass.promoted \in Seq(Promotion)
  BY DEF NoPass

LEMMA InitTaken == DiscInit => TakenInv
<1> SUFFICES ASSUME DiscInit PROVE TakenInv
  OBVIOUS
<1>1. pass = NoPass
  BY DEF DiscInit
<1>2. PassTyped
  BY <1>1, NoPassTyped DEF PassTyped, NoPass
<1> QED BY <1>1, <1>2, NoPassTyped, EmptyPass

\* A step that keeps what the pass has in hand.
LEMMA SameHands ==
  ASSUME TakenInv, PassTyped', pass'.known = pass.known, pass'.vetting = pass.vetting,
         pass'.promoted = pass.promoted
  PROVE  TakenInv'
<1>1. InVetting' = InVetting /\ Approved' = Approved
  BY DEF InVetting, Approved
<1> QED BY <1>1 DEF TakenInv, FeedTakenOnce

\* So does one that only moves on, or notes what is gathered, left to do, kept or queued.
LEMMA MovedOn ==
  ASSUME TakenInv, NEW l \in {"idle", "generate", "load", "crawl", "promote", "write", "fill"},
         NEW g, NEW t, NEW r, NEW q,
         pass' = [pass EXCEPT !.pc = l, !.gathered = g, !.todo = t, !.remaining = r, !.queued = q]
  PROVE  TakenInv'
<1>1. PassTyped
  BY DEF TakenInv
<1>2. /\ pass'.known = pass.known /\ pass'.vetting = pass.vetting /\ pass'.promoted = pass.promoted
      /\ pass'.gathered = g /\ pass'.todo = t /\ pass'.remaining = r /\ pass'.queued = q
  BY <1>1 DEF PassTyped
<1>3. PassTyped'
  BY <1>1, <1>2 DEF PassTyped
<1> QED BY <1>2, <1>3, SameHands

LEMMA ToNoPass == ASSUME pass' = NoPass PROVE TakenInv'
<1>1. PassTyped'
  BY NoPassTyped DEF PassTyped, NoPass
<1>2. (InVetting = {})' /\ (Approved = {} /\ DOMAIN pass.promoted = {})'
  BY DEF InVetting, Approved, NoPass
<1> QED BY <1>1, <1>2 DEF TakenInv, FeedTakenOnce

LEMMA BeginTaken == ASSUME Begin PROVE TakenInv'
<1>1. PICK k : pass' = [NoPass EXCEPT !.pc = "generate", !.known = k]
  BY DEF Begin
<1>2. PassTyped'
  BY <1>1, NoPassTyped DEF PassTyped, NoPass
<1>3. (InVetting = {})' /\ (Approved = {} /\ DOMAIN pass.promoted = {})'
  BY <1>1 DEF InVetting, Approved, NoPass
<1> QED BY <1>2, <1>3 DEF TakenInv, FeedTakenOnce

\* A worker takes a feed that is not in `known`, and puts it there.
LEMMA DiscoverTaken ==
  ASSUME TakenInv, NEW c \in Candidates, Discover(c)
  PROVE  TakenInv'
<1>1. PassTyped
  BY DEF TakenInv
<1>2. PICK url \in Shown(c) :
        /\ ~Reserved(url)
        /\ pass' = [[pass EXCEPT !.known = @ \cup {url},
                                 !.vetting[c] = IF deployment.vetting THEN url ELSE NoUrl]
                      EXCEPT !.todo = @ \ {c}]
  BY DEF Discover, Crawled
<1>3. url \in Urls \cup {NoUrl}
  BY DiscoveryTyped DEF Discover, Crawlable, Shown
<1> DEFINE v == [pass.vetting EXCEPT ![c] = IF deployment.vetting THEN url ELSE NoUrl]
           k == pass.known \cup {url}
           t == pass.todo \ {c}
<1>4. pass' = [pass EXCEPT !.known = k, !.vetting = v, !.todo = t]
  BY <1>1, <1>2 DEF PassTyped
<1>5. pass.vetting \in [Candidates -> Urls \cup {NoUrl}] /\ v \in [Candidates -> Urls \cup {NoUrl}]
  BY <1>1, <1>3 DEF PassTyped
<1>6. \A d \in Candidates : v[d] = pass.vetting[d] \/ (d = c /\ v[d] \in {url, NoUrl})
  BY <1>5
<1>7. url \notin pass.known
  BY <1>2 DEF Reserved
<1> HIDE DEF v, k, t
<1>8. pass'.vetting = v /\ pass'.known = k /\ pass'.promoted = pass.promoted
  BY <1>1, <1>4 DEF PassTyped
<1>9. PassTyped'
  BY <1>1, <1>4, <1>5, <1>8 DEF PassTyped
<1>10. \A d \in InVetting' : /\ d \in Candidates
                             /\ \/ d \in InVetting /\ pass'.vetting[d] = pass.vetting[d]
                                \/ d = c /\ pass'.vetting[d] = url
  BY <1>6, <1>8 DEF InVetting
<1>11. Approved' = Approved
  BY <1>8 DEF Approved
<1>12. \A p \in Approved : p.feed \in pass.known
  BY DEF TakenInv, Approved
<1>13. FeedTakenOnce'
  BY <1>7, <1>8, <1>10, <1>11, <1>12 DEF TakenInv, FeedTakenOnce
<1>14. /\ \A d \in InVetting' : pass'.vetting[d] \in pass'.known
       /\ \A i \in DOMAIN pass'.promoted : pass'.promoted[i].feed \in pass'.known
  BY <1>8, <1>10 DEF TakenInv, k
<1> QED BY <1>9, <1>13, <1>14 DEF TakenInv

\* The vetter's word moves the feed to the approved ones, or lets it go.
LEMMA VetTaken ==
  ASSUME TakenInv, NEW c \in Candidates, Vet(c)
  PROVE  TakenInv'
<1>1. PassTyped /\ c \in InVetting
  BY DEF TakenInv, Vet
<1>2. PICK verdict \in Verdicts :
        pass' = [pass EXCEPT !.vetting[c] = NoUrl,
             !.promoted = IF verdict \in {"rejected", "failed"} THEN @
                          ELSE Append(@, [candidate |-> c, feed |-> pass.vetting[c],
                                          verdict |-> verdict])]
  BY DEF Vet
<1> DEFINE e == [candidate |-> c, feed |-> pass.vetting[c], verdict |-> verdict]
           v == [pass.vetting EXCEPT ![c] = NoUrl]
           s == IF verdict \in {"rejected", "failed"} THEN pass.promoted ELSE Append(pass.promoted, e)
<1>3. pass' = [pass EXCEPT !.vetting = v, !.promoted = s]
  BY <1>1, <1>2 DEF PassTyped
<1>4. /\ pass.vetting \in [Candidates -> Urls \cup {NoUrl}] /\ v \in [Candidates -> Urls \cup {NoUrl}]
      /\ \A d \in Candidates : v[d] = IF d = c THEN NoUrl ELSE pass.vetting[d]
  BY <1>1 DEF PassTyped
<1>5. pass.promoted \in Seq(Promotion)
  BY <1>1 DEF PassTyped
<1>6. pass.vetting[c] \in Urls \ {NoUrl}
  BY <1>1, <1>4 DEF InVetting
<1>7. verdict \in {"rejected", "failed"} \/ (e \in Promotion /\ e.feed = pass.vetting[c])
  BY <1>6 DEF Promotion, Verdicts
<1>8. /\ s \in Seq(Promotion)
      /\ \A i \in DOMAIN s : \/ i \in DOMAIN pass.promoted /\ s[i] = pass.promoted[i]
                             \/ i = Len(pass.promoted) + 1 /\ i \notin DOMAIN pass.promoted
                                /\ s[i].feed = pass.vetting[c]
  <2> HIDE DEF e
  <2> QED BY <1>5, <1>7
<1> HIDE DEF v, s, e
<1>9. pass'.vetting = v /\ pass'.promoted = s /\ pass'.known = pass.known
  BY <1>1, <1>3 DEF PassTyped
<1>10. PassTyped'
  BY <1>1, <1>3, <1>4, <1>8, <1>9 DEF PassTyped
<1>11. \A d \in InVetting' : d \in InVetting /\ d # c /\ pass'.vetting[d] = pass.vetting[d]
  BY <1>4, <1>9 DEF InVetting
<1>12. \A d \in InVetting, i \in DOMAIN pass.promoted : pass.vetting[d] # pass.promoted[i].feed
  BY DEF TakenInv, FeedTakenOnce, Approved
<1>13. \A i \in DOMAIN s, j \in DOMAIN s : s[i].feed = s[j].feed => i = j
  BY <1>1, <1>8, <1>12 DEF TakenInv, FeedTakenOnce
<1>14. \A d \in InVetting' : \A i \in DOMAIN s : pass'.vetting[d] # s[i].feed
  BY <1>1, <1>8, <1>11, <1>12 DEF TakenInv, FeedTakenOnce
<1>15. FeedTakenOnce'
  BY <1>9, <1>11, <1>13, <1>14 DEF TakenInv, FeedTakenOnce, Approved
<1>16. /\ \A d \in InVetting' : pass'.vetting[d] \in pass'.known
       /\ \A i \in DOMAIN pass'.promoted : pass'.promoted[i].feed \in pass'.known
  BY <1>1, <1>8, <1>9, <1>11 DEF TakenInv
<1> QED BY <1>10, <1>15, <1>16 DEF TakenInv

LEMMA StepTaken == TakenInv /\ [DiscNext]_discVars => TakenInv'
<1> SUFFICES ASSUME TakenInv, [DiscNext]_discVars PROVE TakenInv'
  OBVIOUS
<1>t. PassTyped
  BY DEF TakenInv
<1>1. ASSUME pass' = pass PROVE TakenInv'
  BY <1>1, <1>t, SameHands DEF PassTyped
<1>2. CASE Crash \/ Exit
  BY <1>2, ToNoPass DEF Crash, Exit, Halted
<1>3. CASE Begin
  BY <1>3, BeginTaken
<1>4. CASE Generate
  <2>1. PICK g : pass' = [pass EXCEPT !.pc = "load", !.gathered = g]
    BY <1>4 DEF Generate
  <2>2. pass' = [pass EXCEPT !.pc = "load", !.gathered = g, !.todo = pass.todo,
                             !.remaining = pass.remaining, !.queued = pass.queued]
    BY <1>t, <2>1 DEF PassTyped
  <2> QED BY <2>2, MovedOn
<1>5. CASE Load
  <2>1. PICK t, q : pass' = [pass EXCEPT !.pc = "crawl", !.todo = t, !.gathered = {}, !.queued = q]
    BY <1>5 DEF Load
  <2>2. pass' = [pass EXCEPT !.pc = "crawl", !.gathered = {}, !.todo = t,
                             !.remaining = pass.remaining, !.queued = q]
    BY <1>t, <2>1 DEF PassTyped
  <2> QED BY <2>2, MovedOn
<1>6. ASSUME NEW c \in Candidates, Refuse(c) \/ Miss(c) PROVE TakenInv'
  <2>1. ASSUME NEW r, NEW t, pass' = [pass EXCEPT !.todo = t, !.remaining = r] PROVE TakenInv'
    <3>1. /\ pass'.known = pass.known /\ pass'.vetting = pass.vetting /\ pass'.promoted = pass.promoted
          /\ PassTyped'
      BY <1>t, <2>1 DEF PassTyped
    <3> QED BY <3>1, SameHands
  <2>2. CASE pass' = [pass EXCEPT !.todo = @ \ {c}]
    <3> DEFINE t == pass.todo \ {c}
    <3>1. pass' = [pass EXCEPT !.todo = t]
      BY <2>2
    <3> HIDE DEF t
    <3>2. pass' = [pass EXCEPT !.todo = t, !.remaining = pass.remaining]
      BY <1>t, <3>1 DEF PassTyped
    <3> QED BY <2>1, <3>2
  <2>3. CASE pass' = [[pass EXCEPT !.remaining = @ \cup {c}] EXCEPT !.todo = @ \ {c}]
    <3> DEFINE t == pass.todo \ {c}
               r == pass.remaining \cup {c}
    <3>1. pass' = [pass EXCEPT !.todo = t, !.remaining = r]
      BY <1>t, <2>3 DEF PassTyped
    <3> HIDE DEF t, r
    <3> QED BY <2>1, <3>1
  <2> QED BY <1>6, <2>2, <2>3 DEF Refuse, Miss, Crawled
<1>7. ASSUME NEW c \in Candidates, Discover(c) PROVE TakenInv'
  BY <1>7, DiscoverTaken
<1>8. ASSUME NEW c \in Candidates, Vet(c) PROVE TakenInv'
  BY <1>8, VetTaken
<1>9. CASE Report \/ Promote \/ WriteQueue \/ FillQueue
  <2>1. CASE pass' = NoPass
    BY <2>1, ToNoPass
  <2>2. ASSUME NEW l \in {"promote", "write", "fill"}, NEW t, pass' = [pass EXCEPT !.pc = l, !.todo = t]
        PROVE  TakenInv'
    <3>1. pass' = [pass EXCEPT !.pc = l, !.gathered = pass.gathered, !.todo = t,
                               !.remaining = pass.remaining, !.queued = pass.queued]
      BY <1>t, <2>2 DEF PassTyped
    <3> QED BY <3>1, MovedOn
  <2>3. ASSUME NEW l \in {"write", "fill"}, pass' = [pass EXCEPT !.pc = l] PROVE TakenInv'
    <3>1. pass' = [pass EXCEPT !.pc = l, !.todo = pass.todo]
      BY <1>t, <2>3 DEF PassTyped
    <3> QED BY <2>2, <3>1
  <2> QED BY <1>9, <2>1, <2>2, <2>3 DEF Report, Promote, WriteQueue, FillQueue
<1>10. CASE Start \/ Cancel \/ Elapse \/ Syncing \/ HintRead \/ HintWrite \/ HintFill \/ UNCHANGED discVars
  BY <1>1, <1>10 DEF Start, Cancel, Elapse, Syncing, SyncRead, SyncMerge, SyncRecord, HintRead, HintWrite, HintFill, discVars
<1> QED BY <1>2, <1>3, <1>4, <1>5, <1>6, <1>7, <1>8, <1>9, <1>10 DEF DiscNext, Passing, Crawls

\* Workers that crawl side by side never have one feed vetted or promoted twice in a pass:
\* what tryReserveFeedURL has handed out stays in `known` until the pass is over.
THEOREM FeedsTakenOnce == DiscSpec => []FeedTakenOnce
<1>1. TakenInv => FeedTakenOnce
  BY DEF TakenInv
<1> QED BY <1>1, InitTaken, StepTaken, PTL DEF DiscSpec

-----------------------------------------------------------------------------
\* Induction over the naturals, for a set in the place of a predicate.
LEMMA LeastOf ==
  ASSUME NEW T \in SUBSET Nat, T # {}
  PROVE  \E x \in T : \A y \in T : x <= y
<1> DEFINE R == OpToRel(<, Nat)
<1>1. IsWellFoundedOn(R, Nat)
  BY NatLessThanWellFounded
<1>2. \A x, y \in Nat : x < y => <<x, y>> \in R
  BY DEF OpToRel
<1> HIDE DEF R
<1>3. PICK x \in T : \A y \in T : ~(<<y, x>> \in R)
  BY <1>1, WFMin
<1>4. x \in Nat /\ \A y \in T : y \in Nat /\ ~(y < x)
  BY <1>2, <1>3
<1>5. \A y \in T : x <= y
  BY <1>4
<1> QED BY <1>5

LEMMA SetInduction ==
  ASSUME NEW S, 0 \in S, \A n \in Nat : n \in S => n + 1 \in S
  PROVE  Nat \subseteq S
<1> SUFFICES ASSUME Nat \ S # {} PROVE FALSE
  OBVIOUS
<1>1. PICK x \in Nat \ S : \A y \in Nat \ S : x <= y
  BY LeastOf
<1>2. x # 0 /\ x - 1 \in Nat /\ x - 1 \in S
  BY <1>1
<1> QED BY <1>1, <1>2

-----------------------------------------------------------------------------
LEMMA UpsertedTyped ==
  ASSUME NEW t \in Tables, NEW e \in Entries
  PROVE  /\ Upserted(t, e) \in Tables
         /\ \A id \in Ids : id # e.id => Upserted(t, e)[id] = t[id]
         /\ Upserted(t, e)[e.id] = [feed |-> e.feed,
               promotion |-> IF Kept(t, e) THEN "rejected" ELSE PromotionOf(e)]
         /\ PromotionOf(e) \in Promotions
<1>1. e.id \in Ids /\ e.feed \in Urls /\ e.promotion \in Promotions \cup {""}
  BY DEF Entries
<1>2. PromotionOf(e) \in Promotions
  BY <1>1 DEF PromotionOf, Promotions
<1>3. [feed |-> e.feed, promotion |-> IF Kept(t, e) THEN "rejected" ELSE PromotionOf(e)] \in Rows
  BY <1>1, <1>2 DEF Rows, Promotions
<1> QED BY <1>1, <1>2, <1>3 DEF Upserted, Tables

\* What holds of a table before each entry, and is handed on by each upsert, holds after the merge.
LEMMA MergeInduction ==
  ASSUME NEW t \in Tables, NEW s \in Seq(Entries),
         NEW G \in [0 .. Len(s) -> SUBSET Tables], t \in G[0],
         \A n \in 1 .. Len(s) : \A g \in G[n - 1] : Upserted(g, s[n]) \in G[n]
  PROVE  UpsertedAll(t, s) \in G[Len(s)]
<1> DEFINE L == Len(s)
           Run(f, n) == /\ f \in [0 .. n -> Tables] /\ f[0] = t
                        /\ \A k \in 1 .. n : f[k] = Upserted(f[k - 1], s[k])
           Has(n) == n <= L => \E f \in [0 .. n -> Tables] : Run(f, n)
           S == {n \in Nat : Has(n)}
           Step(f) == [n \in 0 .. L |-> IF n = 0 THEN t ELSE Upserted(f[n - 1], s[n])]
           after == CHOOSE f : f = Step(f)
           T == {n \in Nat : n <= L => after[n] \in G[n]}
<1>l. L \in Nat /\ \A n \in 1 .. L : s[n] \in Entries
  OBVIOUS
<1> HIDE DEF L
<1> HIDE DEF Has
<1>h. \A k \in Nat : k \in S <=> Has(k)
  OBVIOUS
<1> HIDE DEF S
<1>1. 0 \in S
  <2> DEFINE f == [k \in 0 .. 0 |-> t]
  <2>1. Run(f, 0)
    OBVIOUS
  <2> QED BY <1>h, <2>1 DEF Has
<1>2. ASSUME NEW n \in Nat, n \in S PROVE n + 1 \in S
  <2>0. Has(n)
    BY <1>2, <1>h
  <2> SUFFICES Has(n + 1)
    BY <1>h
  <2> HIDE DEF Run
  <2> SUFFICES ASSUME n + 1 <= L PROVE \E f \in [0 .. n + 1 -> Tables] : Run(f, n + 1)
    BY DEF Has
  <2>1. PICK f \in [0 .. n -> Tables] : Run(f, n)
    <3>1. n <= L
      BY <1>l
    <3> QED BY ONLY <2>0, <3>1 DEF Has
  <2> USE DEF Run
  <2> DEFINE g == [k \in 0 .. n + 1 |-> IF k <= n THEN f[k] ELSE Upserted(f[n], s[n + 1])]
  <2>2. Upserted(f[n], s[n + 1]) \in Tables
    <3>1. n \in 0 .. n /\ n + 1 \in 1 .. L
      BY <1>l
    <3>2. f[n] \in Tables /\ s[n + 1] \in Entries
      BY <1>l, <3>1
    <3> QED BY <3>2, UpsertedTyped
  <2>3. g \in [0 .. n + 1 -> Tables] /\ g[0] = t
    BY <2>1, <2>2
  <2>4. \A k \in 1 .. n + 1 : g[k] = Upserted(g[k - 1], s[k])
    <3> TAKE k \in 1 .. n + 1
    <3>1. CASE k <= n
      <4>1. k \in 1 .. n /\ k - 1 \in 0 .. n /\ k \in 0 .. n + 1 /\ k - 1 \in 0 .. n + 1 /\ k - 1 <= n
        BY ONLY <3>1, n \in Nat, k \in 1 .. n + 1
      <4>2. g[k] = f[k] /\ g[k - 1] = f[k - 1]
        BY <3>1, <4>1
      <4>3. f[k] = Upserted(f[k - 1], s[k])
        BY <2>1, <4>1
      <4> HIDE DEF g
      <4> QED BY ONLY Zenon, <4>2, <4>3
    <3>2. CASE k = n + 1
      <4>1. k \in 0 .. n + 1 /\ n \in 0 .. n + 1 /\ ~(k <= n) /\ n <= n /\ k - 1 = n
        BY ONLY <3>2, n \in Nat
      <4>2. g[k] = Upserted(f[n], s[n + 1]) /\ g[n] = f[n]
        BY <4>1
      <4> HIDE DEF g
      <4> QED BY ONLY Zenon, <3>2, <4>1, <4>2
    <3> QED BY <3>1, <3>2
  <2> HIDE DEF g
  <2> QED BY <2>3, <2>4
<1>3. \E f \in [0 .. L -> Tables] : Run(f, L)
  <2>1. L \in S
    BY <1>1, <1>2, <1>l, SetInduction
  <2>2. Has(L) /\ L <= L
    BY <1>h, <1>l, <2>1
  <2> HIDE DEF Run
  <2> QED BY ONLY <2>2 DEF Has
<1>4. \E f : f = Step(f)
  <2>1. PICK f \in [0 .. L -> Tables] : Run(f, L)
    BY <1>3
  <2>2. f = Step(f)
    <3>1. \A n \in 0 .. L : f[n] = IF n = 0 THEN t ELSE Upserted(f[n - 1], s[n])
      BY <2>1, <1>l
    <3> QED BY <2>1, <3>1
  <2> QED BY <2>2
<1>5. after = Step(after)
  BY <1>4
<1>6. UpsertedAll(t, s) = after[L]
  BY DEF UpsertedAll, L
<1> HIDE DEF after
<1>7. /\ after[0] = t
      /\ \A n \in 1 .. L : after[n] = Upserted(after[n - 1], s[n])
  BY <1>5, <1>l
<1>8. 0 \in T
  BY <1>7
<1>9. ASSUME NEW n \in Nat, n \in T PROVE n + 1 \in T
  <2> SUFFICES ASSUME n + 1 <= L PROVE after[n + 1] \in G[n + 1]
    OBVIOUS
  <2>1. after[n] \in G[n] /\ n + 1 \in 1 .. L /\ (n + 1) - 1 = n
    BY <1>9, <1>l
  <2>2. after[n + 1] = Upserted(after[n], s[n + 1])
    BY <1>7, <2>1
  <2> QED BY <2>1, <2>2 DEF L
<1> HIDE DEF T
<1>10. L \in T
  BY <1>8, <1>9, <1>l, SetInduction
<1> QED BY <1>6, <1>10, <1>l DEF T, L

-----------------------------------------------------------------------------
LEMMA BackfilledTyped ==
  ASSUME NEW t \in Tables
  PROVE  /\ Backfilled(t) \in Tables
         /\ \A id \in Ids : /\ t[id].promotion = "rejected" => Backfilled(t)[id].promotion = "rejected"
                            /\ Present(t, id) => Present(Backfilled(t), id)
<1> DEFINE b == Backfilled(t)
<1>1. ASSUME NEW id \in Ids
      PROVE  /\ b[id] \in Rows \cup {NoRow}
             /\ t[id].promotion = "rejected" => b[id].promotion = "rejected"
             /\ Present(t, id) => Present(b, id)
  <2>1. t[id] \in Rows \cup {NoRow}
    BY DEF Tables
  <2>2. b[id] = IF t[id].promotion = "candidate" /\ t[id].feed \notin Listed
                THEN [t[id] EXCEPT !.promotion = "active"] ELSE t[id]
    BY DEF Backfilled
  <2>3. NoRow.promotion = "absent"
    BY DEF NoRow, Absent
  <2>4. CASE t[id].promotion = "candidate" /\ t[id].feed \notin Listed
    <3>1. t[id] \in Rows
      BY <2>1, <2>3, <2>4
    <3>2. b[id] = [t[id] EXCEPT !.promotion = "active"]
      BY <2>2, <2>4
    <3>3. b[id] \in Rows /\ b[id].promotion = "active"
      BY <3>1, <3>2 DEF Rows, Promotions
    <3> QED BY <2>3, <2>4, <3>3 DEF Present
  <2>5. CASE ~(t[id].promotion = "candidate" /\ t[id].feed \notin Listed)
    BY <2>1, <2>2, <2>5 DEF Present
  <2> QED BY <2>4, <2>5
<1>2. b = [id \in Ids |-> b[id]]
  BY DEF Backfilled
<1> HIDE DEF b
<1>3. b \in Tables
  BY <1>1, <1>2 DEF Tables
<1> QED BY <1>1, <1>3 DEF b

\* A transaction of entries, none of which says `candidate`.
LEMMA StoredTable ==
  ASSUME NEW t \in Tables, NEW s \in Seq(Entries),
         \A i \in DOMAIN s : s[i].promotion # "candidate"
  PROVE  /\ Stored(t, s) \in Tables
         /\ \A id \in Ids : Present(t, id) => Present(Stored(t, s), id)
         /\ \A i \in DOMAIN s : Present(Stored(t, s), s[i].id)
         /\ \A id \in Rejected(t) \ Validated(s) : id \in Rejected(Stored(t, s))
<1> DEFINE b == Backfilled(t)
           Good(n) == {g \in Tables :
              /\ \A id \in Ids : Present(t, id) => Present(g, id)
              /\ \A i \in 1 .. n : Present(g, s[i].id)
              /\ \A id \in Rejected(t) \ Validated(s) : g[id].promotion = "rejected"}
           G == [n \in 0 .. Len(s) |-> Good(n)]
<1>1. /\ b \in Tables
      /\ \A id \in Ids : /\ t[id].promotion = "rejected" => b[id].promotion = "rejected"
                         /\ Present(t, id) => Present(b, id)
  BY BackfilledTyped
<1> HIDE DEF b
<1>2. b \in Good(0)
  BY <1>1 DEF Rejected
<1>3. ASSUME NEW n \in 1 .. Len(s), NEW g \in Good(n - 1) PROVE Upserted(g, s[n]) \in Good(n)
  <2> DEFINE e == s[n]
             u == Upserted(g, e)
  <2>1. e \in Entries /\ e.promotion # "candidate" /\ n \in DOMAIN s /\ n \in Nat
    OBVIOUS
  <2>2. /\ u \in Tables
        /\ \A id \in Ids : id # e.id => u[id] = g[id]
        /\ u[e.id] = [feed |-> e.feed, promotion |-> IF Kept(g, e) THEN "rejected" ELSE PromotionOf(e)]
        /\ PromotionOf(e) \in Promotions
    BY <2>1, UpsertedTyped
  <2>3. e.id \in Ids
    BY <2>1 DEF Entries
  <2>4. PromotionOf(e) # "candidate"
    BY <2>1 DEF PromotionOf
  <2> HIDE DEF u
  <2>5. Present(u, e.id)
    BY <2>2 DEF Present, NoRow, Absent, Promotions
  <2>6. \A id \in Ids : Present(g, id) => Present(u, id)
    BY <2>2, <2>5 DEF Present
  <2>7. \A i \in 1 .. n : Present(u, s[i].id)
    <3> TAKE i \in 1 .. n
    <3>1. CASE i = n
      BY <2>5, <3>1
    <3>2. CASE i # n
      <4>1. i \in 1 .. n - 1 /\ s[i] \in Entries
        BY <3>2
      <4> QED BY <2>6, <4>1 DEF Entries
    <3> QED BY <3>1, <3>2
  <2>8. ASSUME NEW id \in Rejected(t) \ Validated(s) PROVE u[id].promotion = "rejected"
    <3>1. g[id].promotion = "rejected" /\ id \in Ids
      BY DEF Rejected
    <3>2. CASE id = e.id
      <4>1. PromotionOf(e) # "validated"
        BY <2>1, <3>1, <3>2 DEF Validated
      <4>2. PromotionOf(e) \in {"active", "rejected"}
        BY <2>2, <2>4, <4>1 DEF Promotions
      <4> QED BY <2>2, <3>1, <3>2, <4>2 DEF Kept
    <3> QED BY <2>2, <3>1, <3>2
  <2>9. \A id \in Ids : Present(t, id) => Present(u, id)
    BY <2>6
  <2> QED BY <2>2, <2>7, <2>8, <2>9 DEF u
<1> HIDE DEF Good
<1>4. G \in [0 .. Len(s) -> SUBSET Tables]
  BY DEF Good
<1>5. b \in G[0] /\ \A n \in 1 .. Len(s) : \A g \in G[n - 1] : Upserted(g, s[n]) \in G[n]
  BY <1>2, <1>3
<1>6. Stored(t, s) \in G[Len(s)]
  <2> HIDE DEF G
  <2> QED BY <1>1, <1>4, <1>5, MergeInduction DEF Stored, b
<1>7. Stored(t, s) \in Good(Len(s))
  BY <1>6
<1> QED BY <1>7 DEF Good, Rejected

-----------------------------------------------------------------------------
Merged(edition) == \A i \in DOMAIN Seeds[edition] : Present(table, Seeds[edition][i].id)

\* The table and what is written about it elsewhere: the ids that were refused are still rejected,
\* an edition under way or recorded is the one that was merged, and before the queue is
\* written the approved are in the table.
RegistryInv ==
    /\ table \in Tables /\ refused \subseteq Rejected(table)
    /\ deployment \in Deployments /\ seed \in DOMAIN Seeds /\ synced \in {0} \cup DOMAIN Seeds
    /\ sync \in [pc : {"idle", "merge", "record"}, edition : {0} \cup DOMAIN Seeds]
    /\ sync.pc # "idle" => sync.edition = seed
    /\ sync.pc = "record" => Merged(sync.edition)
    /\ synced # 0 => Merged(synced)
    /\ pass.pc \in {"write", "fill"} => \A p \in Approved : Present(table, IdOf[p.candidate])

LEMMA InitRegistry == DiscInit => RegistryInv
<1> SUFFICES ASSUME DiscInit PROVE RegistryInv
  OBVIOUS
<1>1. deployment \in Deployments /\ table = deployment.table /\ refused = Rejected(table)
      /\ seed = 1 /\ synced = 0 /\ pass.pc = "idle"
      /\ sync = [pc |-> "idle", edition |-> 0]
  BY DEF DiscInit, NoPass, NoSync
<1>2. deployment.table \in Tables /\ deployment.editions \in 1 .. Len(Seeds) /\ Seeds \in Seq(Seq(Entries))
  BY <1>1, DiscoveryTyped
<1>3. 1 \in DOMAIN Seeds
  BY <1>2
<1> QED BY <1>1, <1>2, <1>3 DEF RegistryInv

\* Present rows stay, whoever writes.
Grows == /\ table' \in Tables /\ refused' \subseteq Rejected(table')
         /\ \A id \in Ids : Present(table, id) => Present(table', id)

LEMMA WritesGrow ==
  ASSUME table \in Tables, refused \subseteq Rejected(table), NEW s \in Seq(Entries),
         \A i \in DOMAIN s : s[i].promotion # "candidate", Writes(s)
  PROVE  Grows /\ \A i \in DOMAIN s : Present(table', s[i].id)
<1>1. table' = Stored(table, s) /\ refused' = Rejected(table') \cup (refused \ Validated(s))
  BY DEF Writes
<1>2. /\ table' \in Tables
      /\ \A id \in Ids : Present(table, id) => Present(table', id)
      /\ \A i \in DOMAIN s : Present(table', s[i].id)
      /\ \A id \in Rejected(table) \ Validated(s) : id \in Rejected(table')
  BY <1>1, StoredTable
<1> QED BY <1>1, <1>2 DEF Grows

LEMMA SeedsTyped ==
  ASSUME NEW e \in DOMAIN Seeds
  PROVE  /\ Seeds[e] \in Seq(Entries)
         /\ \A i \in DOMAIN Seeds[e] : Seeds[e][i].promotion # "candidate" /\ Seeds[e][i].id \in Ids
<1>1. Seeds \in Seq(Seq(Entries))
  BY DiscoveryTyped
<1>2. Seeds[e] \in Seq(Entries)
  BY <1>1
<1>3. \A i \in DOMAIN Seeds[e] : Seeds[e][i] \in Entries
  BY <1>2
<1> QED BY <1>2, <1>3, DiscoveryTyped DEF Entries

LEMMA PromotedTyped ==
  ASSUME PassTyped
  PROVE  /\ PromotedEntries \in Seq(Entries) /\ DOMAIN PromotedEntries = DOMAIN pass.promoted
         /\ \A i \in DOMAIN PromotedEntries : /\ PromotedEntries[i].promotion # "candidate"
               /\ PromotedEntries[i].id = IdOf[pass.promoted[i].candidate]
         /\ \A p \in Approved : IdOf[p.candidate] \in Ids
<1>1. pass.promoted \in Seq(Promotion)
  BY DEF PassTyped
<1>2. ASSUME NEW p \in Promotion
      PROVE  /\ EntryOf(p) \in Entries /\ EntryOf(p).promotion # "candidate"
             /\ EntryOf(p).id = IdOf[p.candidate] /\ IdOf[p.candidate] \in Ids
  <2>1. p.candidate \in Candidates /\ p.feed \in Urls /\ p.verdict \in {"active", "validated"}
    BY DEF Promotion
  <2>2. IdOf[p.candidate] \in Ids
    BY <2>1, DiscoveryTyped
  <2> QED BY <2>1, <2>2 DEF EntryOf, Entries, Promotions, Levels
<1>3. \A i \in DOMAIN pass.promoted : pass.promoted[i] \in Promotion
  BY <1>1
<1>4. PromotedEntries = [i \in 1 .. Len(pass.promoted) |-> EntryOf(pass.promoted[i])]
  BY <1>1 DEF PromotedEntries
<1>5. PromotedEntries \in Seq(Entries) /\ DOMAIN PromotedEntries = DOMAIN pass.promoted
  BY <1>1, <1>2, <1>3, <1>4
<1>6. \A i \in DOMAIN pass.promoted : PromotedEntries[i] = EntryOf(pass.promoted[i])
  BY DEF PromotedEntries
<1>7. \A i \in DOMAIN pass.promoted : /\ PromotedEntries[i].promotion # "candidate"
                                      /\ PromotedEntries[i].id = IdOf[pass.promoted[i].candidate]
  BY <1>2, <1>3, <1>6
<1>8. \A p \in Approved : IdOf[p.candidate] \in Ids
  BY <1>2, <1>3 DEF Approved
<1> QED BY <1>5, <1>7, <1>8

\* A step that lets the table grow, and moves neither the sync nor the pass to a place where
\* something must have been written.
LEMMA RegistryKept ==
  ASSUME RegistryInv, Grows, deployment' = deployment, seed' = seed, synced' = synced, sync' = sync,
         pass'.pc \in {"write", "fill"} => pass.pc \in {"write", "fill"} /\ pass'.promoted = pass.promoted,
         \A p \in Approved : IdOf[p.candidate] \in Ids
  PROVE  RegistryInv'
<1>1. ASSUME NEW e \in DOMAIN Seeds, Merged(e) PROVE Merged(e)'
  BY <1>1, SeedsTyped DEF Merged, Grows
<1>2. (sync.pc = "record" => Merged(sync.edition))' /\ (synced # 0 => Merged(synced))'
  <2>1. sync.pc = "record" => sync.edition = seed /\ Merged(seed) /\ seed \in DOMAIN Seeds
    BY DEF RegistryInv
  <2>2. synced # 0 => synced \in DOMAIN Seeds /\ Merged(synced)
    BY DEF RegistryInv
  <2> QED BY <1>1, <2>1, <2>2 DEF Merged
<1>3. (pass.pc \in {"write", "fill"} => \A p \in Approved : Present(table, IdOf[p.candidate]))'
  BY DEF RegistryInv, Grows, Approved
<1> QED BY <1>2, <1>3 DEF RegistryInv, Grows

LEMMA SameTable == RegistryInv /\ table' = table /\ refused' = refused => Grows
  BY DEF RegistryInv, Grows

LEMMA StartRegistry ==
  ASSUME RegistryInv, PassTyped, Start, ~up => pass = NoPass /\ sync = NoSync
  PROVE  RegistryInv'
<1>1. PICK edition \in {seed, seed + 1} \cap 1 .. deployment.editions :
        /\ seed' = edition
        /\ IF deployment.entrypoint THEN Writes(Seeds[edition]) ELSE UNCHANGED <<table, refused>>
  BY DEF Start
<1>2. deployment.editions \in 1 .. Len(Seeds) /\ Seeds \in Seq(Seq(Entries))
  BY DiscoveryTyped DEF RegistryInv
<1>3. edition \in DOMAIN Seeds
  BY <1>2
<1>4. Grows
  <2>1. CASE deployment.entrypoint
    BY <1>1, <1>3, <2>1, SeedsTyped, WritesGrow DEF RegistryInv
  <2>2. CASE ~deployment.entrypoint
    BY <1>1, <2>2, SameTable
  <2> QED BY <2>1, <2>2
<1>5. /\ deployment' = deployment /\ synced' = synced /\ sync' = sync /\ pass' = pass
      /\ sync = [pc |-> "idle", edition |-> 0] /\ pass.pc = "idle"
  BY DEF Start, NoPass, NoSync
<1>6. ASSUME NEW e \in DOMAIN Seeds, Merged(e) PROVE Merged(e)'
  BY <1>4, <1>6, SeedsTyped DEF Merged, Grows
<1>7. synced # 0 => Merged(synced)'
  BY <1>5, <1>6 DEF RegistryInv, Merged
<1> QED BY <1>1, <1>3, <1>4, <1>5, <1>7 DEF RegistryInv, Grows, Merged

LEMMA SyncMergeRegistry ==
  ASSUME RegistryInv, PassTyped, SyncMerge
  PROVE  RegistryInv'
<1>1. PICK done \in Tries :
        /\ sync' = IF done THEN [sync EXCEPT !.pc = "record"] ELSE NoSync
        /\ IF done THEN Writes(Seeds[seed]) ELSE UNCHANGED <<table, refused>>
  BY DEF SyncMerge
<1>2. /\ deployment' = deployment /\ seed' = seed /\ synced' = synced /\ pass' = pass
      /\ sync.edition = seed /\ seed \in DOMAIN Seeds /\ sync.pc = "merge"
      /\ sync \in [pc : {"idle", "merge", "record"}, edition : {0} \cup DOMAIN Seeds]
  BY DEF SyncMerge, RegistryInv
<1>3. Grows /\ (done => Merged(seed)')
  <2>1. CASE done
    <3>1. Grows /\ \A i \in DOMAIN Seeds[seed] : Present(table', Seeds[seed][i].id)
      BY <1>1, <1>2, <2>1, SeedsTyped, WritesGrow DEF RegistryInv
    <3> QED BY <1>2, <3>1 DEF Merged
  <2>2. CASE ~done
    BY <1>1, <2>2, SameTable
  <2> QED BY <2>1, <2>2
<1>4. ASSUME NEW e \in DOMAIN Seeds, Merged(e) PROVE Merged(e)'
  BY <1>3, <1>4, SeedsTyped DEF Merged, Grows
<1>5. synced # 0 => Merged(synced)'
  BY <1>2, <1>4 DEF RegistryInv, Merged
<1>6. /\ sync' \in [pc : {"idle", "merge", "record"}, edition : {0} \cup DOMAIN Seeds]
      /\ sync'.pc # "idle" => sync'.edition = seed /\ done
  BY <1>1, <1>2 DEF NoSync
<1>7. sync'.pc = "record" => Merged(sync.edition)'
  BY <1>2, <1>3, <1>6 DEF Merged
<1>8. (pass.pc \in {"write", "fill"} => \A p \in Approved : Present(table, IdOf[p.candidate]))'
  BY <1>2, <1>3, PromotedTyped DEF RegistryInv, Grows, Approved
<1> QED BY <1>2, <1>3, <1>5, <1>6, <1>7, <1>8 DEF RegistryInv, Grows, Merged

LEMMA PromoteRegistry ==
  ASSUME RegistryInv, PassTyped, Promote
  PROVE  RegistryInv'
<1>1. /\ deployment' = deployment /\ seed' = seed /\ synced' = synced /\ sync' = sync
      /\ pass.pc = "promote"
  BY DEF Promote
<1>2. /\ Grows
      /\ \/ pass' = NoPass
         \/ pass' = [pass EXCEPT !.pc = "write"] /\ \A p \in Approved : Present(table', IdOf[p.candidate])
  <2>1. CASE pass.promoted = <<>>
    <3>1. Approved = {}
      BY <2>1 DEF Approved
    <3> QED BY <2>1, <3>1, SameTable DEF Promote
  <2>2. CASE pass.promoted # <<>>
    <3>1. PICK done \in BOOLEAN :
            /\ pass' = IF done THEN [pass EXCEPT !.pc = "write"] ELSE NoPass
            /\ IF done THEN Writes(PromotedEntries) ELSE UNCHANGED <<table, refused>>
      BY <2>2 DEF Promote, Tries
    <3>2. CASE done
      <4>1. Grows /\ \A i \in DOMAIN PromotedEntries : Present(table', PromotedEntries[i].id)
        BY <3>1, <3>2, PromotedTyped, WritesGrow DEF RegistryInv
      <4>2. \A p \in Approved : Present(table', IdOf[p.candidate])
        BY <4>1, PromotedTyped DEF Approved
      <4> QED BY <3>1, <3>2, <4>1, <4>2
    <3>3. CASE ~done
      BY <3>1, <3>3, SameTable
    <3> QED BY <3>2, <3>3
  <2> QED BY <2>1, <2>2
<1>3. ASSUME NEW e \in DOMAIN Seeds, Merged(e) PROVE Merged(e)'
  BY <1>2, <1>3, SeedsTyped DEF Merged, Grows
<1>4. (sync.pc = "record" => Merged(sync.edition))' /\ (synced # 0 => Merged(synced))'
  <2>1. sync.pc = "record" => sync.edition = seed /\ Merged(seed) /\ seed \in DOMAIN Seeds
    BY DEF RegistryInv
  <2>2. synced # 0 => synced \in DOMAIN Seeds /\ Merged(synced)
    BY DEF RegistryInv
  <2> QED BY <1>1, <1>3, <2>1, <2>2 DEF Merged
<1>5. (pass.pc \in {"write", "fill"} => \A p \in Approved : Present(table, IdOf[p.candidate]))'
  <2>1. CASE pass' = NoPass
    BY <2>1 DEF NoPass
  <2>2. CASE pass' = [pass EXCEPT !.pc = "write"] /\ \A p \in Approved : Present(table', IdOf[p.candidate])
    <3>1. pass'.promoted = pass.promoted
      BY <2>2 DEF PassTyped
    <3> QED BY <2>2, <3>1 DEF Approved
  <2> QED BY <1>2, <2>1, <2>2
<1> QED BY <1>1, <1>2, <1>4, <1>5 DEF RegistryInv, Grows

\* Without a process there is neither a pass nor a sync, and only a crawl has the vetter at work.
AtWork == /\ ~up => pass = NoPass /\ sync = NoSync
          /\ pass.pc # "crawl" => InVetting = {}

LEMMA StepAtWork == AtWork /\ PassTyped /\ [DiscNext]_discVars => AtWork'
<1> SUFFICES ASSUME AtWork, PassTyped, [DiscNext]_discVars PROVE AtWork'
  OBVIOUS
<1>1. ASSUME pass' = NoPass PROVE (InVetting = {})'
  BY <1>1 DEF InVetting, NoPass
<1>2. ASSUME pass'.vetting = pass.vetting PROVE InVetting' = InVetting
  BY <1>2 DEF InVetting
<1>3. ~up => pass.pc = "idle" /\ InVetting = {} /\ sync.pc = "idle"
  BY DEF AtWork, NoPass, NoSync, InVetting
<1>4. CASE Start \/ Cancel \/ Elapse \/ Syncing \/ HintRead \/ HintWrite \/ HintFill \/ UNCHANGED discVars
  <2>1. pass' = pass
    BY <1>4 DEF Start, Cancel, Elapse, Syncing, SyncRead, SyncMerge, SyncRecord, HintRead, HintWrite, HintFill, discVars
  <2>2. up' \/ (up' = up /\ sync' = sync)
    BY <1>3, <1>4 DEF Start, Cancel, Elapse, Syncing, SyncRead, SyncMerge, SyncRecord, HintRead, HintWrite, HintFill, discVars
  <2> QED BY <1>2, <2>1, <2>2 DEF AtWork
<1>5. CASE Crash \/ Exit
  BY <1>1, <1>5 DEF Crash, Exit, Halted, AtWork
<1>6. CASE Passing
  <2>1. up' = up /\ sync' = sync
    BY <1>6 DEF Passing, Begin, Generate, Load, Crawls, Refuse, Discover, Miss, Vet, Crawled, Report, Promote, WriteQueue, FillQueue
  <2>2. up
    <3> SUFFICES ASSUME ~up PROVE FALSE
      OBVIOUS
    <3> QED BY <1>3, <1>6 DEF Passing, Begin, Generate, Load, Crawls, Refuse, Discover, Miss, Vet, Crawled, Takes,
                              Report, Promote, WriteQueue, FillQueue
  <2>3. pass'.pc # "crawl" => (InVetting = {})'
    <3>1. CASE Begin
      BY <3>1 DEF Begin, NoPass, InVetting
    <3>2. CASE Generate \/ Load \/ Report \/ Promote \/ WriteQueue \/ FillQueue
      <4>1. InVetting = {}
        BY <3>2 DEF AtWork, Generate, Load, Report, Promote, WriteQueue, FillQueue
      <4>2. pass' = NoPass \/ pass'.vetting = pass.vetting
        BY <3>2 DEF Generate, Load, Report, Promote, WriteQueue, FillQueue, PassTyped
      <4> QED BY <1>1, <1>2, <4>1, <4>2
    <3>3. CASE Crawls
      <4>1. pass.pc = "crawl"
        BY <3>3 DEF Crawls, Refuse, Discover, Miss, Vet, Crawled, Takes, AtWork
      <4>2. pass'.pc = pass.pc
        BY <3>3 DEF Crawls, Refuse, Discover, Miss, Vet, Crawled, PassTyped
      <4> QED BY <4>1, <4>2
    <3> QED BY <1>6, <3>1, <3>2, <3>3 DEF Passing
  <2> QED BY <2>1, <2>2, <2>3 DEF AtWork
<1> QED BY <1>4, <1>5, <1>6 DEF DiscNext

LEMMA StepRegistry == RegistryInv /\ AtWork /\ PassTyped /\ [DiscNext]_discVars => RegistryInv'
<1> SUFFICES ASSUME RegistryInv, AtWork, PassTyped, [DiscNext]_discVars PROVE RegistryInv'
  OBVIOUS
<1>a. \A p \in Approved : IdOf[p.candidate] \in Ids
  BY PromotedTyped
<1>1. ASSUME table' = table, refused' = refused, deployment' = deployment, seed' = seed, synced' = synced,
             sync' = sync, pass'.pc \in {"write", "fill"} => pass.pc \in {"write", "fill"} /\ pass'.promoted = pass.promoted
      PROVE  RegistryInv'
  BY <1>1, <1>a, SameTable, RegistryKept
<1>2. CASE Start
  BY <1>2, StartRegistry DEF AtWork
<1>3. CASE Crash \/ Exit
  <2>1. /\ table' = table /\ refused' = refused /\ deployment' = deployment /\ seed' = seed /\ synced' = synced
        /\ sync' = NoSync /\ pass' = NoPass
    BY <1>3 DEF Crash, Exit, Halted, stored, history
  <2>2. \A e : Merged(e)' = Merged(e)
    BY <2>1 DEF Merged
  <2>3. (synced # 0 => Merged(synced))'
    BY <2>1 DEF RegistryInv, Merged
  <2> QED BY <2>1, <2>3 DEF RegistryInv, NoSync, NoPass
<1>4. CASE SyncRead
  <2>1. /\ table' = table /\ refused' = refused /\ deployment' = deployment /\ seed' = seed /\ synced' = synced
        /\ sync' = [pc |-> "merge", edition |-> seed] /\ pass' = pass
    BY <1>4 DEF SyncRead, stored, history
  <2>2. (synced # 0 => Merged(synced))'
    BY <2>1 DEF RegistryInv, Merged
  <2>3. (pass.pc \in {"write", "fill"} => \A p \in Approved : Present(table, IdOf[p.candidate]))'
    BY <2>1 DEF RegistryInv, Approved
  <2> QED BY <2>1, <2>2, <2>3 DEF RegistryInv
<1>5. CASE SyncMerge
  BY <1>5, SyncMergeRegistry
<1>6. CASE SyncRecord
  <2>1. /\ table' = table /\ refused' = refused /\ deployment' = deployment /\ seed' = seed
        /\ synced' \in {synced, sync.edition} /\ sync' = NoSync /\ pass' = pass
        /\ sync.pc = "record"
    BY <1>6 DEF SyncRecord, history
  <2>2. (synced # 0 => Merged(synced))'
    BY <2>1 DEF RegistryInv, Merged
  <2>3. (pass.pc \in {"write", "fill"} => \A p \in Approved : Present(table, IdOf[p.candidate]))'
    BY <2>1 DEF RegistryInv, Approved
  <2> QED BY <2>1, <2>2, <2>3 DEF RegistryInv, NoSync
<1>7. CASE Promote
  BY <1>7, PromoteRegistry
<1>8. CASE Begin \/ Generate \/ Load
  <2>1. pass'.pc \notin {"write", "fill"}
    BY <1>8 DEF Begin, Generate, Load, NoPass, PassTyped
  <2> QED BY <1>1, <1>8, <2>1 DEF Begin, Generate, Load, stored, history
<1>9. CASE Crawls
  <2>1. PICK c \in Candidates : Refuse(c) \/ Discover(c) \/ Miss(c) \/ Vet(c)
    BY <1>9 DEF Crawls
  <2>2. /\ table' = table /\ refused' = refused /\ deployment' = deployment /\ seed' = seed /\ synced' = synced
        /\ sync' = sync
    BY <2>1 DEF Refuse, Discover, Miss, Vet, Crawled, stored, history
  <2>3. pass.pc = "crawl" /\ pass'.pc = pass.pc
    BY <2>1 DEF Refuse, Discover, Miss, Vet, Crawled, Takes, AtWork, PassTyped
  <2> QED BY <1>1, <2>2, <2>3
<1>10. CASE Report
  <2>1. pass'.pc \notin {"write", "fill"}
    BY <1>10 DEF Report, NoPass, PassTyped
  <2> QED BY <1>1, <1>10, <2>1 DEF Report, stored, history
<1>11. CASE WriteQueue \/ FillQueue
  <2>1. pass'.pc \in {"write", "fill"} => pass.pc \in {"write", "fill"} /\ pass'.promoted = pass.promoted
    BY <1>11 DEF WriteQueue, FillQueue, NoPass, PassTyped
  <2> QED BY <1>1, <1>11, <2>1 DEF WriteQueue, FillQueue, history
<1>12. CASE Cancel \/ Elapse \/ HintRead \/ HintWrite \/ HintFill \/ UNCHANGED discVars
  BY <1>1, <1>12 DEF Cancel, Elapse, HintRead, HintWrite, HintFill, discVars, stored, history
<1> QED BY <1>2, <1>3, <1>4, <1>5, <1>6, <1>7, <1>8, <1>9, <1>10, <1>11, <1>12 DEF DiscNext, Syncing, Passing

RegistryHolds == TakenInv /\ AtWork /\ RegistryInv

LEMMA RegistryInvariant == DiscSpec => []RegistryHolds
<1>1. DiscInit => RegistryHolds
  <2>1. DiscInit => AtWork
    BY DEF DiscInit, AtWork, NoPass, InVetting
  <2> QED BY <2>1, InitTaken, InitRegistry DEF RegistryHolds
<1>2. RegistryHolds /\ [DiscNext]_discVars => RegistryHolds'
  BY StepTaken, StepAtWork, StepRegistry DEF RegistryHolds, TakenInv
<1> QED BY <1>1, <1>2, PTL DEF DiscSpec

\* A source that was rejected is not collected again until it is called `validated`: the merges, the
\* promotions and the backfill leave the row rejected, in whatever order they come (upsertSource).
THEOREM RefusedStayOut == DiscSpec => []RefusedIsNotCollected
<1>1. RegistryHolds => RefusedIsNotCollected
  <2> SUFFICES ASSUME RegistryHolds, NEW id \in refused PROVE id \notin Loaded(table)
    BY DEF RefusedIsNotCollected
  <2>1. table \in Tables /\ id \in Ids /\ table[id].promotion = "rejected"
    BY DEF RegistryHolds, RegistryInv, Rejected
  <2> QED BY <2>1, BackfilledTyped DEF Loaded
<1> QED BY <1>1, RegistryInvariant, PTL

\* An edition of the seed whose hash is recorded has been merged, although the file is read twice,
\* and hash and merge are apart (syncRegistrySeed).
THEOREM RecordedAreMerged == DiscSpec => []SyncedIsMerged
<1>1. RegistryHolds => SyncedIsMerged
  BY DEF RegistryHolds, RegistryInv, Merged, SyncedIsMerged
<1> QED BY <1>1, RegistryInvariant, PTL

\* What takes an approved candidate out of the queue file finds its source in the table, but for a
\* sweep that writes its hints (promoteDiscoveredSources before writeCandidateQueue).
THEOREM ApprovedAreKept == DiscSpec => ApprovedIsKept
<1>1. RegistryHolds /\ RegistryHolds' /\ [DiscNext]_discVars =>
        [\A p \in Approved : p.candidate \in queue \ queue' =>
           Present(table', IdOf[p.candidate]) \/ hinting' # hinting]_discVars
  <2> SUFFICES ASSUME RegistryHolds, DiscNext, NEW p \in Approved, p.candidate \in queue \ queue'
               PROVE  Present(table', IdOf[p.candidate]) \/ hinting' # hinting
    OBVIOUS
  <2>1. CASE HintWrite \/ HintFill
    BY <2>1 DEF HintWrite, HintFill, NoHint
  <2>2. CASE WriteQueue \/ FillQueue
    BY <2>2 DEF WriteQueue, FillQueue, RegistryHolds, RegistryInv
  <2>3. CASE queue' = queue
    BY <2>3
  <2>4. HintWrite \/ HintFill \/ WriteQueue \/ FillQueue \/ queue' = queue
    BY DEF DiscNext, Start, Crash, Exit, Halted, Cancel, Elapse, Syncing, SyncRead, SyncMerge, SyncRecord, HintRead,
           Passing, Begin, Generate, Load, Crawls, Refuse, Discover, Miss, Vet, Crawled, Report, Promote, stored
  <2> QED BY <2>1, <2>2, <2>3, <2>4
<1> QED BY <1>1, RegistryInvariant, PTL DEF DiscSpec, ApprovedIsKept
=============================================================================
