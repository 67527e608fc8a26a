-------------------------- MODULE Briefings_proofs --------------------------
(***************************************************************************)
(* The cached datasets, the zone briefings made of them, and the terror      *)
(* assessments.                                                              *)
(***************************************************************************)
EXTENDS DatasetCache, ZoneBriefings, TerrorAnalysis, TLAPS

-----------------------------------------------------------------------------
(* FreshHead holds for every number of chunks, editions, releases and        *)
(* mishaps.                                                                  *)

CacheRows == [hash : Nat, rows : Seq(Nat), known : BOOLEAN]
CacheTypes ==
    /\ served = <<>> \/ served \in [1 .. Chunks -> Nat]
    /\ release \in 1 .. MaxReleases
    /\ cache \in [1 .. MaxReleases -> CacheRows]
    /\ lens \in [release : Nat, hash : Nat]
    /\ step \in {"idle", "again", "pages", "store", "state"}
    /\ head \in Nat /\ oldest \in Nat /\ rows \in Seq(Nat)
    /\ answer \in [rows : Seq(Nat), from : {"none", "cache", "service", "fallback", "error"}]

\* It is not inductive.  What is read or kept is of the head beside it or of a later one,
\* and so is what the lens was last said to be of: its events are written first.
HeadInv ==
    /\ CacheTypes /\ FreshHead
    /\ step # "idle" => head = oldest /\ head <= HeadHash(served)
    /\ step \in {"pages", "store", "state"} => head <= HeadHash(rows)
    /\ step = "state" => cache[1].rows = rows
    /\ \A r \in 1 .. MaxReleases : cache[r].hash <= HeadHash(cache[r].rows)
    /\ lens.hash <= HeadHash(served)
    /\ dataset = "events" => /\ lens.hash <= HeadHash(cache[1].rows)
                             /\ step # "idle" => lens.hash <= head

LEMMA HashTyped == ASSUME NEW s \in Seq(Nat) PROVE HeadHash(s) \in Nat
  BY DEF HeadHash

LEMMA WholeTyped ==
  ASSUME NEW s \in [1 .. Chunks -> Nat] PROVE s \in Seq(Nat) /\ Len(s) = Chunks /\ s # <<>>
<1>1. Chunks \in Nat /\ Chunks > 1
  BY CacheTyped
<1>2. s = [i \in 1 .. Chunks |-> s[i]]
  OBVIOUS
<1>3. s \in Seq(Nat)
  BY <1>1, <1>2
<1>4. Len(s) = Chunks
  BY <1>1, <1>3
<1> QED BY <1>1, <1>3, <1>4

LEMMA ServedTyped == CacheTypes => served \in Seq(Nat)
<1>1. <<>> \in Seq(Nat)
  OBVIOUS
<1> QED BY <1>1, WholeTyped DEF CacheTypes

\* The front of the dataset only gets newer.
LEMMA NewerFront ==
  ASSUME CacheTypes, NEW cs \in SUBSET (1 .. Chunks), Changes(cs)
  PROVE  /\ served' \in [1 .. Chunks -> Nat]
         /\ HeadHash(served) <= HeadHash(served')
<1>1. PICK n \in 1 .. MaxEditions :
        /\ Following(n)
        /\ served' = [c \in 1 .. Chunks |-> IF c \in cs \/ served = <<>> THEN n ELSE served[c]]
  BY DEF Changes
<1>2. n \in Nat /\ 1 \in 1 .. Chunks
  BY <1>1, CacheTyped
<1>3. served' \in [1 .. Chunks -> Nat]
  BY <1>1, <1>2 DEF CacheTypes
<1>4. served' # <<>>
  BY <1>3, WholeTyped
<1>5. HeadHash(served') = served'[1] /\ served'[1] \in Nat
  BY <1>2, <1>3, <1>4 DEF HeadHash
<1>6. CASE served = <<>>
  BY <1>3, <1>5, <1>6 DEF HeadHash
<1>7. CASE served # <<>>
  <2>1. served \in [1 .. Chunks -> Nat]
    BY <1>7 DEF CacheTypes
  <2>2. served[1] < n /\ served[1] \in Nat
    BY <1>1, <1>2, <2>1 DEF Following
  <2>3. served'[1] \in {n, served[1]}
    BY <1>1, <1>2
  <2> QED BY <1>2, <1>3, <1>5, <1>7, <2>2, <2>3 DEF HeadHash
<1> QED BY <1>3, <1>6, <1>7

LEMMA PageZeroFront ==
  ASSUME CacheTypes
  PROVE  PageZero(served) \in Seq(Nat) /\ HeadHash(PageZero(served)) = HeadHash(served)
<1>1. CASE served = <<>>
  BY <1>1 DEF PageZero
<1>2. CASE served # <<>>
  <2>1. served \in Seq(Nat) /\ Len(served) = Chunks /\ Chunks >= 2
    BY SMTT(60), <1>2, CacheTyped DEF CacheTypes
  <2>2. PageZero(served) = SubSeq(served, 1, 2)
    BY <1>2 DEF PageZero
  <2>3. /\ SubSeq(served, 1, 2) \in Seq(Nat) /\ Len(SubSeq(served, 1, 2)) = 2
        /\ SubSeq(served, 1, 2)[1] = served[1]
    BY <2>1
  <2> QED BY <1>2, <2>2, <2>3 DEF HeadHash
<1> QED BY <1>1, <1>2

LEMMA CachedTyped ==
  ASSUME CacheTypes
  PROVE  /\ Cached \in CacheRows
         /\ Cached = cache[1] \/ Cached = cache[release]
         /\ dataset = "events" => Cached = cache[1]
  BY CacheTyped DEF CacheTypes, Cached

\* A read that ends with something as fresh as its head.
LEMMA Answered ==
  ASSUME HeadInv, NEW s \in Seq(Nat), NEW f \in {"cache", "service", "fallback", "error"}, Answers(s, f),
         f \in {"cache", "service"} => oldest' <= HeadHash(s),
         CacheTypes',
         UNCHANGED served,
         \A r \in 1 .. MaxReleases : cache'[r].hash <= HeadHash(cache'[r].rows),
         lens'.hash <= HeadHash(served),
         dataset' = "events" => lens'.hash <= HeadHash(cache'[1].rows)
  PROVE  HeadInv'
<1>1. answer' = [rows |-> s, from |-> f] /\ step' = "idle"
  BY DEF Answers
<1>2. FreshHead'
  BY <1>1, HashTyped DEF FreshHead, CacheTypes
<1> QED BY <1>1, <1>2 DEF HeadInv

LEMMA HeadInit == CacheInit => HeadInv
<1> SUFFICES ASSUME CacheInit PROVE HeadInv
  OBVIOUS
<1>1. <<>> \in Seq(Nat) /\ HeadHash(<<>>) = 0
  BY DEF HeadHash
<1>2. CacheTypes
  BY <1>1, CacheTyped DEF CacheInit, CacheTypes, CacheRows, Empty, NoAnswer
<1>3. FreshHead
  BY DEF CacheInit, NoAnswer, FreshHead
<1>4. HeadHash(served) \in Nat
  BY <1>2, ServedTyped, HashTyped
<1> QED BY <1>1, <1>2, <1>3, <1>4, CacheTyped DEF CacheInit, HeadInv, Empty

LEMMA HeadEnvironment ==
  ASSUME HeadInv, NewEdition \/ NewRelease PROVE HeadInv'
<1>1. PICK cs \in SUBSET (1 .. Chunks) : Changes(cs)
  BY DEF NewEdition, NewRelease
<1>2. /\ release' \in 1 .. MaxReleases
      /\ UNCHANGED <<dataset, cache, lens, step, head, rows, answer, oldest>>
  <2>1. release \in 1 .. MaxReleases
    BY DEF HeadInv, CacheTypes
  <2>2. release' = release \/ (release' = release + 1 /\ release < MaxReleases)
    BY DEF NewEdition, NewRelease
  <2>3. release' \in 1 .. MaxReleases
    BY <2>1, <2>2, CacheTyped
  <2> QED BY <2>3 DEF NewEdition, NewRelease
<1>3. CacheTypes /\ served' \in [1 .. Chunks -> Nat] /\ HeadHash(served) <= HeadHash(served')
  BY <1>1, NewerFront DEF HeadInv
<1>4. CacheTypes'
  BY <1>2, <1>3 DEF CacheTypes
<1>5. HeadHash(served) \in Nat /\ HeadHash(served') \in Nat
  BY <1>3, <1>4, ServedTyped, HashTyped, CacheTyped
<1>6. lens.hash \in Nat /\ head \in Nat
  BY <1>3 DEF CacheTypes
<1>7. FreshHead'
  BY <1>2 DEF HeadInv, FreshHead
<1> QED BY <1>2, <1>3, <1>4, <1>5, <1>6, <1>7 DEF HeadInv

LEMMA HeadStep == HeadInv /\ [CacheNext]_cacheVars => HeadInv'
<1> SUFFICES ASSUME HeadInv, [CacheNext]_cacheVars PROVE HeadInv'
  OBVIOUS
<1>t. /\ CacheTypes /\ served \in Seq(Nat) /\ HeadHash(served) \in Nat /\ HeadHash(rows) \in Nat
      /\ <<>> \in Seq(Nat) /\ HeadHash(<<>>) = 0
  <2>1. CacheTypes
    BY DEF HeadInv
  <2> QED BY SMTT(60), <2>1, ServedTyped, HashTyped DEF CacheTypes, HeadHash
<1>1. CASE NewEdition \/ NewRelease
  BY <1>1, HeadEnvironment
<1>2. CASE ReadHead
  <2> DEFINE hash == HeadHash(served)
  <2>1. oldest' = hash /\ UNCHANGED <<dataset, served, release, cache, lens, mishaps>>
    BY <1>2 DEF ReadHead
  <2>2. CASE Unchanged(hash)
    <3>1. Answers(Cached.rows, "cache")
      BY <1>2, <2>2 DEF ReadHead
    <3>2. Cached \in CacheRows /\ Cached.rows \in Seq(Nat)
      BY <1>t, CachedTyped DEF CacheRows
    <3>3. hash <= HeadHash(Cached.rows)
      <4>1. CASE dataset = "events"
        <5>1. lens.hash = hash
          BY <2>2, <4>1 DEF Unchanged
        <5> QED BY <1>t, <4>1, <5>1, CachedTyped DEF HeadInv
      <4>2. CASE dataset # "events"
        <5>1. Cached.hash = hash /\ Cached = cache[release]
          BY <2>2, <4>2 DEF Unchanged, Cached
        <5> QED BY <1>t, <5>1 DEF HeadInv, CacheTypes
      <4> QED BY <4>1, <4>2
    <3>4. CacheTypes'
      BY <1>t, <2>1, <3>1, <3>2 DEF CacheTypes, Answers
    <3> QED BY <2>1, <3>1, <3>2, <3>3, <3>4, Answered DEF HeadInv
  <2>3. CASE ~Unchanged(hash)
    <3>1. /\ head' = hash /\ answer' = NoAnswer
          /\ \/ step' = "again" /\ rows' = <<>>
             \/ step' = "pages" /\ rows' = PageZero(served)
      BY <1>2, <2>3 DEF ReadHead
    <3>2. CacheTypes'
      BY <1>t, <2>1, <3>1, PageZeroFront DEF CacheTypes, NoAnswer
    <3>3. FreshHead'
      BY <3>1 DEF FreshHead, NoAnswer
    <3>4. step' = "pages" => head' <= HeadHash(rows')
      BY <1>t, <3>1, PageZeroFront
    <3> QED BY <1>t, <2>1, <3>1, <3>2, <3>3, <3>4 DEF HeadInv
  <2> QED BY <2>2, <2>3
<1>3. CASE HeadFails
  <2>1. /\ oldest' = HeadHash(served) /\ UNCHANGED <<dataset, served, release, cache, lens>>
        /\ Answers(Cached.rows, "fallback") \/ Answers(<<>>, "error")
    BY <1>3 DEF HeadFails
  <2>2. Cached.rows \in Seq(Nat)
    BY <1>t, CachedTyped DEF CacheRows
  <2>3. ASSUME NEW i \in Seq(Nat), NEW f \in {"fallback", "error"}, Answers(i, f) PROVE HeadInv'
    <3>1. CacheTypes'
      BY <1>t, <2>1, <2>3 DEF CacheTypes, Answers
    <3> QED BY <2>1, <2>3, <3>1, Answered DEF HeadInv
  <2> QED BY <1>t, <2>1, <2>2, <2>3
<1>4. CASE ReadAgain
  <2>1. /\ step = "again" /\ step' = "pages" /\ rows' = PageZero(served)
        /\ UNCHANGED <<dataset, served, release, cache, lens, head, answer, oldest>>
    BY <1>4 DEF ReadAgain
  <2>2. CacheTypes' /\ HeadHash(rows') = HeadHash(served)
    BY <1>t, <2>1, PageZeroFront DEF CacheTypes
  <2> QED BY <1>t, <2>1, <2>2 DEF HeadInv, FreshHead
<1>5. CASE AgainFails
  <2>1. Answers(<<>>, "error") /\ UNCHANGED <<dataset, served, release, cache, lens, oldest>>
    BY <1>5 DEF AgainFails
  <2>2. CacheTypes'
    BY <1>t, <2>1 DEF CacheTypes, Answers
  <2> QED BY <1>t, <2>1, <2>2, Answered DEF HeadInv
<1>6. CASE ReadPage
  <2>1. /\ step = "pages" /\ rows # <<>> /\ Len(rows) < Len(served) /\ rows' = Append(rows, served[Len(rows) + 1])
        /\ UNCHANGED <<dataset, served, release, cache, lens, step, head, answer, oldest>>
    BY <1>6 DEF ReadPage, More
  <2>2. served[Len(rows) + 1] \in Nat /\ rows \in Seq(Nat)
    BY SMTT(60), <1>t, <2>1 DEF CacheTypes
  <2>3. rows' \in Seq(Nat) /\ rows' # <<>> /\ rows'[1] = rows[1]
    BY <2>1, <2>2
  <2>4. CacheTypes'
    BY <1>t, <2>1, <2>3 DEF CacheTypes
  <2>5. HeadHash(rows') = HeadHash(rows)
    BY <2>1, <2>3 DEF HeadHash
  <2> QED BY <1>t, <2>1, <2>4, <2>5 DEF HeadInv, FreshHead
<1>7. CASE PageFails \/ LastPage
  <2>1. /\ step = "pages" /\ step' = "store"
        /\ UNCHANGED <<dataset, served, release, cache, lens, head, rows, answer, oldest>>
    BY <1>7 DEF PageFails, LastPage
  <2>2. CacheTypes'
    BY <1>t, <2>1 DEF CacheTypes
  <2> QED BY <1>t, <2>1, <2>2 DEF HeadInv, FreshHead
<1>8. CASE TimeUp \/ StoreFails
  <2>1. /\ step \in {"pages", "store", "state"} /\ Answers(rows, "service")
        /\ UNCHANGED <<dataset, served, release, cache, lens, oldest>>
    BY <1>8 DEF TimeUp, StoreFails
  <2>2. CacheTypes' /\ rows \in Seq(Nat) /\ oldest <= HeadHash(rows)
    BY <1>t, <2>1 DEF CacheTypes, Answers, HeadInv
  <2> QED BY <1>t, <2>1, <2>2, Answered DEF HeadInv
<1>9. CASE StoreDataset
  <2>1. /\ step = "store" /\ dataset # "events" /\ Answers(rows, "service")
        /\ cache' = cache \/ cache' = [cache EXCEPT ![release] = Kept]
        /\ UNCHANGED <<dataset, served, release, lens, oldest>>
    BY <1>9 DEF StoreDataset
  <2>2. Kept \in CacheRows /\ Kept.hash = head /\ Kept.rows = rows
    BY <1>t DEF Kept, CacheRows, CacheTypes
  <2>3. CacheTypes' /\ rows \in Seq(Nat) /\ oldest <= HeadHash(rows)
    BY ZenonT(60), <1>t, <2>1, <2>2 DEF CacheTypes, Answers, HeadInv
  <2>4. ASSUME NEW r \in 1 .. MaxReleases PROVE cache'[r].hash <= HeadHash(cache'[r].rows)
    BY <1>t, <2>1, <2>2 DEF CacheTypes, HeadInv
  <2> QED BY <1>t, <2>1, <2>3, <2>4, Answered DEF HeadInv
<1>10. CASE StoreEvents
  <2>1. /\ step = "store" /\ dataset = "events" /\ step' = "state" /\ cache' = [cache EXCEPT ![1] = Kept]
        /\ UNCHANGED <<dataset, served, release, lens, head, rows, answer, oldest>>
    BY <1>10 DEF StoreEvents
  <2>2. Kept \in CacheRows /\ Kept.hash = head /\ Kept.rows = rows
    BY <1>t DEF Kept, CacheRows, CacheTypes
  <2>3. CacheTypes' /\ cache'[1] = Kept
    BY SMTT(60), <1>t, <2>1, <2>2, CacheTyped DEF CacheTypes
  <2>4. ASSUME NEW r \in 1 .. MaxReleases PROVE cache'[r].hash <= HeadHash(cache'[r].rows)
    BY <1>t, <2>1, <2>2 DEF CacheTypes, HeadInv
  <2>5. lens.hash <= HeadHash(rows)
    BY <1>t, <2>1 DEF HeadInv, CacheTypes
  <2> QED BY <1>t, <2>1, <2>2, <2>3, <2>4, <2>5 DEF HeadInv, FreshHead
<1>11. CASE StoreState
  <2>1. /\ step = "state" /\ lens' = [release |-> release, hash |-> head] /\ Answers(rows, "service")
        /\ UNCHANGED <<dataset, served, release, cache, oldest>>
    BY <1>11 DEF StoreState
  <2>2. CacheTypes' /\ rows \in Seq(Nat) /\ oldest <= HeadHash(rows)
    BY <1>t, <2>1 DEF CacheTypes, Answers, HeadInv
  <2>3. lens'.hash <= HeadHash(served) /\ lens'.hash <= HeadHash(cache[1].rows)
    BY <2>1 DEF HeadInv
  <2> QED BY <1>t, <2>1, <2>2, <2>3, Answered DEF HeadInv
<1>12. CASE CacheDeath
  <2>1. /\ step' = "idle" /\ head' = 0 /\ rows' = <<>> /\ answer' = NoAnswer
        /\ UNCHANGED <<dataset, served, release, cache, lens, oldest>>
    BY <1>12 DEF CacheDeath
  <2>2. CacheTypes' /\ FreshHead'
    BY <1>t, <2>1 DEF CacheTypes, NoAnswer, FreshHead
  <2> QED BY <2>1, <2>2 DEF HeadInv
<1>13. CASE UNCHANGED cacheVars
  BY <1>13 DEF cacheVars, HeadInv, CacheTypes, FreshHead
<1> QED BY <1>1, <1>2, <1>3, <1>4, <1>5, <1>6, <1>7, <1>8, <1>9, <1>10, <1>11, <1>12, <1>13
        DEF CacheNext, Reading

\* What a sweep takes from the service or from the cache is never older at its front than
\* what was served when the read began, although the events of a lens and what they are of
\* are two transactions (persistUCDPLensCache) and either may be missing after a death.
THEOREM AnswersAreFresh == CacheSpec => []FreshHead
<1>1. HeadInv => FreshHead
  BY DEF HeadInv
<1> QED BY <1>1, HeadInit, HeadStep, PTL DEF CacheSpec

-----------------------------------------------------------------------------
(* What a run of the briefings promises beside requests for narratives, for  *)
(* every set of countries, refresh period and bound.                         *)

Told == [history : BOOLEAN, analysis : Nat]
RunsOf == [at : Stages \cup Countries, early : BOOLEAN, cut : BOOLEAN, read : {"none", "some", "all"},
           index : SUBSET Countries, cutEvents : BOOLEAN, todo : SUBSET Countries,
           row : Told, told : [Countries -> Told]]
BriefingsTypes ==
    /\ today \in Nat /\ token \in BOOLEAN /\ fighting \subseteq Countries /\ current \subseteq Countries
    /\ narratives \in [Countries -> Told] /\ run \in RunsOf /\ request.row \in Told
    /\ requests \in Nat /\ briefings \in [day : Nat, cut : BOOLEAN]
    /\ DOMAIN stats \subseteq Countries /\ DOMAIN request.rows \subseteq Countries

\* What LastGoodIsKept needs: an index that is empty although a file has conflicts is empty because
\* there are none, or because only some pages were read; and only a run without a token empties.
IndexInv ==
    /\ run.at \in {"events", "briefings", "current"} /\ run.index = {} /\ current # {} =>
           run.read = "some" \/ fighting = {}
    /\ run.at = "emptied" => ~token

Silent == [c \in Countries |-> Unwritten]
StatsLackText == stats = <<>> \/ \E c \in DOMAIN stats : stats[c].analysis = 0

\* What CutIsMadeGood needs: a run that had no time for the events has none for the narratives, so
\* the statistics it writes lack them.
CutInv ==
    /\ requests = 0 => request.at = "none"
    /\ run.cutEvents => run.cut
    /\ run.at \in {"rest", "conflicts", "events"} => ~run.cutEvents
    /\ run.at \in {"current", "narratives", "zones", "overlays"} \cup Countries => briefings.cut = run.cutEvents
    /\ run.cutEvents \/ run.at \in {"rest", "conflicts", "events", "briefings", "current"} =>
          run.at \notin Countries /\ run.told = Silent
    /\ requests = 0 /\ run.at \in {"zones", "overlays"} /\ run.cutEvents => StatsLackText

ZoneInv == BriefingsTypes /\ IndexInv /\ CutInv

LEMMA ToldTyped ==
  ASSUME today \in Nat, NEW n \in Told
  PROVE  /\ Unwritten \in Told /\ Asked(n) \subseteq Told
         /\ \A m \in Told : Saved(n, m) \in Told
<1>1. Unwritten \in Told
  BY DEF Told, Unwritten
<1>2. n.history \in BOOLEAN /\ n.analysis \in Nat
  BY DEF Told
<1>3. Asked(n) \subseteq Told
  BY <1>2 DEF Asked, Told
<1>4. ASSUME NEW m \in Told PROVE Saved(n, m) \in Told
  <2>1. m.history \in BOOLEAN /\ m.analysis \in Nat
    BY DEF Told
  <2>2. (m.history \/ n.history) \in BOOLEAN
    OBVIOUS
  <2>3. (IF m.analysis # 0 THEN m.analysis ELSE n.analysis) \in Nat
    BY <1>2, <2>1
  <2> QED BY <2>2, <2>3 DEF Saved, Told
<1> QED BY <1>1, <1>3, <1>4

LEMMA RestTyped == Rest \in RunsOf
<1>1. Unwritten \in Told
  BY DEF Unwritten, Told
<1> QED BY <1>1 DEF Rest, RunsOf, Stages

LEMMA InitZones == BriefingsInit => ZoneInv
<1> SUFFICES ASSUME BriefingsInit PROVE ZoneInv
  OBVIOUS
<1>1. Unwritten \in Told
  BY DEF Unwritten, Told
<1>2. BriefingsTypes
  <2>1. DOMAIN <<>> = {}
    OBVIOUS
  <2>2. NoRequest.row \in Told /\ DOMAIN NoRequest.rows = {} /\ DOMAIN stats = {}
    BY <1>1, <2>1 DEF NoRequest, BriefingsInit
  <2> QED BY <1>1, <2>2, RestTyped, BriefingsTyped DEF BriefingsInit, BriefingsTypes
<1>3. run.at = "rest" /\ ~run.cutEvents /\ run.told = Silent /\ request.at = "none"
  BY DEF BriefingsInit, Rest, NoRequest, Silent
<1>4. "rest" \notin Countries
  BY BriefingsTyped DEF Stages
<1> QED BY <1>2, <1>3, <1>4 DEF ZoneInv, IndexInv, CutInv

\* A run that begins anew, at rest.
LEMMA Rests ==
  ASSUME ZoneInv, BriefingsTypes', run'.at = "rest", ~run'.cutEvents, run'.told = Silent,
         requests' = 0 => request'.at = "none"
  PROVE  ZoneInv'
<1>1. "rest" \notin Countries
  BY BriefingsTyped DEF Stages
<1> QED BY <1>1 DEF ZoneInv, IndexInv, CutInv

LEMMA TypesStep == BriefingsTypes /\ [BriefingsNext]_briefingVars => BriefingsTypes'
<1> SUFFICES ASSUME BriefingsTypes, [BriefingsNext]_briefingVars PROVE BriefingsTypes'
  OBVIOUS
<1> USE DEF BriefingsTypes
<1>t. /\ Rest \in RunsOf /\ NoRequest.row \in Told /\ DOMAIN NoRequest.rows = {}
      /\ {"rest", "conflicts", "emptied", "events", "briefings", "current", "narratives", "zones", "overlays"} \subseteq Stages
      /\ Unwritten \in Told
  BY RestTyped DEF Unwritten, Told, NoRequest, Stages
<1>r. ASSUME NEW b \in BOOLEAN PROVE [Rest EXCEPT !.early = b] \in RunsOf
  BY <1>t DEF RunsOf
<1>e. run.early \in BOOLEAN /\ run.index \in SUBSET Countries
  BY DEF RunsOf
<1>1. CASE Day \/ War \/ UNCHANGED briefingVars
  BY <1>1 DEF Day, War, briefingVars
<1>2. CASE Cut \/ Start
  <2>1. run' \in RunsOf
    BY ZenonT(60), <1>2, <1>t DEF Cut, Start, RunsOf
  <2> QED BY <1>2, <2>1 DEF Cut, Start
<1>3. CASE Skip \/ WriteOverlays \/ EmptyCurrent
  <2>1. run' \in RunsOf
    BY <1>3, <1>r, <1>e DEF Skip, WriteOverlays, EmptyCurrent
  <2> QED BY <1>3, <2>1 DEF Skip, WriteOverlays, EmptyCurrent
<1>13. CASE EmptyBriefings
  <2>1. run' \in RunsOf
    BY <1>13, <1>t DEF EmptyBriefings, RunsOf
  <2> QED BY <1>13, <2>1 DEF EmptyBriefings
<1>4. CASE Conflicts
  <2>1. PICK much \in {"none", "some", "all"}, i \in SUBSET Countries :
           run' = [run EXCEPT !.at = "events", !.read = much, !.index = i]
    BY <1>4 DEF Conflicts, Indexed
  <2>2. run' \in RunsOf
    BY <2>1, <1>t DEF RunsOf
  <2> QED BY <1>4, <2>2 DEF Conflicts
<1>5. CASE Events \/ WriteBriefings \/ WriteCurrent \/ WriteStats \/ WriteZones
  <2>1. run' \in RunsOf
    BY ZenonT(60), <1>5, <1>t DEF Events, WriteBriefings, WriteCurrent, WriteStats, WriteZones, RunsOf
  <2>2. run.cutEvents \in BOOLEAN
    BY DEF RunsOf
  <2> QED BY <1>5, <2>1, <2>2, <1>e DEF Events, WriteBriefings, WriteCurrent, WriteStats, WriteZones
<1>6. CASE ReadNarrative
  <2>1. PICK c \in run.todo :
          IF NeedsNarrative(narratives[c])
          THEN run' = [run EXCEPT !.at = c, !.row = narratives[c]]
          ELSE run' = Tell(c, narratives[c])
    BY <1>6 DEF ReadNarrative
  <2>2. c \in Countries /\ narratives[c] \in Told
    BY <2>1 DEF RunsOf
  <2>3. CASE run' = [run EXCEPT !.at = c, !.row = narratives[c]]
    <3>1. run' \in RunsOf
      BY <2>2, <2>3 DEF RunsOf
    <3> QED BY <1>6, <3>1 DEF ReadNarrative
  <2>4. CASE run' = Tell(c, narratives[c])
    <3>1. run' \in RunsOf
      BY <2>2, <2>4, <1>t DEF RunsOf, Tell
    <3> QED BY <1>6, <3>1 DEF ReadNarrative
  <2> QED BY <2>1, <2>3, <2>4
<1>7. CASE SaveNarrative
  <2>1. PICK n \in Asked(run.row) : /\ narratives' = [narratives EXCEPT ![run.at] = Saved(@, n)]
                                    /\ run' = Tell(run.at, n)
    BY <1>7 DEF SaveNarrative
  <2>2. run.row \in Told /\ run.at \in Countries
    BY <1>7 DEF SaveNarrative, RunsOf
  <2>3. n \in Told /\ Saved(narratives[run.at], n) \in Told
    BY <2>1, <2>2, ToldTyped
  <2>4. run' \in RunsOf
    BY <2>1, <2>2, <2>3, <1>t DEF Tell, RunsOf
  <2>5. narratives' \in [Countries -> Told]
    BY <2>1, <2>2, <2>3
  <2> QED BY <1>7, <2>4, <2>5 DEF SaveNarrative
<1>8. CASE Untold
  <2>1. run' \in RunsOf
    BY <1>8, <1>t DEF Untold, RunsOf
  <2> QED BY <1>8, <2>1 DEF Untold
<1>9. CASE Request
  <2>1. PICK c \in DOMAIN stats : request'.row = narratives[c] /\ request'.rows = stats
    BY <1>9 DEF Request
  <2>2. request'.row \in Told
    BY <2>1
  <2>3. requests' \in Nat
    BY <1>9 DEF Request
  <2> QED BY <1>9, <2>1, <2>2, <2>3 DEF Request
<1>10. CASE AnswerRequest
  <2>1. PICK n \in Asked(request.row) : /\ narratives' = [narratives EXCEPT ![request.country] = Saved(@, n)]
                                        /\ request' = [request EXCEPT !.at = "told", !.row = n]
    BY <1>10 DEF AnswerRequest
  <2>2. n \in Told
    BY <2>1, ToldTyped
  <2>3. narratives' \in [Countries -> Told]
    <3> SUFFICES ASSUME request.country \in Countries PROVE Saved(narratives[request.country], n) \in Told
      BY <2>1
    <3> QED BY <2>2, ToldTyped
  <2>4. request'.row = n /\ request'.rows = request.rows
    BY <2>1 DEF AnswerRequest
  <2> QED BY <1>10, <2>2, <2>3, <2>4 DEF AnswerRequest
<1>11. CASE RequestFails \/ WriteAnswer
  BY <1>11, <1>t DEF RequestFails, WriteAnswer
<1>12. CASE Death \/ Reset
  BY <1>12, <1>t DEF Death, Reset, Restart
<1> QED BY <1>1, <1>2, <1>3, <1>4, <1>5, <1>6, <1>7, <1>8, <1>9, <1>10, <1>11, <1>12, <1>13 DEF BriefingsNext, Running, Api

\* A step of the run that only moves it on.
LEMMA RunsOn ==
  ASSUME ZoneInv, BriefingsTypes', UNCHANGED <<token, fighting, stats, request, requests>>, NEW s \in Stages, run'.at = s,
         run'.cutEvents = run.cutEvents, run.cut => run'.cut,
         run'.told = run.told,
         run.cutEvents => s \notin {"rest", "conflicts", "events"},
         s \in {"rest", "conflicts", "events", "briefings", "current"} => run.told = Silent,
         s \in {"current", "narratives", "zones", "overlays"} => briefings'.cut = run.cutEvents,
         s \in {"zones", "overlays"} => s = "overlays" /\ run.at = "zones",
         IndexInv'
  PROVE  ZoneInv'
<1>s. s \notin Countries
  BY BriefingsTyped
<1>1. StatsLackText' = StatsLackText
  BY DEF StatsLackText
<1>2. CutInv'
  BY <1>s, <1>1 DEF ZoneInv, CutInv, Silent
<1> QED BY <1>2 DEF ZoneInv

LEMMA ZoneStep == ZoneInv /\ [BriefingsNext]_briefingVars => ZoneInv'
<1> SUFFICES ASSUME ZoneInv, [BriefingsNext]_briefingVars PROVE ZoneInv'
  OBVIOUS
<1>t. BriefingsTypes /\ BriefingsTypes' /\ IndexInv /\ CutInv
  BY TypesStep DEF ZoneInv
<1>s. \A s \in Stages : s \notin Countries
  BY BriefingsTyped
<1>d. {"rest", "conflicts", "emptied", "events", "briefings", "current", "narratives", "zones", "overlays"} \subseteq Stages
  BY DEF Stages
<1>r. Rest.told = Silent /\ Rest.at = "rest" /\ ~Rest.cutEvents
  BY DEF Rest, Silent
<1>q. ASSUME NEW b PROVE LET e == [Rest EXCEPT !.early = b] IN e.told = Silent /\ e.at = "rest" /\ ~e.cutEvents
  BY DEF Rest, Silent
<1>f. run \in RunsOf /\ run.index \subseteq Countries
  BY <1>t DEF BriefingsTypes, RunsOf
<1>1. CASE Day \/ War \/ Api \/ UNCHANGED briefingVars
  <2>1. UNCHANGED <<briefings, current, run, token>> /\ (fighting' = fighting \/ run.at = "rest")
    BY <1>1, <1>r DEF Day, War, briefingVars, Api, Request, AnswerRequest, RequestFails, WriteAnswer
  <2>2. requests' = 0 => requests = 0 /\ UNCHANGED <<stats, request>>
    <3>1. requests \in Nat /\ (requests = 0 => request.at = "none")
      BY <1>t DEF CutInv, BriefingsTypes
    <3>2. CASE Request
      BY SMTT(60), <3>1, <3>2 DEF Request
    <3>3. CASE AnswerRequest \/ RequestFails \/ WriteAnswer
      BY <3>1, <3>3 DEF AnswerRequest, RequestFails, WriteAnswer
    <3> QED BY <1>1, <3>2, <3>3 DEF Day, War, briefingVars, Api
  <2>3. IndexInv'
    BY <1>t, <1>d, <2>1 DEF IndexInv
  <2>4. UNCHANGED stats => StatsLackText' = StatsLackText
    BY DEF StatsLackText
  <2>5. CutInv'
    BY <1>t, <2>1, <2>2, <2>4 DEF CutInv, Silent
  <2> QED BY SMTT(60), <1>t, <2>3, <2>5 DEF ZoneInv
<1>2. CASE Skip \/ WriteOverlays \/ EmptyCurrent \/ Death \/ Reset
  <2>1. run'.at = "rest" /\ ~run'.cutEvents /\ run'.told = Silent
    BY <1>2, <1>r, <1>q DEF Skip, WriteOverlays, EmptyCurrent, Death, Reset, Restart
  <2>2. requests' = 0 => request'.at = "none"
    <3>1. NoRequest.at = "none"
      BY DEF NoRequest
    <3>2. requests = 0 => request.at = "none"
      BY <1>t DEF CutInv
    <3> QED BY <1>2, <3>1, <3>2 DEF Skip, WriteOverlays, EmptyCurrent, Death, Reset, Restart
  <2> QED BY <1>t, <2>1, <2>2, Rests
<1>3. CASE Start
  <2>1. /\ run' = [run EXCEPT !.at = "conflicts"] /\ run.at = "rest"
        /\ UNCHANGED <<token, fighting, briefings, stats, request, requests>>
    BY <1>3 DEF Start
  <2>2. run'.at = "conflicts" /\ run'.told = run.told /\ run'.cut = run.cut /\ run'.cutEvents = run.cutEvents
    BY <2>1, <1>f DEF RunsOf
  <2>3. run.told = Silent /\ ~run.cutEvents
    BY <2>1, <1>t DEF CutInv
  <2>4. IndexInv'
    BY <2>2 DEF IndexInv
  <2> QED BY <1>t, <1>d, <2>1, <2>2, <2>3, <2>4, RunsOn
<1>4. CASE Cut
  <2>1. run' = [run EXCEPT !.cut = TRUE] /\ UNCHANGED <<token, fighting, briefings, current, stats, request, requests>>
    BY <1>4 DEF Cut
  <2>2. /\ run'.cut /\ run'.at = run.at /\ run'.told = run.told /\ run'.cutEvents = run.cutEvents
        /\ run'.index = run.index /\ run'.read = run.read
    BY <2>1, <1>f DEF RunsOf
  <2>3. StatsLackText' = StatsLackText
    BY <2>1 DEF StatsLackText
  <2>4. IndexInv'
    BY <1>t, <2>1, <2>2 DEF IndexInv
  <2>5. CutInv'
    BY <1>t, <2>1, <2>2, <2>3 DEF CutInv, Silent
  <2> QED BY <1>t, <2>4, <2>5 DEF ZoneInv
<1>5. CASE Conflicts
  <2>1. PICK much \in {"none", "some", "all"}, i \in SUBSET Countries :
           /\ run' = [run EXCEPT !.at = "events", !.read = much, !.index = i]
           /\ i = {} /\ current # {} => much = "some" \/ fighting = {}
    <3>1. PICK some \in SUBSET fighting, much \in {"none", "some", "all"} :
             /\ run' = [run EXCEPT !.at = "events", !.read = much, !.index = Indexed(some, much = "none")]
             /\ some = fighting \/ much = "some" \/ (some = {} /\ much = "none")
      <4>1. CASE run' = [run EXCEPT !.at = "events", !.read = "all", !.index = Indexed(fighting, FALSE)]
        BY <4>1
      <4>2. CASE \E f \in SUBSET fighting : run' = [run EXCEPT !.at = "events", !.read = "some", !.index = Indexed(f, FALSE)]
        BY <4>2
      <4>3. CASE run' = [run EXCEPT !.at = "events", !.read = "none", !.index = Indexed({}, TRUE)]
        BY <4>3
      <4> QED BY <1>5, <4>1, <4>2, <4>3 DEF Conflicts
    <3>2. Indexed(some, much = "none") \in SUBSET Countries
      BY <1>t DEF Indexed, BriefingsTypes
    <3>3. Indexed(some, much = "none") = {} /\ current # {} => much = "some" \/ fighting = {}
      BY <3>1 DEF Indexed
    <3> QED BY <3>1, <3>2, <3>3
  <2>2. run.at = "conflicts" /\ UNCHANGED <<token, fighting, briefings, current, stats, request, requests>>
    BY <1>5 DEF Conflicts
  <2>3. /\ run'.at = "events" /\ run'.told = run.told /\ run'.cut = run.cut /\ run'.cutEvents = run.cutEvents
        /\ run'.index = {} /\ current # {} => run'.read = "some" \/ fighting = {}
    BY <2>1, <1>f DEF RunsOf
  <2>4. run.told = Silent /\ ~run.cutEvents
    BY <2>2, <1>t DEF CutInv
  <2>5. IndexInv'
    BY <2>2, <2>3 DEF IndexInv
  <2> QED BY <1>t, <1>d, <2>2, <2>3, <2>4, <2>5, RunsOn
<1>6. CASE Events
  <2>1. /\ run' = [run EXCEPT !.at = "briefings", !.cutEvents = run.cut] /\ run.at = "events"
        /\ UNCHANGED <<token, fighting, briefings, current, stats, request, requests>>
    BY <1>6 DEF Events
  <2>2. /\ run'.at = "briefings" /\ run'.told = run.told /\ run'.cut = run.cut /\ run'.cutEvents = run.cut
        /\ run'.index = run.index /\ run'.read = run.read
    BY <2>1, <1>f DEF RunsOf
  <2>3. run.told = Silent
    BY <2>1, <1>t DEF CutInv
  <2>4. "briefings" \notin Countries
    BY <1>s, <1>d
  <2>5. IndexInv'
    BY <1>t, <2>1, <2>2 DEF IndexInv
  <2>6. CutInv'
    BY <1>t, <2>1, <2>2, <2>3, <2>4 DEF CutInv, Silent
  <2> QED BY <1>t, <2>5, <2>6 DEF ZoneInv
<1>7. CASE WriteBriefings
  <2>1. /\ run' = [run EXCEPT !.at = "current"] /\ run.at = "briefings" /\ briefings'.cut = run.cutEvents
        /\ UNCHANGED <<token, fighting, current, stats, request, requests>>
    BY <1>7 DEF WriteBriefings
  <2>2. /\ run'.at = "current" /\ run'.told = run.told /\ run'.cut = run.cut /\ run'.cutEvents = run.cutEvents
        /\ run'.index = run.index /\ run'.read = run.read
    BY <2>1, <1>f DEF RunsOf
  <2>3. run.told = Silent
    BY <2>1, <1>t DEF CutInv
  <2>4. IndexInv'
    BY <1>t, <2>1, <2>2 DEF IndexInv
  <2> QED BY <1>t, <1>d, <2>1, <2>2, <2>3, <2>4, RunsOn
<1>8. CASE WriteCurrent
  <2>1. /\ run' = [run EXCEPT !.at = "narratives", !.todo = run.index] /\ run.at = "current"
        /\ UNCHANGED <<token, fighting, briefings, stats, request, requests>>
    BY <1>8 DEF WriteCurrent
  <2>2. run'.at = "narratives" /\ run'.told = run.told /\ run'.cut = run.cut /\ run'.cutEvents = run.cutEvents
    BY <2>1, <1>f DEF RunsOf
  <2>3. briefings.cut = run.cutEvents
    BY <2>1, <1>t DEF CutInv
  <2>4. IndexInv'
    BY <2>2 DEF IndexInv
  <2> QED BY <1>t, <1>d, <2>1, <2>2, <2>3, <2>4, RunsOn
<1>9. CASE ReadNarrative \/ SaveNarrative
  <2>1. /\ ~run.cut /\ run.at \in {"narratives"} \cup Countries
        /\ UNCHANGED <<token, fighting, briefings, current, stats, request, requests>>
    BY <1>9 DEF ReadNarrative, SaveNarrative
  <2>2. run'.at \in {"narratives"} \cup Countries /\ run'.cutEvents = run.cutEvents /\ run'.cut = run.cut
    <3>1. CASE \E c, n : run' = Tell(c, n)
      BY <3>1, <1>f DEF Tell, RunsOf
    <3>2. CASE \E c \in run.todo : \E n : run' = [run EXCEPT !.at = c, !.row = n]
      <4>1. PICK c \in run.todo : \E n : run' = [run EXCEPT !.at = c, !.row = n]
        BY <3>2
      <4>2. c \in Countries
        BY <1>f DEF RunsOf
      <4> QED BY <4>1, <4>2, <1>f DEF RunsOf
    <3>3. CASE SaveNarrative
      BY <3>1, <3>3 DEF SaveNarrative
    <3>4. CASE ReadNarrative
      BY <3>1, <3>2, <3>4 DEF ReadNarrative
    <3> QED BY <1>9, <3>3, <3>4
  <2>3. ~run.cutEvents /\ briefings.cut = run.cutEvents
    BY <2>1, <1>t DEF CutInv
  <2>4. \A c \in {"narratives"} \cup Countries :
           c \notin {"rest", "conflicts", "emptied", "events", "briefings", "current", "zones", "overlays"}
    BY <1>s, <1>d
  <2>5. IndexInv'
    BY <2>2, <2>4 DEF IndexInv
  <2>6. CutInv'
    BY <1>t, <2>1, <2>2, <2>3, <2>4 DEF CutInv
  <2> QED BY <1>t, <2>5, <2>6 DEF ZoneInv
<1>10. CASE Untold
  <2>1. /\ run' = [run EXCEPT !.at = "narratives", !.todo = {}] /\ run.at \in Countries \cup {"narratives"}
        /\ UNCHANGED <<token, fighting, briefings, stats, request, requests>>
    BY <1>10 DEF Untold
  <2>2. run'.at = "narratives" /\ run'.told = run.told /\ run'.cut = run.cut /\ run'.cutEvents = run.cutEvents
    BY <2>1, <1>f DEF RunsOf
  <2>3. briefings.cut = run.cutEvents
    BY <2>1, <1>t DEF CutInv
  <2>4. IndexInv'
    BY <2>2 DEF IndexInv
  <2> QED BY <1>t, <1>d, <2>1, <2>2, <2>3, <2>4, RunsOn
<1>11. CASE WriteStats
  <2>1. /\ run' = [run EXCEPT !.at = "zones"] /\ run.at = "narratives"
        /\ UNCHANGED <<token, fighting, briefings, request, requests>>
    BY <1>11 DEF WriteStats
  <2>2. run'.at = "zones" /\ run'.told = run.told /\ run'.cut = run.cut /\ run'.cutEvents = run.cutEvents
    BY <2>1, <1>f DEF RunsOf
  <2>3. run.cutEvents => StatsLackText'
    <3> SUFFICES ASSUME run.cutEvents PROVE StatsLackText'
      OBVIOUS
    <3>1. run.told = Silent
      BY <1>t DEF CutInv
    <3>2. stats' = [c \in run.index |->
                      [history |-> run.told[c].history, analysis |-> run.told[c].analysis, whole |-> TRUE]]
      BY <1>11 DEF WriteStats
    <3>3. \A c \in run.index : stats'[c].analysis = 0
      BY <3>1, <3>2, <1>f DEF Silent, Unwritten
    <3>4. CASE run.index = {}
      <4>1. stats' = <<>>
        BY <3>2, <3>4
      <4> QED BY <4>1 DEF StatsLackText
    <3>5. CASE run.index # {}
      BY <3>2, <3>3, <3>5 DEF StatsLackText
    <3> QED BY <3>4, <3>5
  <2>4. "zones" \notin Countries
    BY <1>s, <1>d
  <2>5. IndexInv'
    BY <2>2 DEF IndexInv
  <2>6. CutInv'
    BY <1>t, <2>1, <2>2, <2>3, <2>4 DEF CutInv, Silent
  <2> QED BY <1>t, <2>5, <2>6 DEF ZoneInv
<1>12. CASE WriteZones
  <2>1. /\ run' = [run EXCEPT !.at = "overlays"] /\ run.at = "zones"
        /\ UNCHANGED <<token, fighting, briefings, stats, request, requests>>
    BY <1>12 DEF WriteZones
  <2>2. run'.at = "overlays" /\ run'.told = run.told /\ run'.cut = run.cut /\ run'.cutEvents = run.cutEvents
    BY <2>1, <1>f DEF RunsOf
  <2>3. briefings.cut = run.cutEvents
    BY <2>1, <1>t DEF CutInv
  <2>4. IndexInv'
    BY <2>2 DEF IndexInv
  <2> QED BY <1>t, <1>d, <2>1, <2>2, <2>3, <2>4, RunsOn
<1>13. CASE EmptyBriefings
  <2>1. /\ run' = [run EXCEPT !.at = "emptied"] /\ run.at = "conflicts" /\ ~token
        /\ UNCHANGED <<token, fighting, stats, request, requests>>
    BY <1>13 DEF EmptyBriefings
  <2>2. run'.at = "emptied" /\ run'.told = run.told /\ run'.cut = run.cut /\ run'.cutEvents = run.cutEvents
    BY <2>1, <1>f DEF RunsOf
  <2>3. ~run.cutEvents
    BY <2>1, <1>t DEF CutInv
  <2>4. IndexInv'
    BY <2>1, <2>2 DEF IndexInv
  <2> QED BY <1>t, <1>d, <2>1, <2>2, <2>3, <2>4, RunsOn
<1> QED BY <1>1, <1>2, <1>3, <1>4, <1>5, <1>6, <1>7, <1>8, <1>9, <1>10, <1>11, <1>12, <1>13 DEF BriefingsNext, Running

\* The invariant of the briefings.
THEOREM ZonesTold == BriefingsSpec => []ZoneInv
<1> QED BY InitZones, ZoneStep, PTL DEF BriefingsSpec

\* A read of the conflicts that failed, or that brought all of them, does not empty the file of an
\* earlier run although there are conflicts (run.go:2630-2633): for every set of countries, every period
\* and however the run is cut, dies and starts again.  One that lacks a token, or got some of the pages, may.
THEOREM LastGoodStays == BriefingsSpec => LastGoodIsKept
<1>1. ZoneInv /\ [BriefingsNext]_briefingVars =>
         (current # {} /\ current' = {} => ~token \/ run.read = "some" \/ fighting = {})
  <2> SUFFICES ASSUME ZoneInv, [BriefingsNext]_briefingVars, current # {}, current' = {}
               PROVE  ~token \/ run.read = "some" \/ fighting = {}
    BY SMTT(60)
  <2>1. WriteCurrent \/ EmptyCurrent
    BY DEF BriefingsNext, Running, Api, Day, War, Cut, Skip, Start, Conflicts, EmptyBriefings, Events, WriteBriefings, ReadNarrative,
           SaveNarrative, Untold, WriteStats, WriteZones, WriteOverlays, Request, AnswerRequest, RequestFails,
           WriteAnswer, Death, Reset, Restart, briefingVars
  <2> QED BY <2>1 DEF WriteCurrent, EmptyCurrent, ZoneInv, IndexInv
<1> QED BY <1>1, ZonesTold, PTL DEF BriefingsSpec, LastGoodIsKept

\* What the early run had no time for is written again by the run at the end of the sweep.
THEOREM CutRunsRepeat == BriefingsSpec => CutIsMadeGood
<1>1. ZoneInv /\ [BriefingsNext]_briefingVars => (WriteOverlays /\ requests = 0 /\ briefings'.cut => ~Fresh')
  <2> SUFFICES ASSUME ZoneInv, WriteOverlays, requests = 0, briefings'.cut PROVE ~Fresh'
    OBVIOUS
  <2>1. run.cutEvents /\ run.at = "overlays" /\ stats' = stats
    BY DEF WriteOverlays, ZoneInv, CutInv
  <2>2. StatsLackText
    BY <2>1 DEF ZoneInv, CutInv
  <2>3. StatsNeedRefresh'
    BY <2>1, <2>2 DEF StatsLackText, StatsNeedRefresh, NeedsNarrative, OldAnalysis
  <2> QED BY <2>3 DEF Fresh
<1> QED BY <1>1, ZonesTold, PTL DEF BriefingsSpec, CutIsMadeGood

\* A text that is stored stays: Saved overwrites none with an empty one, whoever stores last.
THEOREM NarrativesStay == BriefingsSpec => NarrativeIsKept
<1>1. ZoneInv /\ [BriefingsNext]_briefingVars =>
         (~Reset => \A c \in Countries : /\ narratives[c].history => narratives'[c].history
                                         /\ narratives[c].analysis # 0 => narratives'[c].analysis # 0)
  <2> DEFINE Stay == \A c \in Countries : /\ narratives[c].history => narratives'[c].history
                                          /\ narratives[c].analysis # 0 => narratives'[c].analysis # 0
  <2> SUFFICES ASSUME ZoneInv, [BriefingsNext]_briefingVars, ~Reset PROVE Stay
    OBVIOUS
  <2>1. narratives \in [Countries -> Told]
    BY DEF ZoneInv, BriefingsTypes
  <2>2. ASSUME NEW c, NEW n, narratives' = [narratives EXCEPT ![c] = Saved(@, n)] PROVE Stay
    BY <2>1, <2>2 DEF Saved
  <2>3. CASE UNCHANGED narratives
    BY <2>3
  <2>4. CASE SaveNarrative
    BY <2>2, <2>4 DEF SaveNarrative
  <2>5. CASE AnswerRequest
    BY <2>2, <2>5 DEF AnswerRequest
  <2>6. UNCHANGED narratives \/ SaveNarrative \/ AnswerRequest
    BY DEF BriefingsNext, Running, Api, Day, War, Cut, Skip, Start, Conflicts, EmptyBriefings, EmptyCurrent, Events, WriteBriefings,
           WriteCurrent,
           ReadNarrative, Untold, WriteStats, WriteZones, WriteOverlays, Request, RequestFails, WriteAnswer, Death,
           briefingVars
  <2> QED BY <2>3, <2>4, <2>5, <2>6
<1> QED BY <1>1, ZonesTold, PTL DEF BriefingsSpec, NarrativeIsKept

-----------------------------------------------------------------------------
(* The two decisions about the terror assessments, for every set of alerts.  *)

\* What the check found stands until something changes; what is kept has assessments, as an
\* answer without any is an error.
DueInv ==
    /\ due \in BOOLEAN /\ kept.known \in BOOLEAN
    /\ stands => (due <=> NeedsRefresh)
    /\ kept.known => kept.assessed # {}

LEMMA DueStep == DueInv /\ [TerrorNext]_terrorVars => DueInv'
<1> SUFFICES ASSUME DueInv, [TerrorNext]_terrorVars PROVE DueInv'
  OBVIOUS
<1>1. CASE UNCHANGED terrorVars
  <2>1. UNCHANGED <<listed, hour, kept, due, stands>>
    BY <1>1 DEF terrorVars
  <2>2. NeedsRefresh' <=> NeedsRefresh
    BY <2>1 DEF NeedsRefresh, Evidence, Hash, NewMaterial
  <2> QED BY <2>1, <2>2 DEF DueInv
<1>2. CASE SeeAlert
  BY <1>2 DEF SeeAlert, DueInv
<1>3. CASE HoursPass
  BY <1>3 DEF HoursPass, DueInv
<1>4. CASE Check
  <2>1. UNCHANGED <<listed, hour, kept>> /\ due' = NeedsRefresh
    BY <1>4 DEF Check
  <2>2. NeedsRefresh' <=> NeedsRefresh
    BY <2>1 DEF NeedsRefresh, Evidence, Hash, NewMaterial
  <2>3. due' \in BOOLEAN
    BY <2>1 DEF NeedsRefresh
  <2> QED BY <2>1, <2>2, <2>3 DEF DueInv
<1>5. CASE Refresh
  <2>1. ~stands' /\ due' = due
    BY <1>5 DEF Refresh
  <2>2. CASE kept' = kept
    BY <2>1, <2>2 DEF DueInv
  <2>3. CASE kept' # kept
    <3>1. PICK cs \in Assessable : kept' = [at |-> hour, hash |-> Hash(Evidence), evidence |-> ToSet(Evidence),
                            assessed |-> cs, known |-> TRUE]
      BY <1>5, <2>3 DEF Refresh
    <3>2. cs # {}
      BY DEF Assessable
    <3>3. kept'.known = TRUE /\ kept'.assessed = cs
      BY <3>1
    <3> QED BY <2>1, <3>2, <3>3 DEF DueInv
  <2> QED BY <2>2, <2>3
<1> QED BY <1>1, <1>2, <1>3, <1>4, <1>5 DEF TerrorNext

\* terrorAnalysisNeedsRefresh and refreshTerrorAnalysisFromLLM decide alike.
THEOREM ChecksAgree == TerrorSpec => DueMeansAsked
<1>1. TerrorInit => DueInv
  <2> SUFFICES ASSUME TerrorInit PROVE DueInv
    OBVIOUS
  <2>1. due = FALSE /\ stands = FALSE /\ kept.known = FALSE
    BY DEF TerrorInit, NothingKept
  <2> QED BY <2>1 DEF DueInv
<1>2. DueInv /\ [TerrorNext]_terrorVars => (Refresh /\ stands => asked' = due)
  <2> SUFFICES ASSUME DueInv, Refresh, stands PROVE asked' = due
    OBVIOUS
  <2>1. Asks <=> NeedsRefresh
    BY DEF DueInv, Asks, NeedsRefresh
  <2>2. due \in BOOLEAN /\ (due <=> NeedsRefresh)
    BY DEF DueInv
  <2>3. asked' \in BOOLEAN /\ (asked' <=> Asks)
    BY DEF Refresh, Asks
  <2>4. asked' <=> due
    BY <2>1, <2>2, <2>3
  <2> QED BY <2>2, <2>3, <2>4
<1> QED BY <1>1, <1>2, DueStep, PTL DEF TerrorSpec, DueMeansAsked
=============================================================================
