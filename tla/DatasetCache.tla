----------------------------- MODULE DatasetCache -----------------------------
(***************************************************************************)
(* The UCDP datasets of a sweep, each read page by page and kept in          *)
(* sources.db so that all pages are only read again when the first 100 items *)
(* of page 0 have changed: the conflict table, the battle deaths, the events *)
(* of a lens, the recent events of a country.  What the pages hold is        *)
(* abstracted to the edition of each chunk of the dataset; chunk 1 is what   *)
(* the hash covers, chunks 1 and 2 are page 0, and each other is a page.     *)
(*                                                                          *)
(* External: the service publishes new editions, also while it is read; it   *)
(* never takes one back.  Any request, any transaction may fail, the time    *)
(* of the sweep may be up, and the process may die between two of them.      *)
(***************************************************************************)
EXTENDS Integers, Sequences

CONSTANTS Datasets,    \* subset of the four kinds
          Chunks,      \* of a dataset
          MaxEditions, MaxReleases, MaxMishaps  \* bounds

ASSUME CacheTyped ==
    /\ Datasets \subseteq {"conflicts", "deaths", "events", "recent"}
    /\ Chunks \in Nat \ {0, 1} /\ MaxReleases \in Nat \ {0}
    /\ MaxEditions \in Nat /\ MaxMishaps \in Nat

VARIABLES dataset,
          served,    \* what the service serves: the edition of each chunk
          release,   \* the version of the dataset, or the end date of its events
          cache,     \* ucdp_dataset_cache by version; ucdp_lens_events
          lens,      \* ucdp_lens_state: what the events of the lens are of
          step, head, rows, \* the read: where it is, headHash, items
          answer,    \* what the sweep goes on with
          oldest,    \* history: front of the dataset when the read began
          mishaps
cacheVars == <<dataset, served, release, cache, lens, step, head, rows, answer, oldest, mishaps>>

Empty      == [hash |-> 0, rows |-> <<>>, known |-> FALSE]
NoAnswer   == [rows |-> <<>>, from |-> "none"]
\* ucdpHeadHash, ucdpConflictHeadHash, ucdpRowsHeadHash.
HeadHash(s) == IF s = <<>> THEN 0 ELSE s[1]
PageZero(s) == IF s = <<>> THEN s ELSE SubSeq(s, 1, 2)

CacheInit ==
    /\ dataset \in Datasets
    /\ served \in {<<>>, [c \in 1 .. Chunks |-> 1]}
    /\ release = 1 /\ cache = [r \in 1 .. MaxReleases |-> Empty]
    /\ lens = [release |-> 0, hash |-> 0]
    /\ step = "idle" /\ head = 0 /\ rows = <<>> /\ answer = NoAnswer /\ oldest = 0 /\ mishaps = 0

-----------------------------------------------------------------------------
\* External: some chunks change, or with a release or a day all may.  n is the next
\* edition.
Following(n) == /\ \A c \in DOMAIN served : served[c] < n
                /\ n - 1 \in {0} \cup {served[c] : c \in DOMAIN served}
Changes(cs) == \E n \in 1 .. MaxEditions :
    /\ Following(n)
    /\ served' = [c \in 1 .. Chunks |-> IF c \in cs \/ served = <<>> THEN n ELSE served[c]]
NewEdition ==
    /\ \E c \in 1 .. Chunks : Changes({c})
    /\ UNCHANGED <<dataset, release, cache, lens, step, head, rows, answer, oldest, mishaps>>
NewRelease ==
    /\ release < MaxReleases
    /\ release' = release + 1 /\ Changes(1 .. Chunks)
    /\ step = "idle" \* discoverUCDPVersions, once before the reads
    /\ UNCHANGED <<dataset, cache, lens, step, head, rows, answer, oldest, mishaps>>
Mishap == mishaps < MaxMishaps /\ mishaps' = mishaps + 1

\* LoadUCDPLensEvents, and GetUCDPDatasetCache of this version.
Cached == IF dataset = "events" THEN cache[1] ELSE cache[release]
\* The totals of the battle deaths are kept, and reused, even if there are none.
Usable == Cached.known /\ (Cached.rows # <<>> \/ dataset = "deaths")
\* GetUCDPLensState, or the hash beside the payload.
Unchanged(hash) == /\ Usable
                   /\ IF dataset = "events" THEN lens = [release |-> release, hash |-> hash]
                      ELSE Cached.hash = hash

Answers(s, from) == /\ answer' = [rows |-> s, from |-> from]
                    /\ step' = "idle" /\ head' = 0 /\ rows' = <<>>

\* fetchUCDPItemsForLensCached, fetchUCDPConflictsCached,
\* fetchUCDPBattleDeathsTotalsByCountryCached, fetchUCDPRecentEventsForCountryCached:
\* page 0, and what is kept if its head is the same.
ReadHead ==
    /\ step = "idle"
    /\ oldest' = HeadHash(served)
    /\ LET hash == HeadHash(served) IN
       IF Unchanged(hash) THEN Answers(Cached.rows, "cache")
       ELSE /\ head' = hash /\ answer' = NoAnswer
            /\ IF dataset \in {"conflicts", "deaths"} THEN step' = "again" /\ rows' = <<>>
               ELSE step' = "pages" /\ rows' = PageZero(served)
    /\ UNCHANGED <<dataset, served, release, cache, lens, mishaps>>
\* Page 0 does not answer: what is kept, whatever it is of; nothing if the
\* time is up, for then the database does not answer either.
HeadFails ==
    /\ step = "idle" /\ Mishap
    /\ oldest' = HeadHash(served)
    /\ \/ Usable /\ Answers(Cached.rows, "fallback")
       \/ Answers(<<>>, "error")
    /\ UNCHANGED <<dataset, served, release, cache, lens>>

\* fetchUCDPConflicts and fetchUCDPBattleDeathsTotalsByCountry begin with page 0 again.
ReadAgain ==
    /\ step = "again" /\ step' = "pages" /\ rows' = PageZero(served)
    /\ UNCHANGED <<dataset, served, release, cache, lens, head, answer, oldest, mishaps>>
AgainFails ==
    /\ step = "again" /\ Mishap /\ Answers(<<>>, "error")
    /\ UNCHANGED <<dataset, served, release, cache, lens, oldest>>

\* A later page, if page 0 has told of one; one that fails ends the read, and what there is goes on.
More == rows # <<>> /\ Len(rows) < Len(served)
ReadPage ==
    /\ step = "pages" /\ More
    /\ rows' = Append(rows, served[Len(rows) + 1])
    /\ UNCHANGED <<dataset, served, release, cache, lens, step, head, answer, oldest, mishaps>>
PageFails ==
    /\ step = "pages" /\ More /\ Mishap /\ step' = "store"
    /\ UNCHANGED <<dataset, served, release, cache, lens, head, rows, answer, oldest>>
\* The time is up: what there is goes on, and nothing can be stored.
TimeUp ==
    /\ step = "pages" /\ Mishap /\ Answers(rows, "service")
    /\ UNCHANGED <<dataset, served, release, cache, lens, oldest>>
LastPage ==
    /\ step = "pages" /\ ~More /\ step' = "store"
    /\ UNCHANGED <<dataset, served, release, cache, lens, head, rows, answer, oldest, mishaps>>

-----------------------------------------------------------------------------
Kept == [hash |-> head, rows |-> rows, known |-> TRUE]

\* UpsertUCDPDatasetCache: hash and payload in one statement.
StoreDataset ==
    /\ step = "store" /\ dataset # "events"
    /\ cache' = IF rows = <<>> /\ dataset # "deaths" THEN cache
                ELSE [cache EXCEPT ![release] = Kept]
    /\ Answers(rows, "service")
    /\ UNCHANGED <<dataset, served, release, lens, oldest, mishaps>>

\* persistUCDPLensCache: ReplaceUCDPLensEvents, and then UpsertUCDPLensState, two
\* transactions.
StoreEvents ==
    /\ step = "store" /\ dataset = "events" /\ step' = "state"
    /\ cache' = [cache EXCEPT ![1] = Kept]
    /\ UNCHANGED <<dataset, served, release, lens, head, rows, answer, oldest, mishaps>>
StoreState ==
    /\ step = "state"
    /\ lens' = [release |-> release, hash |-> head]
    /\ Answers(rows, "service")
    /\ UNCHANGED <<dataset, served, release, cache, oldest, mishaps>>
\* Mutant of StoreFails: goes on to the state when the events are not written.
StoreFailsGoesOn ==
    /\ step \in {"store", "state"} /\ Mishap /\ Answers(rows, "service")
    /\ lens' = IF dataset = "events" /\ step = "store" THEN [release |-> release, hash |-> head] ELSE lens
    /\ UNCHANGED <<dataset, served, release, cache, oldest>>

\* Neither is written, or not the second.
StoreFails ==
    /\ step \in {"store", "state"} /\ Mishap /\ Answers(rows, "service")
    /\ UNCHANGED <<dataset, served, release, cache, lens, oldest>>

\* The process dies; the next one starts with what is stored.
CacheDeath ==
    /\ step # "idle" /\ Mishap
    /\ step' = "idle" /\ head' = 0 /\ rows' = <<>> /\ answer' = NoAnswer
    /\ UNCHANGED <<dataset, served, release, cache, lens, oldest>>

Reading == ReadHead \/ ReadAgain \/ ReadPage \/ LastPage \/ StoreDataset \/ StoreEvents \/ StoreState
CacheNext == \/ NewEdition \/ NewRelease \/ Reading
             \/ HeadFails \/ AgainFails \/ PageFails \/ TimeUp \/ StoreFails \/ CacheDeath
CacheSpec == CacheInit /\ [][CacheNext]_cacheVars /\ WF_cacheVars(Reading)

-----------------------------------------------------------------------------
\* An answer of the service, or of the cache because page 0 is the same, is
\* never older at its front than what was served when the read began: what is
\* reused is of the head it is compared with, although the events and what
\* they are of are stored apart and either may be missing after a death.
FreshHead == answer.from \in {"service", "cache"} => HeadHash(answer.rows) >= oldest

\* run.go:4160-4161, "Pull full history so analyst metrics can include absolute
\* totals.  Cached lens state avoids refetching all pages when head page is
\* unchanged.", and run.go:4266, "with full pagination": when the service rests and
\* answers, sweeps come to have the whole dataset, pages that failed once included.
HistoryIsFull == []<>(answer.rows = served)
=============================================================================
