---------------------------- MODULE SourceRegistry ----------------------------
(***************************************************************************)
(* The registry of sources in the source database: the table `sources`, with *)
(* one row for each source id, and what the three writers of the program do  *)
(* to it: the merge of a seed file, the promotion of discovered sources and  *)
(* the backfill at every opening.  DeactivateSources, UpsertSourceCandidates *)
(* and ReplaceRegistry have no caller outside the tests, so `status` is      *)
(* always `active` and the table source_candidates is as an earlier release  *)
(* left it.                                                                  *)
(***************************************************************************)
EXTENDS Naturals, Sequences

CONSTANTS Ids,        \* source ids
          Urls,       \* URLs, normalised
          Listed,     \* URLs in the table source_candidates
          KnownDead   \* knownDeadFeedURLs

ASSUME RegistryTyped == Listed \subseteq Urls /\ KnownDead \subseteq Urls

Absent == "absent"
Promotions == {"candidate", "active", "validated", "rejected"}

\* A row, and an entry of a seed or a promoted source.
Rows    == [feed : Urls, promotion : Promotions]
NoRow   == [feed |-> Absent, promotion |-> Absent]
Tables  == [Ids -> Rows \cup {NoRow}]
Levels  == {"national", "regional", "local"}
Entries == [id : Ids, feed : Urls, promotion : Promotions \cup {""},
            level : Levels, trusted : BOOLEAN]  \* curated or of high value

Present(table, id) == table[id] # NoRow

\* defaultPromotionStatus: what an entry without a status of its own gets.
PromotionOf(e) ==
    CASE e.promotion # ""                       -> e.promotion
      [] e.level = "local"                      -> "rejected"
      [] e.level = "regional" /\ ~e.trusted     -> "validated"
      [] OTHER                                  -> "active"

\* Mutant of Kept: the conflict clause without its second case.
KeptNever(table, e) == FALSE

\* A rejected row is not made active by an entry that says `active` or nothing.
Kept(table, e) == table[e.id].promotion = "rejected" /\ PromotionOf(e) = "active"

\* upsertSource: everything but the promotion is the entry's.
Upserted(table, e) ==
    [table EXCEPT ![e.id] =
        [feed |-> e.feed,
         promotion |-> IF Kept(table, e) THEN "rejected" ELSE PromotionOf(e)]]

\* MergeRegistry, UpsertRegistrySources: one transaction, in the order given.
UpsertedAll(table, entries) ==
    LET after[n \in 0 .. Len(entries)] ==
            IF n = 0 THEN table ELSE Upserted(after[n - 1], entries[n])
    IN  after[Len(entries)]

\* Init, which comes first in every operation.
Backfilled(table) ==
    [id \in Ids |->
        IF table[id].promotion = "candidate" /\ table[id].feed \notin Listed
        THEN [table[id] EXCEPT !.promotion = "active"] ELSE table[id]]

Stored(table, entries) == UpsertedAll(Backfilled(table), entries)

\* LoadActiveSources and normalizeAll: what a sweep and a discovery pass see.
Loaded(table) ==
    {id \in Ids : /\ Backfilled(table)[id].promotion = "active"
                  /\ table[id].feed \notin KnownDead}
LoadedFeeds(table) == {table[id].feed : id \in Loaded(table)}
=============================================================================
