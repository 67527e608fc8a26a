------------------------------- MODULE FeedFetch -------------------------------
(***************************************************************************)
(* The fetches of one source, sweep after sweep: the conditional request,    *)
(* the fetcher of the source's type with its requests, the one retry, and    *)
(* what goes into the watermark (fetchOneSource, fetchOneSourceSlow).  What  *)
(* a fetcher makes of the site is an operator: which answers it can give     *)
(* when any of its requests may fail.                                        *)
(*                                                                          *)
(* External: the site changes at any time, also between two requests of one  *)
(* fetch, and every request may fail.  A 304 is only given for a document    *)
(* that has not changed.                                                     *)
(***************************************************************************)
EXTENDS Naturals, Sequences, FiniteSets, SequencesExt, FiniteSetsExt, ItemLists

CONSTANTS Items,
          Trait,      \* what the filters see in an item
          Setup,      \* the source's entry in the registry and the settings
          Kinds,      \* families of source types
          Contents,   \* what the site may serve, in document order
          PageSize, MaxEdits, MaxFailures

\* RSSItem, HTMLItem, and the conversion of a type of its own, which make an
\* alert of an item or, when it is old, a reference or without title, none.
Conversions == {"rss", "html", "own"}

\* Types that are read by pages; without credentials two of them answer nothing.
PagedKinds == {"fbi", "acled", "ucdp"}
Keyed      == {"acled", "ucdp"}

ASSUME FetchTyped ==
    /\ Trait \in [Items -> [date : Nat,    \* 0: no date that parses
                            words : SUBSET STRING, \* of title and summary
                            topical : BOOLEAN, \* for the dictionary of the category
                            gate : {"keep", "downgrade", "drop"}, \* noise gate
                            makes : SUBSET Conversions]]
    /\ Setup \in [include : SUBSET STRING, exclude : SUBSET STRING, stop : SUBSET STRING,
                  maxItems : Nat, window : Nat, browser : BOOLEAN,
                  credentials : SUBSET Keyed] \* what the settings have credentials for
    /\ Kinds \subseteq {"feed", "page", "channel", "x", "list", "merged", "details", "versioned"} \cup PagedKinds
    /\ Contents \subseteq Seq(Items) /\ <<>> \in Contents
    /\ PageSize \in Nat \ {0} /\ MaxEdits \in Nat /\ MaxFailures \in Nat

-----------------------------------------------------------------------------
\* classifySourceError: what is retried at once, what is a dead letter; the
\* rest waits for the next sweep.
Errors     == {"timeout", "not_found", "blocked"}
AtOnce     == {"timeout"}
DeadLetter == {"not_found"}
None       == "none"

\* perSourceLimit.
Limit(kind) == LET asked == IF Setup.maxItems > 0 THEN Setup.maxItems ELSE 20
               IN  IF kind # "page" /\ Setup.window > 0 THEN Min({asked, Setup.window}) ELSE asked
Cut(items, n) == SubSeq(items, 1, Min({n, Len(items)}))

\* filterKeywords, filterFeedKeywords, and the global stop words, which do not
\* hold for what is actionable all the same.
Overrides == {"wanted"}
Stopped(i)  == Trait[i].words \cap Setup.stop # {} /\ Trait[i].words \cap Overrides = {}
LetIn(i)    == /\ Setup.include = {} \/ Trait[i].words \cap Setup.include # {}
               /\ Trait[i].words \cap Setup.exclude = {}
               /\ ~Stopped(i)
Admitted == {i \in Items : LetIn(i)}

\* applyNoiseGate drops; what it downgrades stays.
Gated(i) == Trait[i].gate # "drop"

\* filterCategoryItems, which not every fetcher calls, and then the gate.
Dictionary == {"page", "channel", "x"}
Kept(kind) == {i \in Admitted : Gated(i) /\ (kind \in Dictionary => Trait[i].topical)}

\* sortFeedItemsNewest, stable; what has no date comes last.
Newer(i, j) == Trait[i].date > Trait[j].date
NewestFirst(items) ==
    LET at   == DOMAIN items
        rank == [k \in at |-> Cardinality({l \in at : \/ Newer(items[l], items[k])
                                                       \/ (l < k /\ ~Newer(items[k], items[l]))}) + 1]
    IN  [n \in at |-> items[CHOOSE k \in at : rank[k] = n]]

-----------------------------------------------------------------------------
\* The outcome of a fetcher: an error, or the items its alerts are made of.
Failed(e) == [error |-> e, items |-> <<>>]
Gives(s)  == [error |-> None, items |-> s]
As(c, s)  == Chosen(s, {i \in Items : c \in Trait[i].makes})

\* fetchWithFallbackURL: the first address that answers, or the last error; a
\* single address is no different.
Answers(outcome) == {outcome} \cup {Failed(e) : e \in Errors}

\* fetchRSS.
Feed(doc) ==
    LET kept == Chosen(doc, Kept("feed"))
    IN  Answers(Gives(As("rss", Cut(NewestFirst(kept), Limit("feed")))))

\* fetchHTML: in document order; the classifier, which is off by default, is in
\* AlertFilter.
Page(doc) == LET kept == Cut(Chosen(doc, Kept("page")), Limit("page"))
             IN  Answers(Gives(As("html", kept)))

\* fetchTelegram.
Channel(doc) ==
    LET kept == Chosen(doc, Kept("channel"))
    IN  Answers(Gives(As("html", Cut(NewestFirst(kept), Limit("channel")))))

\* fetchX: what the browser captures, or the anchors of the page.
Timeline(doc) ==
    LET alerts(s) == As("rss", Cut(NewestFirst(Chosen(s, Kept("x"))), Limit("x")))
        captured  == {s \in {SubSeq(doc, 1, n) : n \in 1 .. Len(doc)} : Setup.browser}
    IN  {Gives(alerts(s)) : s \in captured} \cup Answers(Gives(alerts(doc)))

\* One document, the first items of it that make an alert: fetchKEV and its like.
List(doc) == Answers(Gives(Cut(As("own", doc), Limit("list"))))

\* fetchFBIWanted, fetchACLED, fetchUCDP: pages until the limit, the end, or a
\* page other than the first that fails; nothing, and no error, without the
\* credentials that the type needs.
Unkeyed(kind) == kind \in Keyed \ Setup.credentials
Pages(kind, doc) ==
    LET last == Max({1} \cup {n \in 1 .. Len(doc) : (n - 1) * PageSize < Len(doc)})
    IN  {Failed(e) : e \in Errors}
          \cup {Gives(Cut(As("own", Cut(doc, n * PageSize)), Limit(kind))) : n \in 1 .. last}
Paged(kind, doc) == IF Unkeyed(kind) THEN {Gives(<<>>)} ELSE Pages(kind, doc)

\* fetchGDELT: queries that fail are left out, all of them if need be; what
\* several queries find counts once.
Merged(doc) ==
    LET answered == {Chosen(doc, found) : found \in SUBSET ToSet(doc)}
    IN  {Gives(As("own", Cut(NewestFirst(Chosen(s, Admitted)), Limit("merged")))) : s \in answered}

\* Mutant of Details: details that fail are left out, all of them if need be.
DetailsSwallow(doc) ==
    LET summaries == Cut(doc, Limit("details"))
    IN  {Failed(e) : e \in Errors}
          \cup {Gives(As("own", Chosen(summaries, read))) : read \in SUBSET ToSet(summaries)}

\* fetchMOWAS: the map, then a detail and a geography for each warning; one
\* without geography is kept, one without detail is not, and none is an error.
Details(doc) ==
    LET summaries == Cut(doc, Limit("details"))
        given     == {Chosen(summaries, read) : read \in SUBSET ToSet(summaries)}
    IN  {Failed(e) : e \in Errors}
          \cup {IF As("own", s) = <<>> /\ s # summaries THEN Failed("timeout") ELSE Gives(As("own", s)) : s \in given}

\* fetchSource.
Outcomes(kind, doc) ==
    CASE kind = "feed" -> Feed(doc)       [] kind = "page" -> Page(doc)
      [] kind = "channel" -> Channel(doc) [] kind = "x" -> Timeline(doc)
      [] kind = "list" -> List(doc)       [] kind \in PagedKinds -> Paged(kind, doc)
      [] kind = "merged" -> Merged(doc)   [] kind = "details" -> Details(doc)

-----------------------------------------------------------------------------
VARIABLES kind,
          site,      \* what is served, and its edition
          mark,      \* the watermark: last run ok, ETag, version as Last-Modified, alerts hashed
          pc, attempt, asked, \* the fetch: asked is what the conditional request has brought
          reply,     \* the last answer
          failures,
          delivered  \* history: the last edition whose alerts an answer has carried

fetchVars == <<kind, site, mark, pc, attempt, asked, reply, failures, delivered>>

NoMark  == [ok |-> FALSE, etag |-> 0, version |-> 0, hash |-> <<>>]
NoAsk   == [edition |-> 0, fresh |-> FALSE, index |-> 0]
NoReply == [status |-> "none", edition |-> 0, doc |-> <<>>, items |-> <<>>]

FetchInit ==
    /\ kind \in Kinds
    /\ \E doc \in Contents : site = [doc |-> doc, edition |-> 1]
    /\ mark = NoMark /\ pc = "idle" /\ attempt = 1 /\ asked = NoAsk
    /\ reply = NoReply /\ failures = 0 /\ delivered = 0

Publish ==
    /\ site.edition <= MaxEdits
    /\ \E doc \in Contents : site' = [doc |-> doc, edition |-> site.edition + 1]
    /\ UNCHANGED <<kind, mark, pc, attempt, asked, reply, failures, delivered>>

\* A request that may fail, within the bound.
May(e) == e # None => failures < MaxFailures
Spend(e) == failures' = IF e = None THEN failures ELSE failures + 1

\* The conditional request is for a mark that is ok and has an ETag or a
\* Last-Modified, which only versioned sources ever get.
Start ==
    /\ pc = "idle"
    /\ pc' = IF kind # "versioned" THEN "fetch"
             ELSE IF mark.ok /\ mark.version # 0 THEN "ask" ELSE "index"
    /\ attempt' = 1 /\ asked' = NoAsk /\ reply' = NoReply
    /\ UNCHANGED <<kind, site, mark, failures, delivered>>

\* recordSourceRun.
Recorded(status, etag, version, hashed) ==
    mark' = [ok |-> status # "error", etag |-> etag, version |-> version, hash |-> hashed]

\* A sweep's end for this source.
Answer(status, edition, doc, items) ==
    /\ pc' = "idle"
    /\ reply' = [status |-> status, edition |-> edition, doc |-> doc, items |-> items]

\* A fetch that has come through.  Alerts with the hash of those of the last run
\* are not handed over again, and their hash is not recorded again; the browser
\* lane does not ask.
Same(items) == kind # "x" /\ mark.ok /\ items # <<>> /\ items = mark.hash
Through(items, etag, version) ==
    /\ IF Same(items)
       THEN Answer("unchanged", site.edition, site.doc, <<>>) /\ Recorded("ok", etag, version, <<>>)
       ELSE Answer("ok", site.edition, site.doc, items) /\ Recorded("ok", etag, version, items)
    /\ delivered' = site.edition

\* TextConditional, the If-Modified-Since being the version.
NotModified ==
    /\ pc = "ask" /\ site.edition \in {mark.etag, mark.version}
    /\ Answer("not_modified", site.edition, site.doc, <<>>)
    /\ Recorded("ok", mark.etag, mark.version, <<>>)
    /\ UNCHANGED <<kind, site, attempt, asked, failures, delivered>>

\* A 200 is kept for the fetcher; an error is as if nobody had asked.
Ask ==
    /\ pc = "ask" /\ pc' = "check"
    /\ \E e \in {None, "timeout"} :
          /\ May(e) /\ Spend(e)
          /\ asked' = IF e = None THEN [edition |-> site.edition, fresh |-> TRUE, index |-> 0] ELSE NoAsk
    /\ UNCHANGED <<kind, site, mark, attempt, reply, delivered>>

\* skipOpenSanctionsIfCurrent reads the kept answer, or asks again.
Check ==
    /\ pc = "check"
    /\ \E e \in (IF asked.fresh THEN {None} ELSE {None, "timeout"}) :
          LET edition == IF asked.fresh THEN asked.edition ELSE site.edition
          IN  /\ May(e) /\ Spend(e)
              /\ IF e = None /\ edition = mark.version
                 THEN /\ Answer("not_modified", edition, site.doc, <<>>)
                      /\ Recorded("ok", 0, edition, <<>>)
                 ELSE pc' = "index" /\ UNCHANGED <<reply, mark>>
    /\ UNCHANGED <<kind, site, attempt, asked, delivered>>

\* An error: once more, if it is of a kind that may pass at once.
Fail(e) ==
    IF attempt = 1 /\ e \in AtOnce
    THEN /\ attempt' = 2 /\ UNCHANGED <<reply, mark>>
         /\ pc' = IF kind = "versioned" THEN "index" ELSE "fetch"
    ELSE /\ Answer("error", 0, <<>>, <<>>) /\ Recorded("error", 0, 0, <<>>) /\ UNCHANGED attempt

\* fetchOpenSanctions reads the index again, and needs the plain client for
\* the entities: with the kept answer the first attempt always fails.
Index ==
    /\ pc = "index"
    /\ \E e \in {None} \cup Errors :
          /\ May(e) /\ Spend(e)
          /\ IF e # None THEN Fail(e) /\ UNCHANGED asked
             ELSE IF asked.fresh /\ attempt = 1 THEN Fail("timeout") /\ UNCHANGED asked
             ELSE /\ pc' = "stream" /\ asked' = [asked EXCEPT !.index = site.edition]
                  /\ UNCHANGED <<attempt, reply, mark>>
    /\ UNCHANGED <<kind, site, delivered>>

\* Mutant of Stream: entities that cannot be read are recorded as an ok run.
StreamTolerant ==
    /\ pc = "stream"
    /\ \E e \in {None} \cup Errors :
          /\ May(e) /\ Spend(e) /\ UNCHANGED attempt
          /\ IF e = None THEN Through(Cut(site.doc, Limit(kind)), asked.edition, asked.index)
             ELSE /\ Answer("ok", site.edition, site.doc, <<>>)
                  /\ Recorded("ok", asked.edition, asked.index, <<>>) /\ UNCHANGED delivered
    /\ UNCHANGED <<kind, site, asked>>

\* The entities, and with them the version of the index that was read before.
Stream ==
    /\ pc = "stream"
    /\ \E e \in {None} \cup Errors :
          /\ May(e) /\ Spend(e)
          /\ IF e # None THEN Fail(e) /\ UNCHANGED delivered
             ELSE Through(Cut(site.doc, Limit(kind)), asked.edition, asked.index) /\ UNCHANGED attempt
    /\ UNCHANGED <<kind, site, asked>>

\* A fetcher of the other kinds, all of its requests.
Fetch ==
    /\ pc = "fetch"
    /\ \E o \in Outcomes(kind, site.doc) :
          /\ May(o.error) /\ Spend(o.error)
          /\ IF o.error # None THEN Fail(o.error) /\ UNCHANGED delivered
             ELSE Through(o.items, 0, 0) /\ UNCHANGED attempt
    /\ UNCHANGED <<kind, site, asked>>

FetchNext == Publish \/ Start \/ NotModified \/ Ask \/ Check \/ Index \/ Stream \/ Fetch
FetchSpec == FetchInit /\ [][FetchNext]_fetchVars

-----------------------------------------------------------------------------
\* The conversion of each kind, its filters after the keywords, and what of a
\* document no cut can take away.
Filtered     == {"feed", "page", "channel", "x"}
Made(k, i)   == (CASE k \in {"page", "channel"} -> "html" [] k \in {"feed", "x"} -> "rss" [] OTHER -> "own")
                   \in Trait[i].makes
Passes(k, i) == k \in Filtered => i \in Kept(k)
First(k, doc) == IF k \in PagedKinds THEN Cut(doc, PageSize) ELSE doc
Seen(k, doc) == LET let    == IF k \in Filtered THEN Chosen(First(k, doc), Admitted) ELSE First(k, doc)
                    sorted == IF k \in {"feed", "channel"} THEN NewestFirst(let) ELSE let
                IN  Cut(sorted, Limit(k))

\* What is answered with `not_modified` is known: alerts of that edition or of
\* a later one have been handed over before, although version and entities are
\* read by different requests, errors fall between them, and a retry reads
\* them anew (fetchOneSource, skipOpenSanctionsIfCurrent, fetchOpenSanctions).
NotModifiedIsKnown == reply.status = "not_modified" => reply.edition <= delivered

\* Of what a dated stream serves and the filters let in, the newest is what is
\* handed over: nothing that was left out is newer than something that was
\* not (the order of filter, sort and cut in fetchRSS, fetchTelegram, fetchX).
NewestIsDelivered ==
    reply.status = "ok" /\ kind \in {"feed", "channel"} =>
        \A i \in ToSet(reply.items), j \in ToSet(reply.doc) \ ToSet(reply.items) :
            j \in Kept(kind) /\ Made(kind, j) => ~Newer(j, i)

\* An ok run with nothing means that the site had nothing for us, whichever
\* requests failed, except that fetchGDELT leaves out all that fails, that a
\* browser may capture a part of a timeline, and that ACLED and UCDP give
\* nothing without credentials.  What counts is the first page of several, and
\* of what the keywords let in as much as the limit leaves of a document.
EmptyMeansEmpty ==
    reply.status = "ok" /\ reply.items = <<>> /\ kind \notin {"merged", "x"} /\ ~Unkeyed(kind) =>
        \A i \in ToSet(Seen(kind, reply.doc)) : ~(Passes(kind, i) /\ Made(kind, i))
=============================================================================
