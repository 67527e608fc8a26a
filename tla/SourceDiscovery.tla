---------------------------- MODULE SourceDiscovery ----------------------------
(***************************************************************************)
(* Three goroutines of one collector process around two shared things, the   *)
(* table of sources and the candidate queue, a JSON file without a lock:     *)
(*   - the discovery loop (discover.Run): gather candidates, crawl them with *)
(*     a pool of workers, have what they find vetted, promote what is        *)
(*     approved, and write the queue anew;                                   *)
(*   - the registry sync (syncRegistrySeed): merge the seed file into the    *)
(*     table whenever its hash is not the one recorded;                      *)
(*   - the sweep, which appends trend hints to the queue.                    *)
(* The process may die, or be told to stop: then the workers of the pool     *)
(* leave and the rest of the pass may still run, or not.                     *)
(*                                                                          *)
(* os.WriteFile truncates the queue and then fills it, and both readers take *)
(* a file that they cannot read or parse for one without candidates.         *)
(*                                                                          *)
(* External: sites answer anything at any time; the vetter (an LLM) gives    *)
(* any verdict; a read or write may fail.  Order in the queue is abstracted. *)
(***************************************************************************)
EXTENDS SourceRegistry, FiniteSets, Naturals

CONSTANTS Candidates,
          Key,         \* URL, or the base URL of a candidate without one
          Site,        \* candidateBaseURL
          IdOf,        \* sourceIDForCandidate, made from the authority's name
          Hygienic,    \* those that pass passesDiscoveryHygiene
          FeedAt,      \* the feed ProbeFeeds finds at a site, when it is up
          Curated,     \* the sovereign seeds, offered in every pass
          Structured,  \* what FIRST and Wikidata offer
          Found,       \* what searches may come up with
          Hints,       \* what trend spikes make, without any URL
          Seeds,       \* the successive editions of the seed file
          Workers,     \* size of the pool
          Deployments  \* what may run, with the bounds on it

NoUrl == "no url"

ASSUME DiscoveryTyped ==
    /\ NoUrl \notin Urls
    /\ Key \in [Candidates -> Urls \cup {NoUrl}] /\ Site \in [Candidates -> Urls \cup {NoUrl}]
    /\ IdOf \in [Candidates -> Ids] /\ FeedAt \in [Urls -> Urls]
    /\ Hygienic \cup Curated \cup Structured \cup Found \cup Hints \subseteq Candidates
    /\ \A c \in Hints : Key[c] = NoUrl /\ Site[c] = NoUrl
    /\ Seeds \in Seq(Seq(Entries)) /\ Workers \in Nat \ {0}
    /\ Deployments \subseteq
          [vetting : BOOLEAN,      \* SOURCE_VETTING_ENABLED
           entrypoint : BOOLEAN,   \* started by collector-entrypoint.sh
           table : Tables, queue : SUBSET Candidates, dead : SUBSET Urls,
           spikes : BOOLEAN,       \* sweeps find trend spikes
           editions : Nat,         \* bound on the editions of the seed
           faults : Nat,           \* bound on deaths and failed reads and writes
           stops : Nat]            \* bound on orderly shutdowns
    /\ \A d \in Deployments : d.editions \in 1 .. Len(Seeds)
    \* registry/source_registry.json says `active`, `rejected` or nothing.
    /\ \A edition \in DOMAIN Seeds : \A i \in DOMAIN Seeds[edition] :
          Seeds[edition][i].promotion # "candidate"

VARIABLES deployment,
          table,     \* table sources
          seed,      \* the edition of the seed file
          synced,    \* table registry_sync_state: the edition hashed last, 0 for none
          queue,     \* the candidate queue file
          due,       \* whether structured_discovery_state.json lets FIRST and Wikidata in
          up,        \* the process runs
          stopping,  \* its context is cancelled
          pass,      \* the discovery loop
          sync,      \* the registry sync
          hinting,   \* the sweep's queueTrendHints
          faults, stops,
          crawled,   \* history: candidates crawled so far
          refused,   \* history: ids rejected, and not told `validated` since
          blind      \* history: a read or a write of the queue has failed or met another

stored  == <<table, synced, queue, due>>
counts  == <<faults, stops>>
history == <<crawled, refused, blind>>
discVars == <<deployment, stored, seed, up, stopping, pass, sync, hinting, counts, history>>

\* What a pass holds.  `vetting` maps a candidate to the feed its worker has
\* reserved; `promoted` is in the order of the verdicts.
Verdicts == {"active", "validated", "rejected", "failed"}
NoPass == [pc |-> "idle", known |-> {}, gathered |-> {}, todo |-> {},
           vetting |-> [c \in Candidates |-> NoUrl], remaining |-> {},
           promoted |-> <<>>, queued |-> {}]
Promotion == [candidate : Candidates, feed : Urls, verdict : {"active", "validated"}]
Passes == [pc : {"idle", "generate", "load", "crawl", "promote", "write", "fill"},
           known : SUBSET Urls, gathered : SUBSET Candidates, todo : SUBSET Candidates,
           vetting : [Candidates -> Urls \cup {NoUrl}], remaining : SUBSET Candidates,
           promoted : Seq(Promotion), queued : SUBSET Candidates]

Approved    == {pass.promoted[i] : i \in DOMAIN pass.promoted}
InVetting   == {c \in Candidates : pass.vetting[c] # NoUrl}
Rejected(t) == {id \in Ids : t[id].promotion = "rejected"}

\* Entries reach the table, and the history of refusals follows.
Validated(entries) ==
    {id \in Ids : \E i \in DOMAIN entries : /\ entries[i].id = id
                                           /\ PromotionOf(entries[i]) = "validated"}
Writes(entries) ==
    /\ table' = Stored(table, entries)
    /\ refused' = Rejected(table') \cup (refused \ Validated(entries))

NoSync == [pc |-> "idle", edition |-> 0]
NoHint == [pc |-> "idle", read |-> {}]

DiscInit ==
    /\ deployment \in Deployments
    /\ table = deployment.table /\ refused = Rejected(deployment.table)
    /\ seed = 1 /\ synced = 0
    /\ queue = deployment.queue
    /\ due = TRUE /\ up = FALSE /\ stopping = FALSE
    /\ pass = NoPass /\ sync = NoSync /\ hinting = NoHint
    /\ faults = 0 /\ stops = 0 /\ crawled = {} /\ blind = FALSE

\* A step that may fail, within the bound.
Tries        == IF faults < deployment.faults THEN BOOLEAN ELSE {TRUE}
Spends(done) == faults' = IF done THEN faults ELSE faults + 1

-----------------------------------------------------------------------------
\* The process.  A new image may bring a new edition of the seed; the
\* container merges it before the collector starts.
Start ==
    /\ ~up /\ up' = TRUE
    /\ \E edition \in {seed, seed + 1} \cap 1 .. deployment.editions :
          /\ seed' = edition
          /\ IF deployment.entrypoint THEN Writes(Seeds[edition])
             ELSE UNCHANGED <<table, refused>>
    /\ UNCHANGED <<deployment, synced, queue, due, stopping, pass, sync, hinting, counts, crawled, blind>>

\* Somebody is between truncating the queue and filling it.
Torn == hinting.pc = "fill" \/ pass.pc = "fill"

Halted ==
    /\ up' = FALSE /\ stopping' = FALSE
    /\ pass' = NoPass /\ sync' = NoSync /\ hinting' = NoHint
    /\ blind' = (blind \/ Torn)
    /\ UNCHANGED <<deployment, stored, seed, stops, crawled, refused>>

Crash == up /\ faults < deployment.faults /\ faults' = faults + 1 /\ Halted
Exit  == up /\ stopping /\ Halted /\ UNCHANGED faults

Cancel ==
    /\ up /\ ~stopping /\ stops < deployment.stops
    /\ stopping' = TRUE /\ stops' = stops + 1
    /\ UNCHANGED <<deployment, stored, seed, up, pass, sync, hinting, faults, history>>

-----------------------------------------------------------------------------
\* The registry sync.  The file is read twice: for its hash and for the merge.
SyncRead ==
    /\ up /\ ~stopping /\ sync.pc = "idle" /\ synced # seed
    /\ sync' = [pc |-> "merge", edition |-> seed]
    /\ UNCHANGED <<deployment, stored, seed, up, stopping, pass, hinting, counts, history>>

SyncMerge ==
    /\ sync.pc = "merge"
    /\ \E done \in Tries :
          /\ Spends(done)
          /\ sync' = IF done THEN [sync EXCEPT !.pc = "record"] ELSE NoSync
          /\ IF done THEN Writes(Seeds[seed]) ELSE UNCHANGED <<table, refused>>
    /\ UNCHANGED <<deployment, synced, queue, due, seed, up, stopping, pass, hinting, stops, crawled, blind>>

SyncRecord ==
    /\ sync.pc = "record"
    /\ \E done \in Tries : Spends(done) /\ synced' = IF done THEN sync.edition ELSE synced
    /\ sync' = NoSync
    /\ UNCHANGED <<deployment, table, queue, due, seed, up, stopping, pass, hinting, stops, history>>

-----------------------------------------------------------------------------
\* os.ReadFile and Unmarshal of the queue: whatever goes wrong, there are no
\* candidates.
Reads(found) ==
    \E done \in Tries :
        /\ Spends(done)
        /\ found = IF done THEN queue ELSE {}
        /\ blind' = (blind \/ ~done \/ Torn)

\* Its write, when the file is open and empty.  It may be cut short, and when
\* another has filled the file since, the longer of the two leaves a tail that
\* nobody can parse.
Fills(candidates) ==
    \E done \in Tries : \E whole \in (IF done THEN {TRUE, queue = {}} ELSE {FALSE}) :
        /\ Spends(done)
        /\ queue' = IF whole THEN candidates ELSE {}
        /\ blind' = (blind \/ ~whole)

\* queueTrendHints, of a sweep that found spikes: read, then write.
HintRead ==
    /\ up /\ ~stopping /\ hinting.pc = "idle" /\ deployment.spikes
    /\ \E found \in {queue, {}} : Reads(found) /\ hinting' = [pc |-> "write", read |-> found]
    /\ UNCHANGED <<deployment, stored, seed, up, stopping, pass, sync, stops, crawled, refused>>

HintWrite ==
    /\ hinting.pc = "write"
    /\ \E done \in Tries :
          /\ Spends(done)
          /\ queue' = IF done THEN {} ELSE queue
          /\ hinting' = IF done THEN [pc |-> "fill", read |-> hinting.read] ELSE NoHint
    /\ UNCHANGED <<deployment, table, synced, due, seed, up, stopping, pass, sync, stops, history>>

HintFill ==
    /\ hinting.pc = "fill"
    /\ Fills(hinting.read \cup Hints)
    /\ hinting' = NoHint
    /\ UNCHANGED <<deployment, table, synced, due, seed, up, stopping, pass, sync, stops, crawled, refused>>

-----------------------------------------------------------------------------
\* The discovery loop.  A registry that cannot be read counts as empty.
Begin ==
    /\ up /\ ~stopping /\ pass.pc = "idle"
    /\ \E done \in Tries :
          /\ Spends(done)
          /\ pass' = [NoPass EXCEPT !.pc = "generate",
                                   !.known = IF done THEN LoadedFeeds(table) ELSE {}]
    /\ UNCHANGED <<deployment, stored, seed, up, stopping, sync, hinting, stops, history>>

\* generateAutonomousCandidates: the curated seeds; when they are due, FIRST
\* and Wikidata, whose answer is marked at once; and what searches bring.
Generate ==
    /\ pass.pc = "generate"
    /\ \E answered \in (IF due THEN BOOLEAN ELSE {FALSE}), found \in SUBSET Found :
          /\ due' = (due /\ ~answered)
          /\ pass' = [pass EXCEPT !.pc = "load",
                !.gathered = Curated \cup found \cup (IF answered THEN Structured ELSE {})]
    /\ UNCHANGED <<deployment, table, synced, queue, seed, up, stopping, sync, hinting, counts, history>>

\* The cadence of FIRST and Wikidata has gone by.
Elapse ==
    /\ ~due /\ due' = TRUE
    /\ UNCHANGED <<deployment, table, synced, queue, seed, up, stopping, pass, sync, hinting, counts, history>>

Dead(c) == Key[c] \in deployment.dead \/ Site[c] \in deployment.dead
Admitted(c) == ~Dead(c) /\ Key[c] # NoUrl /\ Key[c] \notin pass.known

\* mergeCandidates: one candidate for each key, the queue's before the others.
IsMerge(chosen, queued, gathered) ==
    LET admitted == {c \in queued \cup gathered : Admitted(c)}
    IN /\ chosen \subseteq admitted
       /\ \A c \in admitted : \E d \in chosen :
             Key[d] = Key[c] /\ (c \in queued => d \in queued)
       /\ \A c, d \in chosen : Key[c] = Key[d] => c = d

Load ==
    /\ pass.pc = "load"
    /\ \E found \in {queue, {}}, chosen \in SUBSET Candidates :
          /\ Reads(found) /\ IsMerge(chosen, found, pass.gathered)
          /\ pass' = [pass EXCEPT !.pc = "crawl", !.todo = chosen, !.gathered = {},
                                 !.queued = chosen \cap found]
    /\ UNCHANGED <<deployment, stored, seed, up, stopping, sync, hinting, stops, crawled, refused>>

\* A worker takes a candidate.
Takes(c) == /\ pass.pc = "crawl" /\ c \in pass.todo /\ ~stopping
            /\ Cardinality(InVetting) < Workers
Crawled(c, next) ==
    /\ Takes(c)
    /\ pass' = [next EXCEPT !.todo = @ \ {c}]
    /\ crawled' = crawled \cup {c}
    /\ UNCHANGED <<deployment, stored, seed, up, stopping, sync, hinting, counts, refused, blind>>

Crawlable(c) == c \in Hygienic /\ Site[c] # NoUrl
Refuse(c) == ~Crawlable(c) /\ Crawled(c, pass)

\* What the site shows: its feed, or the page itself.
Shown(c) == {FeedAt[Site[c]], Key[c]}

\* Mutant of Reserved: the feeds taken in this pass are not looked up.
ReservedBefore(url) == url \in LoadedFeeds(table)

\* tryReserveFeedURL.
Reserved(url) == url \in pass.known

\* The feed is taken, for the vetter or, without one, for the report only.
Discover(c) ==
    /\ Crawlable(c)
    /\ \E url \in Shown(c) :
          /\ ~Reserved(url)
          /\ Crawled(c, [pass EXCEPT !.known = @ \cup {url},
                                    !.vetting[c] = IF deployment.vetting THEN url ELSE NoUrl])

\* Nothing new: another has the feed, or the site shows none.  The candidate
\* stays when shouldRetryCandidateQueue finds that the site still answers.
Miss(c) ==
    /\ Crawlable(c)
    /\ \E keep \in BOOLEAN :
          Crawled(c, IF keep THEN [pass EXCEPT !.remaining = @ \cup {c}] ELSE pass)

\* vetAndPromote, thresholds included.
Vet(c) ==
    /\ c \in InVetting
    /\ \E verdict \in Verdicts :
          pass' = [pass EXCEPT !.vetting[c] = NoUrl,
             !.promoted = IF verdict \in {"rejected", "failed"} THEN @
                          ELSE Append(@, [candidate |-> c, feed |-> pass.vetting[c],
                                          verdict |-> verdict])]
    /\ UNCHANGED <<deployment, stored, seed, up, stopping, sync, hinting, counts, history>>

\* Mutant of Report: the wait for the pool watches the vetting only.
ReportEarly ==
    /\ pass.pc = "crawl" /\ InVetting = {}
    /\ \E done \in Tries :
          /\ Spends(done)
          /\ pass' = IF done THEN [pass EXCEPT !.pc = "promote", !.todo = {}] ELSE NoPass
    /\ UNCHANGED <<deployment, stored, seed, up, stopping, sync, hinting, stops, history>>

\* The pool is done.  Without the report the pass ends here.
Report ==
    /\ pass.pc = "crawl" /\ InVetting = {} /\ (pass.todo = {} \/ stopping)
    /\ \E done \in Tries :
          /\ Spends(done)
          /\ pass' = IF done THEN [pass EXCEPT !.pc = "promote", !.todo = {}] ELSE NoPass
    /\ UNCHANGED <<deployment, stored, seed, up, stopping, sync, hinting, stops, history>>

EntryOf(p) == [id |-> IdOf[p.candidate], feed |-> p.feed, promotion |-> p.verdict,
               level |-> "national", trusted |-> FALSE]
PromotedEntries == [i \in DOMAIN pass.promoted |-> EntryOf(pass.promoted[i])]

\* promoteDiscoveredSources; a cancelled context fails the transaction.
Promote ==
    /\ pass.pc = "promote"
    /\ IF pass.promoted = <<>>
       THEN pass' = [pass EXCEPT !.pc = "write"] /\ UNCHANGED <<table, refused, faults>>
       ELSE \E done \in (IF stopping THEN {FALSE} ELSE Tries) :
              /\ faults' = IF done \/ stopping THEN faults ELSE faults + 1
              /\ pass' = IF done THEN [pass EXCEPT !.pc = "write"] ELSE NoPass
              /\ IF done THEN Writes(PromotedEntries) ELSE UNCHANGED <<table, refused>>
    /\ UNCHANGED <<deployment, synced, queue, due, seed, up, stopping, sync, hinting, stops, crawled, blind>>

WriteQueue ==
    /\ pass.pc = "write"
    /\ \E done \in Tries :
          /\ Spends(done)
          /\ queue' = IF done THEN {} ELSE queue
          /\ pass' = IF done THEN [pass EXCEPT !.pc = "fill"] ELSE NoPass
    /\ UNCHANGED <<deployment, table, synced, due, seed, up, stopping, sync, hinting, stops, history>>

FillQueue ==
    /\ pass.pc = "fill"
    /\ Fills(pass.remaining)
    /\ pass' = NoPass
    /\ UNCHANGED <<deployment, table, synced, due, seed, up, stopping, sync, hinting, stops, crawled, refused>>

Crawls == \E c \in Candidates : Refuse(c) \/ Discover(c) \/ Miss(c) \/ Vet(c)
Passing == Begin \/ Generate \/ Load \/ Crawls \/ Report \/ Promote \/ WriteQueue \/ FillQueue
Syncing == SyncRead \/ SyncMerge \/ SyncRecord

DiscNext ==
    \/ Start \/ Crash \/ Cancel \/ Exit \/ Elapse
    \/ Syncing \/ HintRead \/ HintWrite \/ HintFill \/ Passing

\* The loops keep going while the process runs, and the process is restarted.
DiscSpec == /\ DiscInit /\ [][DiscNext]_discVars
            /\ WF_discVars(Start) /\ WF_discVars(Exit)
            /\ WF_discVars(Passing) /\ WF_discVars(Syncing)

-----------------------------------------------------------------------------
\* Every variable has its type; in particular a pass ends with nothing in hand.
DiscoveryTypeOK ==
    /\ deployment \in Deployments
    /\ table \in Tables /\ seed \in DOMAIN Seeds /\ synced \in {0} \cup DOMAIN Seeds
    /\ queue \subseteq Candidates /\ pass \in Passes
    /\ sync \in [pc : {"idle", "merge", "record"}, edition : {0} \cup DOMAIN Seeds]
    /\ hinting \in [pc : {"idle", "write", "fill"}, read : SUBSET Candidates]
    /\ {due, up, stopping, blind} \subseteq BOOLEAN
    /\ faults \in 0 .. deployment.faults /\ stops \in 0 .. deployment.stops
    /\ crawled \subseteq Candidates /\ refused \subseteq Ids
    /\ pass.pc = "idle" => pass = NoPass

\* Workers that crawl side by side never have one feed vetted or promoted
\* twice in a pass, whatever candidates lead to it, and none that the registry
\* was found to collect (tryReserveFeedURL).
FeedTakenOnce ==
    /\ \A c, d \in InVetting : pass.vetting[c] = pass.vetting[d] => c = d
    /\ \A i, j \in DOMAIN pass.promoted :
          pass.promoted[i].feed = pass.promoted[j].feed => i = j
    /\ \A c \in InVetting, p \in Approved : pass.vetting[c] # p.feed

\* A source that was rejected is not collected again until a vetter or a seed
\* calls it `validated`: neither by a merge of the seed, by the entrypoint or
\* by a discovery under its id (the conflict clause of upsertSource), nor by
\* the backfill at the next opening.
RefusedIsNotCollected == \A id \in refused : id \notin Loaded(table)

\* The order of the writes at the end of a pass: a step that takes a candidate
\* this pass has had approved out of the queue file finds its source in the
\* table, through deaths, shutdowns and failed writes.  Only a sweep that writes
\* its hints may empty the file before.
ApprovedIsKept ==
    [][\A p \in Approved : p.candidate \in queue \ queue' =>
           Present(table', IdOf[p.candidate]) \/ hinting' # hinting]_discVars

\* An edition of the seed whose hash is recorded has been merged: all its
\* sources are in the table, whatever failed or died since it was read.
SyncedIsMerged ==
    synced # 0 => \A i \in DOMAIN Seeds[synced] : Present(table, Seeds[synced][i].id)

\* What waits in the queue between two passes and has a URL is crawled in the
\* end, unless the process is told to stop, an active source has the URL, or a
\* read or write of the queue itself failed or met the other goroutine's: then
\* the code takes the file for empty and writes over it.  A pass treats the whole
\* queue; no death, no other failure and no whole write of hints hides a part.
QueuedIsCrawled ==
    \A c \in Candidates :
        (pass.pc = "idle" /\ c \in queue /\ Key[c] # NoUrl /\ ~Dead(c))
            ~> (c \in crawled \/ stops > 0 \/ Key[c] \in LoadedFeeds(table) \/ blind)

\* "Load existing candidate queue, merge, and write back", which "appends" the
\* hints: neither a sweep's hints nor a pass loses what waits in the queue, a file
\* that cannot be read and one that another is writing included.
QueueIsNeverLost ==
    \A c \in Candidates :
        (pass.pc = "idle" /\ c \in queue /\ Key[c] # NoUrl /\ ~Dead(c))
            ~> (c \in crawled \/ stops > 0 \/ Key[c] \in LoadedFeeds(table))

\* "so the discovery system can find new sources": whatever waits in the queue
\* between two passes, a trend hint too, is crawled in the end, unless it is dead,
\* active or hidden by what QueuedIsCrawled leaves out.
LeavesCrawled ==
    \A c \in Candidates :
        (pass.pc = "idle" /\ c \in queue)
            ~> (c \in crawled \/ Dead(c) \/ stops > 0 \/ Key[c] \in LoadedFeeds(table) \/ blind)

\* "Discovery will still run and queue candidates, but they won't be promoted
\* until vetting is re-enabled": without a vetter a pass leaves no candidate out
\* of the queue whose feed it has found and that nobody collects.
QueuedUntilVetted ==
    [][~deployment.vetting /\ pass.pc = "write" /\ pass'.pc = "fill" =>
           \A c \in pass.queued \ pass.remaining :
               Site[c] = NoUrl \/ FeedAt[Site[c]] \notin pass.known \ LoadedFeeds(table)]_discVars
=============================================================================
