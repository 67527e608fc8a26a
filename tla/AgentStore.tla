------------------------------ MODULE AgentStore ------------------------------
(***************************************************************************)
(* The AgentOps state database: store.SqliteStore (the in-memory document   *)
(* and its tables) together with the graph tables that                      *)
(* kafka.Service.appendGraph writes through SqliteStore.Apply.              *)
(*                                                                          *)
(* SqliteStore serialises Update and Apply with one mutex, so each of them  *)
(* is one step here.  Update rewrites every document table in a single      *)
(* transaction (replaceWithDocument); the graph tables live in the same     *)
(* file and refer to `messages` with ON DELETE SET NULL.                    *)
(*                                                                          *)
(* A Kafka record is a member of Records; Meta[r] holds the fields of the   *)
(* decoded envelope that reach the tables ("" is Go's empty string).        *)
(***************************************************************************)
EXTENDS Integers, FiniteSets

CONSTANTS Records,   \* the records of the observed topics (topic:partition:offset)
          Meta,      \* their decoded content, see MetaOf
          Limits     \* values of policy.Grouping.ReplayMaxRecords to consider

Families == {"requests", "responses", "traces", "tasks.status", "plain"}
TaskEnds == {"completed", "failed", "cancelled", "canceled"}
Refusals == {"", "unknown_topic", "invalid_envelope"}
Reasons  == {"unknown_topic", "invalid_envelope",
             "store_update_failed", "graph_write_failed"}

\* What handleRecord extracts from a record.  `refusal` is the reason for which
\* it is turned away before the store is touched, "" for none; `actor` is the
\* payload's requester or responder; `time` is the RFC 3339 timestamp, that is,
\* a whole number of seconds.
MetaOf == [refusal: Refusals, family: Families, topic: STRING, corr: STRING,
           sender: STRING, actor: STRING, task: STRING, parent: STRING,
           trace: STRING, status: STRING, time: Nat \ {0}]

ASSUME RecordsFinite == IsFiniteSet(Records)
ASSUME MetaTyped     == Meta \in [Records -> MetaOf]
ASSUME LimitsTyped   == Limits \subseteq Nat \ {0}   \* ValidatePolicy

Open == 0    \* valid_to IS NULL
Null == ""   \* evidence_msg IS NULL

ASSUME NullIsNoRecord == Null \notin Records

VARIABLES limit,     \* the cap in force (loaded once from the policy file)
          doc,       \* SqliteStore.doc, the document in memory
          db,        \* the document tables on disk
          edges,     \* table edges
          entities,  \* table entities: last_seen of an entity, 0 when it has no row
          prov       \* table provenance

storeVars == <<limit, doc, db, edges, entities, prov>>

-----------------------------------------------------------------------------
(* Entities and links named by a record.                                    *)

Topic(r) == <<"topic", Meta[r].topic>>
Corr(r)  == <<"correlation", Meta[r].corr>>
Agent(a) == <<"agent", a>>
Task(t)  == <<"task", t>>
Trace(t) == <<"trace", t>>
Time(r)  == Meta[r].time

\* firstNonEmpty(payload.RequesterID or ResponderID, msg.SenderID)
Actor(r) == IF Meta[r].actor # "" THEN Meta[r].actor ELSE Meta[r].sender

HasTask(r) == Meta[r].task # ""

Link(s, t, d) == [src |-> s, type |-> t, dst |-> d]

\* The edges appendGraph appends for a record, without their dates.
CommonLinks(r) ==
    {Link(Corr(r), "mentions", Topic(r))}
    \cup (IF Meta[r].sender # "" THEN {Link(Agent(Meta[r].sender), "member_of", Corr(r))} ELSE {})

RequestLinks(r) ==
    IF ~HasTask(r) THEN {} ELSE
      (IF Actor(r) # "" THEN {Link(Agent(Actor(r)), "sent", Task(Meta[r].task))} ELSE {})
      \cup (IF Meta[r].parent # ""
              THEN {Link(Task(Meta[r].parent), "delegated_to", Task(Meta[r].task))} ELSE {})

ResponseLinks(r) ==
    IF HasTask(r) /\ Actor(r) # ""
      THEN {Link(Agent(Actor(r)), "responded", Task(Meta[r].task))} ELSE {}

TraceLinks(r) ==
    IF Meta[r].trace # "" /\ Meta[r].sender # ""
      THEN {Link(Agent(Meta[r].sender), "spans", Trace(Meta[r].trace))} ELSE {}

Links(r) ==
    CommonLinks(r) \cup (CASE Meta[r].family = "requests"  -> RequestLinks(r)
                           [] Meta[r].family = "responses" -> ResponseLinks(r)
                           [] Meta[r].family = "traces"    -> TraceLinks(r)
                           [] OTHER                        -> {})

\* A terminal response or status closes the open edges into its task.  A response
\* nobody signs returns before it gets there.
ClosesTask(r) ==
    /\ HasTask(r)
    /\ Meta[r].status \in TaskEnds
    /\ \/ Meta[r].family = "tasks.status"
       \/ Meta[r].family = "responses" /\ Actor(r) # ""

ClosedTypes == {"sent", "responded", "delegated_to"}

\* The entities a record upserts: the ends of its links, and its task even when no
\* link reaches it.
Touched(r) ==
    {l.src : l \in Links(r)} \cup {l.dst : l \in Links(r)}
    \cup (IF HasTask(r) /\ Meta[r].family \in {"requests", "responses", "tasks.status"}
            THEN {Task(Meta[r].task)} ELSE {})

EntityIds == UNION {Touched(r) : r \in Records}
AllLinks  == UNION {Links(r) : r \in Records}

Edge(l, r) == [link |-> l, from |-> Time(r), to |-> Open, ev |-> r]

EdgeRows == [link: AllLinks, from: Nat, to: Nat, ev: Records \cup {Null}]
ProvRows == [link: AllLinks, from: Nat, ev: Records, decision: {"inserted", "existing"}]

-----------------------------------------------------------------------------
(* The document: retained messages, the flow and trace rows with the number  *)
(* of messages folded into them, the task rows with their status, and the    *)
(* counters of Health.                                                       *)

Rollups(r) == {<<"flow", Meta[r].corr>>}
              \cup (IF Meta[r].family = "traces" /\ Meta[r].trace # ""
                      THEN {<<"trace", Meta[r].trace>>} ELSE {})
RollupIds == UNION {Rollups(r) : r \in Records}
TaskIds   == {Meta[r].task : r \in Records}
Statuses  == {Meta[r].status : r \in Records} \cup {""}   \* "": not reported yet

Document == [messages: SUBSET Records,
             rollup: [RollupIds -> Nat],
             task: [TaskIds -> Statuses],
             accepted: Nat,
             rejected: Nat,
             byReason: [Reasons -> Nat],
             mirrored: Nat,
             mirrorFailed: Nat]

EmptyDocument == [messages |-> {},
                  rollup |-> [k \in RollupIds |-> 0],
                  task |-> [t \in TaskIds |-> ""],
                  accepted |-> 0,
                  rejected |-> 0,
                  byReason |-> [x \in Reasons |-> 0],
                  mirrored |-> 0,
                  mirrorFailed |-> 0]

\* updateTaskMessage: responses and status reports overwrite the status of the task.
TaskAfter(d, r) ==
    IF Meta[r].family \in {"responses", "tasks.status"} /\ HasTask(r) /\ Meta[r].status # ""
      THEN [d.task EXCEPT ![Meta[r].task] = Meta[r].status] ELSE d.task

\* Mutant of Retained: sorted oldest first.
RetainedOldest(S) ==
    IF Cardinality(S) <= limit THEN {S}
    ELSE {T \in SUBSET S : /\ Cardinality(T) = limit
                           /\ \A k \in T, x \in S \ T : Time(k) <= Time(x)}

\* The messages that survive the sort by timestamp (newest first) and the cut at
\* `limit`.  sort.Slice is not stable: among equal timestamps any may go.
Retained(S) ==
    IF Cardinality(S) <= limit THEN {S}
    ELSE {T \in SUBSET S : /\ Cardinality(T) = limit
                           /\ \A k \in T, x \in S \ T : Time(k) >= Time(x)}

\* Mutant of MessageExists: nothing is looked up.
NotLookedUp(d, r) == FALSE

MessageExists(d, r) == r \in d.messages

\* The documents the closure of acceptMessage may produce: the same one when the
\* message is already there.
AcceptMessage(d, r) ==
    IF MessageExists(d, r) THEN {d}
    ELSE {[d EXCEPT !.messages = kept,
                    !.rollup = [k \in RollupIds |-> IF k \in Rollups(r) THEN @[k] + 1 ELSE @[k]],
                    !.task = TaskAfter(d, r),
                    !.accepted = @ + 1] : kept \in Retained(d.messages \cup {r})}

\* The closure run after a reject.
CountReject(d, reason, mirrored) ==
    [d EXCEPT !.rejected = @ + 1,
              !.byReason[reason] = @ + 1,
              !.mirrored = IF mirrored THEN @ + 1 ELSE @,
              !.mirrorFailed = IF mirrored THEN @ ELSE @ + 1]

-----------------------------------------------------------------------------
(* Update: DELETE FROM messages sets evidence_msg of every edge to NULL, and  *)
(* idx_edges_dedupe refuses two edges that are then the same row.             *)

NoEvidence(e) == [e EXCEPT !.ev = Null]

\* No two edges differ only in their evidence.
RewriteFits == \A e, f \in edges : NoEvidence(e) = NoEvidence(f) => e = f

\* Mutant of Update: ON DELETE CASCADE.
UpdateCascades(d) ==
    /\ RewriteFits
    /\ db' = d
    /\ doc' = d
    /\ edges' = {e \in edges : e.ev = Null}
    /\ UNCHANGED <<limit, entities, prov>>

Update(d) ==
    /\ RewriteFits
    /\ db' = d
    /\ doc' = d
    /\ edges' = {NoEvidence(e) : e \in edges}
    /\ UNCHANGED <<limit, entities, prov>>

UpdateFails == ~RewriteFits /\ UNCHANGED storeVars

\* `_ = s.file.Update(...)`: the caller goes on whatever happens.
TryUpdate(d) == Update(d) \/ UpdateFails

-----------------------------------------------------------------------------
(* Apply(appendGraph): INSERT OR IGNORE of the record's edges, then           *)
(* CloseOpenEdges.  An edge whose evidence is not in `messages` breaks the    *)
(* foreign key; closing an edge into a row that exists breaks the index.      *)

Inserted(r) == edges \cup {Edge(l, r) : l \in Links(r)}

ToClose(r) ==
    {e \in Inserted(r) : /\ ClosesTask(r)
                         /\ e.link.dst = Task(Meta[r].task)
                         /\ e.link.type \in ClosedTypes
                         /\ e.to = Open}

Closed(r) == {[e EXCEPT !.to = Time(r)] : e \in ToClose(r)}

\* Mutant of GraphFits: foreign keys are off.
GraphFitsUnchecked(r) == Closed(r) \cap (Inserted(r) \ ToClose(r)) = {}

GraphFits(r) ==
    /\ r \in db.messages
    /\ Closed(r) \cap (Inserted(r) \ ToClose(r)) = {}

LastSeenAfter(r) ==
    [x \in EntityIds |-> IF x \in Touched(r) /\ Time(r) > entities[x] THEN Time(r) ELSE entities[x]]

ProvenanceOf(r) ==
    {[link |-> l, from |-> Time(r), ev |-> r,
      decision |-> IF Edge(l, r) \in edges THEN "existing" ELSE "inserted"] : l \in Links(r)}

AppendGraph(r) ==
    /\ GraphFits(r)
    /\ edges' = (Inserted(r) \ ToClose(r)) \cup Closed(r)
    /\ entities' = LastSeenAfter(r)
    /\ prov' = prov \cup ProvenanceOf(r)
    /\ doc' = db      \* Apply ends with reload()
    /\ UNCHANGED <<limit, db>>

GraphFails(r) == ~GraphFits(r) /\ UNCHANGED storeVars

-----------------------------------------------------------------------------
StoreInit ==
    /\ limit \in Limits
    /\ doc = EmptyDocument
    /\ db = EmptyDocument
    /\ edges = {}
    /\ entities = [x \in EntityIds |-> 0]
    /\ prov = {}

StoreTypeOK ==
    /\ limit \in Limits
    /\ doc \in Document
    /\ db \in Document
    /\ edges \subseteq EdgeRows
    /\ entities \in [EntityIds -> Nat]
    /\ prov \subseteq ProvRows

\* The process dies: the document in memory is gone, the tables stay.
StoreLost == doc' = EmptyDocument /\ UNCHANGED <<limit, db, edges, entities, prov>>

\* Mutant of StoreOpened: the graph is built anew.
OpenedWithoutGraph == doc' = db /\ edges' = {} /\ UNCHANGED <<limit, db, entities, prov>>

\* NewSqliteStore: readDocument.
StoreOpened == doc' = db /\ UNCHANGED <<limit, db, edges, entities, prov>>
=============================================================================
