------------------------------ MODULE AgentPages ------------------------------
(***************************************************************************)
(* What the analyst reads of the AgentOps tables: the flows and traces that  *)
(* the observer folds its records into, with the topics, senders, traces and *)
(* tasks that take part in them, and the lists of the API, which come page by*)
(* page while the observer goes on.                                          *)
(*                                                                          *)
(* The observer's document is in memory; Update folds a record into it and   *)
(* writes every table, and Apply, which appends the record's edges           *)
(* (AgentStore), reads every table back.  The API is a process of its own    *)
(* and reads the file; each page is a query.                                 *)
(***************************************************************************)
EXTENDS Naturals, Sequences, FiniteSets, SequencesExt, FiniteSetsExt

CONSTANTS PageRecords, \* numbered in the order of their ids
          Seen,       \* of a record: its flow, topic, sender, trace and timestamp, and of a span
                      \* its type and when it says the trace began, if it does
          Cap,        \* policy.Grouping.ReplayMaxRecords
          PageLimit,  \* the `limit` of the requests
          MaxFolds    \* bound on records accepted

ASSUME PagesTyped ==
    /\ PageRecords \subseteq Nat
    /\ Seen \in [PageRecords -> [flow : Nat, topic : STRING, sender : STRING, trace : STRING,
                                span : STRING, started : Nat, time : Nat \ {0}]]
    /\ {Cap, PageLimit} \subseteq Nat \ {0} /\ MaxFolds \in Nat

VARIABLES doc,    \* SqliteStore.doc: retained messages, flows, traces
          tables, \* the tables, the participants in tables of their own
          step,   \* of the observer: "ready", or "folded" between Update and Apply
          folds,
          pager,  \* a reader: its list, its cursor, what it has been given
          stood   \* history: the rows of the list that have not changed since its first page
pageVars == <<doc, tables, step, folds, pager, stood>>

Blank   == [messages |-> {}, flows |-> <<>>, traces |-> <<>>]
NoPager == [list |-> "none", cursor |-> <<>>, given |-> <<>>]

-----------------------------------------------------------------------------
\* The participants a record adds; appendUnique drops the empty ones.
AppendUnique(old, new) == old \cup {p \in new : p[2] # ""}

\* Fold of a row into a function of rows; `at` is what its list is sorted by.
With(rows, id, at, new) ==
    [i \in DOMAIN rows \cup {id} |->
        IF i # id THEN rows[i]
        ELSE [at |-> at, parts |-> AppendUnique(IF id \in DOMAIN rows THEN rows[id].parts ELSE {}, new)]]

\* updateFlow: the last record folded gives last_seen, whatever its timestamp.
FlowParts(r) == {<<"topic", Seen[r].topic>>, <<"sender", Seen[r].sender>>, <<"trace", Seen[r].trace>>}
UpdateFlow(rows, r) == With(rows, Seen[r].flow, Seen[r].time, FlowParts(r))

\* updateTraceMessage: of records whose payload is a span, which may say when the trace began.
UpdateTraceMessage(rows, r) ==
    LET t  == Seen[r].trace
        at == IF Seen[r].started # 0 THEN Seen[r].started
              ELSE IF t \in DOMAIN rows THEN rows[t].at ELSE Seen[r].time
    IN  IF t = "" \/ Seen[r].span = "" THEN rows
        ELSE With(rows, t, at, {<<"agent", Seen[r].sender>>, <<"span", Seen[r].span>>})

\* The cap keeps the newest; among equals the sort may keep any.
Newest(ms) == {kept \in kSubset(Min({Cap, Cardinality(ms)}), ms) :
                  \A k \in kept : \A m \in ms \ kept : Seen[k].time >= Seen[m].time}

\* insertFlows, insertTraces: a row, and a row for each of its participants.
InsertFlows(rows)  == [at |-> [i \in DOMAIN rows |-> rows[i].at], parts |-> UNION {{i} \X rows[i].parts : i \in DOMAIN rows}]
InsertTraces(rows) == [at |-> [i \in DOMAIN rows |-> rows[i].at], parts |-> UNION {{i} \X rows[i].parts : i \in DOMAIN rows}]

\* replaceWithDocument, of Update: every table is written anew in one transaction.
Replaced(d) == [messages |-> d.messages, flows |-> InsertFlows(d.flows), traces |-> InsertTraces(d.traces)]

-----------------------------------------------------------------------------
\* A row's pointer is taken when the row is appended, and the participants are attached
\* through it.  An append beyond the capacity, which doubles from one, moves the
\* rows, so what was appended before the last such move stays without.
Moved(n) == IF n < 2 THEN 0 ELSE Max({k \in {2 ^ i : i \in 0 .. n} : k < n})

\* ORDER BY one column: rows of equal time come in any order.
Sorted(table) == {s \in SetToSeqs(DOMAIN table.at) :
                    \A i, j \in DOMAIN s : i < j => table.at[s[i]] >= table.at[s[j]]}
Of(table, id) == {p[2] : p \in {q \in table.parts : q[1] = id}}

\* Mutant of Attached: the pointers are taken when the slice is full.
AttachedAll(table, s) == [id \in DOMAIN table.at |-> [at |-> table.at[id], parts |-> Of(table, id)]]

\* attachTraceSlices; readFlows has the same loop.
Attached(table, s) == [id \in DOMAIN table.at |->
                         [at |-> table.at[id], parts |-> IF id \in {s[i] : i \in 1 .. Moved(Len(s))} THEN {} ELSE Of(table, id)]]
ReadFlows(table)  == {Attached(table, s) : s \in Sorted(table)}
ReadTraces(table) == {Attached(table, s) : s \in Sorted(table)}

\* readDocument.
ReadDocument(t) == {[messages |-> t.messages, flows |-> f, traces |-> tr] : f \in ReadFlows(t.flows), tr \in ReadTraces(t.traces)}

-----------------------------------------------------------------------------
PagesInit == /\ doc = Blank /\ tables = Replaced(Blank) /\ step = "ready" /\ folds = 0
             /\ pager = NoPager /\ stood = {}

\* acceptMessage, of a record that is not retained.
Accept(r) ==
    /\ step = "ready" /\ folds < MaxFolds /\ r \notin doc.messages
    /\ \E ms \in Newest(doc.messages \cup {r}) :
          doc' = [messages |-> ms, flows |-> UpdateFlow(doc.flows, r), traces |-> UpdateTraceMessage(doc.traces, r)]
    /\ tables' = Replaced(doc') /\ step' = "folded" /\ folds' = folds + 1

\* Apply: the record's edges, and reload.
ApplyEdges == /\ step = "folded" /\ step' = "ready" /\ doc' \in ReadDocument(tables)
              /\ UNCHANGED <<tables, folds>>
\* persist, at the end of a poll.
Persist == /\ step = "ready" /\ tables' = Replaced(doc)
           /\ UNCHANGED <<doc, step, folds>>
\* The observer dies and starts: NewSqliteStore reads, bootstrapFromStore writes.
Bootstrap == /\ step' = "ready" /\ doc' \in ReadDocument(tables) /\ tables' = Replaced(doc')
             /\ UNCHANGED folds

-----------------------------------------------------------------------------
\* The rows of a list, by time and id, which the cursor is made of.
Key(list, id) == IF list = "flows" THEN <<tables.flows.at[id], id>> ELSE <<Seen[id].time, id>>
Rows(list)    == IF list = "flows" THEN DOMAIN tables.flows.at ELSE tables.messages
Below(a, b)   == a[1] < b[1] \/ (a[1] = b[1] /\ a[2] < b[2])

\* Mutant of After: of the rows of the cursor's own second nothing comes any more.
AfterStrictly(list, cursor) == {id \in Rows(list) : cursor = <<>> \/ Key(list, id)[1] < cursor[1]}

\* ListFlows and ListMessagesForFlow: the rows below the cursor.
After(list, cursor) == {id \in Rows(list) : cursor = <<>> \/ Below(Key(list, id), cursor)}

\* attachFlowParticipants: what each row is given with.
Participants(list, ids) == [i \in DOMAIN ids |-> <<ids[i], IF list = "flows" THEN Of(tables.flows, ids[i]) ELSE {}>>]

\* ORDER BY both columns, descending.
Descending(list, ids) == {s \in Bijection(1 .. Cardinality(ids), ids) :
                            \A i, j \in DOMAIN s : i < j => Below(Key(list, s[j]), Key(list, s[i]))}

\* One page; one row more than the limit is asked for to know whether to go on.
\* normalizeLimit is the identity here.
Page(list, after) ==
    LET items == SubSeq(after, 1, Min({PageLimit, Len(after)}))
    IN  [items |-> Participants(list, items), next |-> IF Len(after) > PageLimit THEN Key(list, Last(items)) ELSE <<>>]

\* handleFlows, handleFlowMessages; trimFlowPage, encodeCursor, decodeCursor.
Given(list, cursor, given) ==
    \E after \in Descending(list, After(list, cursor)) :
        LET page == Page(list, after)
        IN  pager' = [list |-> IF page.next = <<>> THEN "done" ELSE list, cursor |-> page.next,
                      given |-> given \o page.items]
FirstPage == /\ pager = NoPager
             /\ \E list \in {"flows", "messages"} :
                   /\ Given(list, <<>>, <<>>)
                   /\ stood' = {<<list, Key(list, id), Participants(list, <<id>>)[1]>> : id \in Rows(list)}
             /\ UNCHANGED <<doc, tables, step, folds>>
NextPage  == /\ pager.list \notin {"none", "done"}
             /\ Given(pager.list, pager.cursor, pager.given)
             /\ UNCHANGED <<doc, tables, step, folds, stood>>
Forget    == /\ pager.list = "done" /\ pager' = NoPager /\ stood' = {}
             /\ UNCHANGED <<doc, tables, step, folds>>

\* A step of the observer, and which rows the reader may still expect.
Observes == /\ \/ \E r \in PageRecords : Accept(r)
               \/ ApplyEdges \/ Persist \/ Bootstrap
            /\ stood' = {row \in stood : /\ row[3][1] \in Rows(row[1])'
                                       /\ Key(row[1], row[3][1])' = row[2]
                                       /\ Participants(row[1], <<row[3][1]>>)'[1] = row[3]}
            /\ UNCHANGED pager

PagesNext == Observes \/ FirstPage \/ NextPage \/ Forget
PagesSpec == PagesInit /\ [][PagesNext]_pageVars

-----------------------------------------------------------------------------
\* A reader that has gone through all pages has been given every row that stood
\* as it was from the first page to the last, with its participants and none twice, also if
\* rows around it were added, moved or evicted between the pages and if many
\* have the same second.
StandingRowsAreGiven ==
    pager.list = "done" => \A row \in stood : Cardinality({i \in DOMAIN pager.given : pager.given[i] = row[3]}) = 1

\* sqlite_store_test.go:60, TestSqliteStoreRoundTripFullSnapshot: what is written is
\* read back, so a flow in the tables has the topics, senders and traces of the
\* messages that are still there.
FlowsKeepParticipants ==
    \A r \in tables.messages : AppendUnique({}, FlowParts(r)) \subseteq Of(tables.flows, Seen[r].flow)
=============================================================================
