----------------------------- MODULE GraphQueries -----------------------------
(***************************************************************************)
(* The neighbourhood and path queries of the analyst API over the graph      *)
(* tables, which the observer (AgentStore) goes on writing: a query is two   *)
(* or more statements, each of which sees the tables as they then are.       *)
(*                                                                          *)
(* An edge is dated: it is open, or it was closed at valid_to.  Edges are    *)
(* appended and closed, never deleted, and both ends of an edge have a row.  *)
(***************************************************************************)
EXTENDS Naturals, Sequences, FiniteSets, SequencesExt, FiniteSetsExt

CONSTANTS Links,     \* what the observer may link: source, kind, destination
          From, To,  \* what is asked for
          Deepest,   \* 3, the most steps a query may go
          Times,     \* of records, which come in any order
          MaxEdges, MaxQueries  \* bounds

ASSUME QueriesTyped == /\ Deepest \in Nat \ {0} /\ {MaxEdges, MaxQueries} \subseteq Nat /\ Times \subseteq Nat \ {0}
                       /\ \A l \in Links : DOMAIN l = 1 .. 3

Nodes == {l[1] : l \in Links} \cup {l[3] : l \in Links}
Kinds == {l[2] : l \in Links}

VARIABLES rows,   \* the table edges, by id
          query,  \* what is asked for, and where the query is
          known,  \* its results so far: entities, edges
          search, \* Path's queue, parents and depths
          answer,
          before, \* history: the table when the query came
          queries
queryVars == <<rows, query, known, search, answer, before, queries>>

NoQuery  == [at |-> "idle", op |-> "none", src |-> "", dst |-> "", depth |-> 0, kinds |-> {}, start |-> 0]
NoAnswer == [ok |-> FALSE, found |-> FALSE, path |-> <<>>, counts |-> 0, weights |-> 0]

QueriesInit == /\ rows = <<>> /\ query = NoQuery /\ queries = 0
               /\ known = [nodes |-> {}, edges |-> {}] /\ before = <<>> /\ answer = NoAnswer
               /\ search = [queue |-> <<>>, depth |-> <<>>, via |-> <<>>]

-----------------------------------------------------------------------------
\* External: AppendEdge and CloseOpenEdges of the observer.
Write == /\ \/ /\ Len(rows) < MaxEdges
               /\ \E l \in Links, t \in Times :
                     rows' = Append(rows, [src |-> l[1], kind |-> l[2], dst |-> l[3], from |-> t, to |-> 0])
            \/ \E n \in Nodes, t \in Times :
                  /\ \E i \in DOMAIN rows : rows[i].dst = n /\ rows[i].to = 0
                  /\ rows' = [i \in DOMAIN rows |-> IF rows[i].dst = n /\ rows[i].to = 0 THEN [rows[i] EXCEPT !.to = t] ELSE rows[i]]
         /\ UNCHANGED <<query, known, search, answer, before, queries>>

Ends(e)       == {e.src, e.dst}
Entities(t)   == UNION {Ends(t[i]) : i \in DOMAIN t}
\* edgeTypeClause: no types are all types.
OfKinds(e)    == query.kinds = {} \/ e.kind \in query.kinds
\* edgeWindowClause: an edge that had not been closed when the window began.
InWindow(e)   == query.start = 0 \/ e.to = 0 \/ e.to >= query.start

\* The recursive query of Neighborhood: along the edges in either direction, and of
\* the ids the ones that have a row.
Walk(start, depth) ==
    LET walk[d \in 0 .. depth] ==
            IF d = 0 THEN {start}
            ELSE walk[d - 1] \cup UNION {Ends(e) : e \in {rows[i] : i \in {j \in DOMAIN rows :
                        /\ OfKinds(rows[j]) /\ InWindow(rows[j])
                        /\ Ends(rows[j]) \cap walk[d - 1] # {}}}}
    IN  walk[depth] \cap Entities(rows)

\* handleEntityNeighborhood, handleGraphPath: parseWindow gives a start and no end.
Ask == /\ query.at = "idle" /\ queries < MaxQueries /\ queries' = queries + 1
       /\ \E a \in From, b \in To, d \in 1 .. Deepest, w \in {0} \cup Times :
             \/ /\ b = a
                /\ \E ks \in {{}} \cup {{k} : k \in Kinds} :
                      query' = [at |-> "walk", op |-> "neighborhood", src |-> a, dst |-> a, depth |-> d, kinds |-> ks, start |-> w]
             \/ query' = [at |-> "walk", op |-> "path", src |-> a, dst |-> b, depth |-> d, kinds |-> {}, start |-> w]
             \/ /\ b = a /\ d = 1 /\ w = 0
                /\ query' = [at |-> "entity", op |-> "profile", src |-> a, dst |-> a, depth |-> 1, kinds |-> {}, start |-> 0]
       /\ before' = rows /\ answer' = NoAnswer
       /\ UNCHANGED <<rows, known, search>>

\* Neighborhood, its first statement.
WalkNodes == /\ query.at = "walk"
             /\ known' = [nodes |-> Walk(query.src, query.depth), edges |-> {}]
             /\ query' = [query EXCEPT !.at = "edges"]
             /\ UNCHANGED <<rows, search, answer, before, queries>>

Answered(ok, found, path) == /\ answer' = [answer EXCEPT !.ok = ok, !.found = found, !.path = path]
                             /\ query' = [query EXCEPT !.at = "idle"]

\* edgesBetween, of two ids at least one: it names the window's columns by an
\* alias that its FROM does not have, so with a window the statement fails.
EdgesBetween ==
    /\ query.at = "edges"
    /\ IF known.nodes # {} /\ query.start # 0
       THEN Answered(FALSE, FALSE, <<>>) /\ UNCHANGED <<known, search>>
       ELSE /\ known' = [known EXCEPT !.edges = {i \in DOMAIN rows : Ends(rows[i]) \subseteq known.nodes /\ OfKinds(rows[i])}]
            /\ IF query.op = "neighborhood" \/ known.nodes = {}
               THEN Answered(TRUE, FALSE, <<>>) /\ UNCHANGED search
               ELSE /\ search' = [queue |-> <<query.src>>, depth |-> [n \in {query.src} |-> 0], via |-> <<>>]
                    /\ query' = [query EXCEPT !.at = "search"]
                    /\ UNCHANGED answer
    /\ UNCHANGED <<rows, before, queries>>

-----------------------------------------------------------------------------
\* Mutant of Adjacent: the reverse of an edge is forgotten.
AdjacentOut(n) == {i \in known.edges : n = rows[i].src}

\* adj: the edges by either end.
Adjacent(n) == {i \in known.edges : n \in Ends(rows[i])}

\* edgesBetween's ORDER BY: the newest first.
Newer(i, j)    == rows[i].from > rows[j].from \/ (rows[i].from = rows[j].from /\ i > j)
NewestFirst(E) == {o \in Bijection(1 .. Cardinality(E), E) : \A a, b \in DOMAIN o : a < b => Newer(o[a], o[b])}
Other(i, n) == IF rows[i].src = n THEN rows[i].dst ELSE rows[i].src

\* One node's edges in turn: each end not seen yet gets its parent and its place.
Enqueued(s, i, n) ==
    LET m == Other(i, n)
    IN  IF m \in DOMAIN s.depth THEN s
        ELSE [queue |-> Append(s.queue, m),
              depth |-> [x \in DOMAIN s.depth \cup {m} |-> IF x = m THEN s.depth[n] + 1 ELSE s.depth[x]],
              via   |-> [x \in DOMAIN s.via \cup {m} |-> IF x = m THEN [edge |-> i, node |-> n] ELSE s.via[x]]]

Expanded(s, o, n) ==
    LET taken[k \in 0 .. Len(o)] == IF k = 0 THEN s ELSE Enqueued(taken[k - 1], o[k], n)
    IN  taken[Len(o)]

Dequeue ==
    /\ query.at = "search" /\ search.queue # <<>> /\ Head(search.queue) # query.dst
    /\ LET cur  == Head(search.queue)
           rest == [search EXCEPT !.queue = Tail(@)]
       IN  IF search.depth[cur] >= query.depth THEN search' = rest
           ELSE \E o \in NewestFirst(Adjacent(cur)) : search' = Expanded(rest, o, cur)
    /\ UNCHANGED <<rows, query, known, answer, before, queries>>

\* Back from dst by the parents, and turned around; loadEdgeByShape reads an
\* edge again if there is one of this direction, and gives a turned copy if not.
Trace(n) ==
    LET back[d \in 0 .. search.depth[n]] ==
            IF d = 0 THEN n ELSE search.via[back[d - 1]].node
        hop(d) == LET e == rows[search.via[back[d]].edge]
                  IN  [src |-> back[d + 1], dst |-> back[d], kind |-> e.kind, from |-> e.from]
    IN  [i \in 1 .. search.depth[n] |-> hop(search.depth[n] - i)]
Trail == /\ query.at = "search"
         /\ search.queue # <<>> => Head(search.queue) = query.dst
         /\ IF query.dst \in DOMAIN search.depth
            THEN Answered(TRUE, TRUE, Trace(query.dst)) ELSE Answered(TRUE, FALSE, <<>>)
         /\ search' = [queue |-> <<>>, depth |-> <<>>, via |-> <<>>]
         /\ UNCHANGED <<rows, known, before, queries>>

-----------------------------------------------------------------------------
\* EntityProfile: entityByID and the edges by type, then the neighbours by weight.
EdgesOf(n) == {i \in DOMAIN rows : n \in Ends(rows[i])}
ProfileCounts == /\ query.at = "entity"
                 /\ IF query.src \notin Entities(rows) THEN Answered(FALSE, FALSE, <<>>)
                    ELSE /\ answer' = [answer EXCEPT !.counts = Cardinality(EdgesOf(query.src))]
                         /\ query' = [query EXCEPT !.at = "neighbors"]
                 /\ UNCHANGED <<rows, known, search, before, queries>>

\* An edge's other end, with the edge: the five heaviest are shown, and there are no more here.
Neighbors(n) == {<<Other(i, n), i>> : i \in EdgesOf(n)}
ProfileNeighbors == /\ query.at = "neighbors"
                    /\ answer' = [answer EXCEPT !.ok = TRUE, !.weights = Cardinality(Neighbors(query.src))]
                    /\ query' = [query EXCEPT !.at = "idle"]
                    /\ UNCHANGED <<rows, known, search, before, queries>>

QueriesNext == Write \/ Ask \/ WalkNodes \/ EdgesBetween \/ Dequeue \/ Trail \/ ProfileCounts \/ ProfileNeighbors
QueriesSpec == QueriesInit /\ [][QueriesNext]_queryVars

-----------------------------------------------------------------------------
\* The reference: the nodes within d edges of a node, in a table as it was.
Within(table, n, d) ==
    {m \in Nodes : \E walk \in [1 .. d + 1 -> Nodes] :
        /\ walk[1] = n /\ walk[d + 1] = m
        /\ \A i \in 1 .. d : walk[i] = walk[i + 1] \/ \E j \in DOMAIN table : Ends(table[j]) = {walk[i], walk[i + 1]}}

\* The answer of Path: what it finds leads from src to dst by edges of the table,
\* in no more steps than the ends were apart when it was asked, whatever has
\* been written since; and it finds nothing only if they were too far apart.
PathIsShortest ==
    query.at = "idle" /\ query.op = "path" /\ answer.ok =>
      LET path == answer.path
          near(d) == query.src \in Entities(before) /\ query.dst \in Within(before, query.src, d)
      IN  IF answer.found
          THEN /\ Len(path) <= query.depth
               /\ path = <<>> <=> query.src = query.dst
               /\ path # <<>> => path[1].src = query.src /\ Last(path).dst = query.dst
               /\ \A i \in 1 .. Len(path) - 1 : path[i].dst = path[i + 1].src
               /\ \A i \in DOMAIN path : \E j \in DOMAIN rows :
                     Ends(rows[j]) = Ends(path[i]) /\ rows[j].kind = path[i].kind /\ rows[j].from = path[i].from
               /\ \A d \in 0 .. query.depth : near(d) => Len(path) <= d
          ELSE ~near(query.depth)

\* The answer of Neighborhood, whose entities come from one statement and whose edges
\* from another: every entity in it hangs together with the one asked for by
\* the edges in it.
NeighborhoodHangsTogether ==
    query.at = "idle" /\ query.op = "neighborhood" /\ answer.ok =>
      LET shown == [i \in known.edges |-> rows[i]]
      IN  known.nodes \subseteq Within(shown, query.src, query.depth)

\* The answer of EntityProfile, whose counts and neighbours come from two statements:
\* the weights are never less than the edges counted, as edges are only added.
ProfileCoversCounts == query.at = "idle" /\ query.op = "profile" /\ answer.ok => answer.weights >= answer.counts

\* openapi.yaml:47: the neighbourhood and map requests take a `window`; one of an entity that has
\* edges is answered.
WindowIsAnswered ==
    query.at = "idle" /\ query.op \in {"neighborhood", "path"} => answer.ok
=============================================================================
