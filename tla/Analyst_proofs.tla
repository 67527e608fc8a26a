---------------------------- MODULE Analyst_proofs ----------------------------
(***************************************************************************)
(* What the analyst reads: the pages of AgentPages, the paths of GraphQueries *)
(* and the digests of TermTrends.                                            *)
(***************************************************************************)
EXTENDS AgentPages, GraphQueries, TermTrends, FiniteSetTheorems, SequenceTheorems, TLAPS

-----------------------------------------------------------------------------
(* Pages                                                                     *)

\* Messages and flows are finitely many, with numbers to sort them by.
DocTyped    == /\ doc.messages \subseteq PageRecords /\ IsFiniteSet(doc.messages)
               /\ IsFiniteSet(DOMAIN doc.flows) /\ DOMAIN doc.flows \subseteq Nat
               /\ \A f \in DOMAIN doc.flows : doc.flows[f].at \in Nat
TablesTyped == /\ tables.messages \subseteq PageRecords /\ IsFiniteSet(tables.messages)
               /\ IsFiniteSet(DOMAIN tables.flows.at) /\ DOMAIN tables.flows.at \subseteq Nat
               /\ \A f \in DOMAIN tables.flows.at : tables.flows.at[f] \in Nat

LEMMA SeenTyped == ASSUME NEW r \in PageRecords PROVE Seen[r].flow \in Nat /\ Seen[r].time \in Nat /\ r \in Nat
  BY PagesTyped

LEMMA AcceptTyped ==
  ASSUME DocTyped, NEW r \in PageRecords, NEW ms \in Newest(doc.messages \cup {r}),
         doc' = [messages |-> ms, flows |-> UpdateFlow(doc.flows, r), traces |-> UpdateTraceMessage(doc.traces, r)]
  PROVE  DocTyped'
<1> DEFINE D == doc.messages \cup {r}
           F == DOMAIN doc.flows \cup {Seen[r].flow}
<1>1. doc'.messages = ms /\ doc'.flows = UpdateFlow(doc.flows, r)
  OBVIOUS
<1>2. ms \subseteq D
  BY DEF Newest, kSubset
<1>3. IsFiniteSet(D) /\ IsFiniteSet(F)
  BY FS_AddElement DEF DocTyped
<1>4. IsFiniteSet(ms) /\ ms \subseteq PageRecords
  BY <1>2, <1>3, FS_Subset DEF DocTyped
<1>5. DOMAIN doc'.flows = F
  BY <1>1 DEF UpdateFlow, With
<1>6. ASSUME NEW f \in F PROVE doc'.flows[f].at \in Nat
  BY <1>1, SeenTyped DEF UpdateFlow, With, DocTyped
<1>7. F \subseteq Nat
  BY SeenTyped DEF DocTyped
<1> HIDE DEF F
<1> QED BY <1>1, <1>3, <1>4, <1>5, <1>6, <1>7 DEF DocTyped

LEMMA ReplacedTyped ==
  ASSUME DocTyped', tables' = Replaced(doc')
  PROVE  TablesTyped'
<1>1. tables'.messages = doc'.messages /\ tables'.flows = InsertFlows(doc'.flows)
  BY DEF Replaced
<1>2. tables'.flows.at = [i \in DOMAIN doc'.flows |-> doc'.flows[i].at]
  BY <1>1 DEF InsertFlows
<1> QED BY <1>1, <1>2 DEF DocTyped, TablesTyped

LEMMA ReadTyped ==
  ASSUME TablesTyped, doc' \in ReadDocument(tables)
  PROVE  DocTyped'
<1>1. PICK f \in ReadFlows(tables.flows), tr \in ReadTraces(tables.traces) : doc' = [messages |-> tables.messages, flows |-> f, traces |-> tr]
  BY DEF ReadDocument
<1>2. PICK s \in Sorted(tables.flows) : f = Attached(tables.flows, s)
  BY DEF ReadFlows
<1>3. DOMAIN f = DOMAIN tables.flows.at /\ \A i \in DOMAIN f : f[i].at = tables.flows.at[i]
  BY <1>2 DEF Attached
<1>4. doc'.messages = tables.messages /\ doc'.flows = f
  BY <1>1
<1> QED BY <1>3, <1>4 DEF DocTyped, TablesTyped

LEMMA PagesTypes == DocTyped /\ TablesTyped /\ [PagesNext]_pageVars => DocTyped' /\ TablesTyped'
<1> SUFFICES ASSUME DocTyped, TablesTyped, [PagesNext]_pageVars PROVE DocTyped' /\ TablesTyped'
  OBVIOUS
<1>1. CASE UNCHANGED <<doc, tables>>
  BY <1>1 DEF DocTyped, TablesTyped
<1>2. ASSUME NEW r \in PageRecords, Accept(r) PROVE DocTyped' /\ TablesTyped'
  <2>1. DocTyped'
    BY <1>2, AcceptTyped DEF Accept
  <2> QED BY <1>2, <2>1, ReplacedTyped DEF Accept
<1>3. CASE ApplyEdges
  <2>1. DocTyped'
    BY <1>3, ReadTyped DEF ApplyEdges
  <2> QED BY <1>3, <2>1 DEF ApplyEdges, TablesTyped
<1>4. CASE Persist
  <2>1. DocTyped'
    BY <1>4 DEF Persist, DocTyped
  <2>2. tables' = Replaced(doc')
    BY <1>4 DEF Persist
  <2> QED BY <2>1, <2>2, ReplacedTyped
<1>5. CASE Bootstrap
  <2>1. DocTyped'
    BY <1>5, ReadTyped DEF Bootstrap
  <2> QED BY <1>5, <2>1, ReplacedTyped DEF Bootstrap
<1> QED BY <1>1, <1>2, <1>3, <1>4, <1>5 DEF PagesNext, Observes, FirstPage, NextPage, Forget, pageVars

LEMMA BelowOrders ==
  ASSUME NEW a \in Nat \X Nat, NEW b \in Nat \X Nat
  PROVE  /\ ~(Below(a, b) /\ Below(b, a)) /\ ~Below(a, a)
         /\ \A c \in Nat \X Nat : Below(a, b) /\ Below(b, c) => Below(a, c)
  BY DEF Below

LEMMA KeysTyped ==
  ASSUME TablesTyped, NEW list \in {"flows", "messages"}
  PROVE  /\ IsFiniteSet(Rows(list))
         /\ \A id \in Rows(list) : Key(list, id) \in Nat \X Nat /\ Key(list, id)[2] = id
<1>1. IsFiniteSet(Rows(list))
  BY DEF Rows, TablesTyped
<1>2. ASSUME NEW id \in Rows(list) PROVE Key(list, id) \in Nat \X Nat /\ Key(list, id)[2] = id
  <2>1. CASE list = "flows"
    BY <2>1 DEF Rows, Key, TablesTyped
  <2>2. CASE list = "messages"
    BY <2>2, SeenTyped DEF Rows, Key, TablesTyped
  <2> QED BY <2>1, <2>2
<1> QED BY <1>1, <1>2

-----------------------------------------------------------------------------
\* How often an entry has been given.
Never(g, e)   == \A i \in DOMAIN g : g[i] # e
OnceAt(g, e, i) == i \in DOMAIN g /\ g[i] = e /\ \A j \in DOMAIN g : g[j] = e => j = i
Once(g, e)    == \E i : OnceAt(g, e, i)

LEMMA OnceIsOne == ASSUME NEW g, NEW e, Once(g, e) PROVE Cardinality({i \in DOMAIN g : g[i] = e}) = 1
<1>1. PICK i : OnceAt(g, e, i)
  BY DEF Once
<1>2. {j \in DOMAIN g : g[j] = e} = {i}
  BY <1>1 DEF OnceAt
<1> QED BY <1>2, FS_Singleton

LEMMA Appended ==
  ASSUME NEW X, NEW g \in Seq(X), NEW h \in Seq(X), NEW e
  PROVE  /\ g \o h \in Seq(X)
         /\ Never(g, e) /\ Never(h, e) => Never(g \o h, e)
         /\ Never(g, e) /\ Once(h, e) => Once(g \o h, e)
         /\ Once(g, e) /\ Never(h, e) => Once(g \o h, e)
<1> DEFINE m == Len(g)
           n == Len(h)
           r == g \o h
<1>1. /\ m \in Nat /\ n \in Nat /\ DOMAIN g = 1 .. m /\ DOMAIN h = 1 .. n /\ r \in Seq(X) /\ DOMAIN r = 1 .. (m + n)
      /\ \A i \in 1 .. m : r[i] = g[i]
      /\ \A i \in 1 .. n : r[m + i] = h[i]
  <2>1. r \in Seq(X) /\ Len(r) = m + n /\ \A i \in 1 .. m + n : r[i] = IF i <= m THEN g[i] ELSE h[i - m]
    BY ConcatProperties
  <2> QED BY <2>1
<1> HIDE DEF m, n, r
<1>2. \A j \in 1 .. (m + n) : j \in 1 .. m \/ \E i \in 1 .. n : j = m + i
  <2> TAKE j \in 1 .. (m + n)
  <2>1. CASE j <= m
    BY <1>1, <2>1
  <2>2. CASE j > m
    <3>1. j - m \in 1 .. n /\ j = m + (j - m)
      BY <1>1, <2>2
    <3> QED BY <3>1
  <2> QED BY <1>1, <2>1, <2>2
<1>3. ASSUME Never(g, e), Never(h, e) PROVE Never(r, e)
  <2> SUFFICES ASSUME NEW j \in 1 .. (m + n) PROVE r[j] # e
    BY <1>1 DEF Never
  <2> QED BY ZenonT(60), <1>1, <1>2, <1>3 DEF Never
<1>4. ASSUME Never(g, e), NEW i, OnceAt(h, e, i) PROVE OnceAt(r, e, m + i)
  <2>1. i \in 1 .. n /\ h[i] = e /\ m + i \in 1 .. (m + n)
    BY <1>1, <1>4 DEF OnceAt
  <2>2. ASSUME NEW j \in 1 .. (m + n), r[j] = e PROVE j = m + i
    <3>1. j \notin 1 .. m
      BY <1>1, <1>4, <2>2 DEF Never
    <3>2. PICK k \in 1 .. n : j = m + k
      BY <1>2, <3>1
    <3>3. h[k] = e
      BY <1>1, <2>2, <3>2
    <3>4. k = i
      BY <1>1, <1>4, <3>3 DEF OnceAt
    <3> QED BY <3>2, <3>4
  <2> QED BY <1>1, <2>1, <2>2 DEF OnceAt
<1>5. ASSUME Never(h, e), NEW i, OnceAt(g, e, i) PROVE OnceAt(r, e, i)
  <2>1. i \in 1 .. m /\ g[i] = e /\ i \in 1 .. (m + n)
    BY <1>1, <1>5 DEF OnceAt
  <2>2. ASSUME NEW j \in 1 .. (m + n), r[j] = e PROVE j = i
    <3>1. CASE j \in 1 .. m
      BY <1>1, <1>5, <2>2, <3>1 DEF OnceAt
    <3>2. ASSUME NEW k \in 1 .. n, j = m + k PROVE FALSE
      BY <1>1, <1>5, <2>2, <3>2 DEF Never
    <3> QED BY <1>2, <3>1, <3>2
  <2> QED BY <1>1, <2>1, <2>2 DEF OnceAt
<1> QED BY <1>1, <1>3, <1>4, <1>5 DEF r, Once

\* What the list gives for a row.
Entry(list, id) == Participants(list, <<id>>)[1]

LEMMA PageGives ==
  ASSUME TablesTyped, NEW list \in {"flows", "messages"}, NEW cursor, NEW after \in Descending(list, After(list, cursor))
  PROVE  LET page == Page(list, after) IN
         /\ \E X : page.items \in Seq(X)
         /\ page.next # <<>> => \E x \in After(list, cursor) : page.next = Key(list, x)
         /\ \A id \in After(list, cursor) : Once(page.items, Entry(list, id)) \/ Never(page.items, Entry(list, id))
         /\ \A id \in After(list, cursor) : Never(page.items, Entry(list, id)) <=> page.next # <<>> /\ Below(Key(list, id), page.next)
         /\ \A id, e : id \notin After(list, cursor) => Never(page.items, <<id, e>>)
<1> DEFINE A == After(list, cursor)
           N == Cardinality(A)
           n == Min({PageLimit, Len(after)})
           items == SubSeq(after, 1, n)
           page == Page(list, after)
           P(id) == IF list = "flows" THEN Of(tables.flows, id) ELSE {}
<1>1. A \subseteq Rows(list) /\ IsFiniteSet(A) /\ N \in Nat
  <2>1. A \subseteq Rows(list)
    BY DEF After
  <2> QED BY <2>1, KeysTyped, FS_Subset, FS_CardinalityType
<1>2. \A id \in A : Key(list, id) \in Nat \X Nat
  BY <1>1, KeysTyped
<1>3. /\ after \in [1 .. N -> A] /\ \A id \in A : \E k \in 1 .. N : after[k] = id
      /\ \A i, j \in 1 .. N : after[i] = after[j] => i = j
      /\ \A i, j \in 1 .. N : i < j => Below(Key(list, after[j]), Key(list, after[i]))
  BY DEF Descending, Bijection, Injection, Surjection, IsInjective
<1> HIDE DEF A, N
<1>4. after \in Seq(A) /\ Len(after) = N
  BY <1>1, <1>3
<1>5. PageLimit \in Nat \ {0}
  BY PagesTyped
<1>6. n \in Nat /\ n <= N /\ n <= PageLimit /\ (n = N \/ n = PageLimit)
  <2>1. \E x \in {PageLimit, N} : \A y \in {PageLimit, N} : x <= y
    BY <1>1, <1>5
  <2>2. n \in {PageLimit, N} /\ \A y \in {PageLimit, N} : n <= y
    BY <1>4, <2>1 DEF Min
  <2> QED BY <1>1, <1>5, <2>2
<1> HIDE DEF n
<1>7. items \in Seq(A) /\ Len(items) = n /\ DOMAIN items = 1 .. n /\ \A k \in 1 .. n : items[k] = after[k]
  <2>1. \A k \in 1 .. n : after[k] \in A
    BY <1>1, <1>3, <1>6
  <2> QED BY <1>1, <1>4, <1>6, <2>1
<1>8. page = [items |-> Participants(list, items), next |-> IF N > PageLimit THEN Key(list, Last(items)) ELSE <<>>]
  BY <1>4 DEF Page, n
<1> HIDE DEF items, page
<1>9. DOMAIN page.items = 1 .. n /\ \A k \in 1 .. n : page.items[k] = <<after[k], P(after[k])>>
  BY <1>7, <1>8 DEF Participants
<1>10. \A id : Entry(list, id) = <<id, P(id)>>
  BY DEF Entry, Participants
<1> HIDE DEF P
<1>11. \E X : page.items \in Seq(X)
  <2> DEFINE X == {page.items[k] : k \in 1 .. n}
  <2>1. page.items = [k \in 1 .. n |-> page.items[k]]
    BY <1>8, <1>9 DEF Participants
  <2>2. page.items \in [1 .. n -> X]
    BY <2>1
  <2> HIDE DEF X
  <2>3. page.items \in Seq(X)
    BY <1>6, <2>2
  <2> QED BY <2>3
<1>12. page.next # <<>> => N > PageLimit /\ n = PageLimit /\ page.next = Key(list, after[n])
  <2> SUFFICES ASSUME page.next # <<>> PROVE N > PageLimit /\ n = PageLimit /\ page.next = Key(list, after[n])
    OBVIOUS
  <2>1. N > PageLimit /\ page.next = Key(list, Last(items))
    BY <1>8
  <2>2. n = PageLimit /\ n \in 1 .. n
    BY <1>1, <1>5, <1>6, <2>1
  <2>3. Last(items) = after[n]
    BY <1>7, <2>2 DEF Last
  <2> QED BY <2>1, <2>2, <2>3
<1>13. page.next = <<>> => n = N
  <2> SUFFICES ASSUME N > PageLimit PROVE page.next # <<>>
    BY <1>1, <1>5, <1>6
  <2>1. page.next = Key(list, Last(items))
    BY <1>8
  <2> QED BY <2>1 DEF Key
<1>14. ASSUME NEW id \in A
       PROVE  /\ Once(page.items, Entry(list, id)) \/ Never(page.items, Entry(list, id))
              /\ Never(page.items, Entry(list, id)) <=> page.next # <<>> /\ Below(Key(list, id), page.next)
  <2>1. PICK k \in 1 .. N : after[k] = id
    BY <1>3
  <2>2. ASSUME NEW j \in 1 .. n PROVE page.items[j] = Entry(list, id) <=> j = k
    <3>1. j \in 1 .. N
      BY <1>1, <1>6
    <3>2. page.items[j] = <<after[j], P(after[j])>> /\ Entry(list, id) = <<id, P(id)>>
      BY <1>9, <1>10
    <3>3. ASSUME page.items[j] = Entry(list, id) PROVE j = k
      <4>1. after[j] = id
        BY <3>2, <3>3
      <4> QED BY <1>3, <2>1, <3>1, <4>1
    <3>4. ASSUME j = k PROVE page.items[j] = Entry(list, id)
      BY <2>1, <3>2, <3>4
    <3> QED BY <3>3, <3>4
  <2>3. CASE k <= n
    <3>1. k \in 1 .. n
      BY <1>1, <1>6, <2>3
    <3>2. OnceAt(page.items, Entry(list, id), k)
      BY <1>9, <2>2, <3>1 DEF OnceAt
    <3>3. ~Never(page.items, Entry(list, id))
      BY <1>9, <2>2, <3>1 DEF Never
    <3>4. page.next # <<>> => ~Below(Key(list, id), page.next)
      <4> SUFFICES ASSUME page.next # <<>> PROVE ~Below(Key(list, id), page.next)
        OBVIOUS
      <4>1. n \in 1 .. N /\ page.next = Key(list, after[n])
        BY <1>1, <1>5, <1>6, <1>12
      <4>2. k = n \/ Below(Key(list, after[n]), Key(list, after[k]))
        BY <1>3, <2>3, <4>1
      <4>3. Key(list, after[n]) \in Nat \X Nat /\ Key(list, id) \in Nat \X Nat
        BY <1>2, <1>3, <4>1
      <4> QED BY <2>1, <4>1, <4>2, <4>3, BelowOrders
    <3> QED BY <3>2, <3>3, <3>4 DEF Once
  <2>4. CASE k > n
    <3>1. Never(page.items, Entry(list, id))
      BY <1>1, <1>6, <1>9, <2>2, <2>4 DEF Never
    <3>2. page.next # <<>>
      BY <1>1, <1>6, <1>13, <2>4
    <3>3. n \in 1 .. N /\ page.next = Key(list, after[n])
      BY <1>1, <1>5, <1>6, <1>12, <3>2
    <3>4. Below(Key(list, after[k]), Key(list, after[n]))
      BY <1>3, <2>4, <3>3
    <3> QED BY <2>1, <3>1, <3>2, <3>3, <3>4
  <2> QED BY <1>1, <1>6, <2>3, <2>4
<1>15. ASSUME NEW id, NEW e, id \notin A PROVE Never(page.items, <<id, e>>)
  <2> SUFFICES ASSUME NEW j \in 1 .. n PROVE page.items[j] # <<id, e>>
    BY <1>9 DEF Never
  <2>1. after[j] \in A
    BY <1>1, <1>3, <1>6
  <2> QED BY <1>9, <1>15, <2>1
<1>16. page.next # <<>> => \E x \in A : page.next = Key(list, x)
  BY <1>1, <1>3, <1>5, <1>6, <1>12
<1> QED BY <1>11, <1>14, <1>15, <1>16 DEF page, A

-----------------------------------------------------------------------------
\* Rows that stood are as they were, and those not below the cursor have been given.
Stands(row) == /\ row[1] \in {"flows", "messages"} /\ row = <<row[1], row[2], row[3]>> /\ row[3][1] \in Rows(row[1])
               /\ Key(row[1], row[3][1]) = row[2] /\ Entry(row[1], row[3][1]) = row[3]
PagerInv ==
    /\ \A row \in stood : Stands(row)
    /\ DOMAIN pager = {"list", "cursor", "given"} /\ pager.list \in {"none", "flows", "messages", "done"}
    /\ \E X : pager.given \in Seq(X)
    /\ pager.list = "none" => stood = {}
    /\ pager.list \in {"flows", "messages"} =>
         /\ pager.cursor \in Nat \X Nat
         /\ \A row \in stood : /\ row[1] = pager.list
                              /\ IF Below(row[2], pager.cursor) THEN Never(pager.given, row[3]) ELSE Once(pager.given, row[3])
    /\ pager.list = "done" => \A row \in stood : Once(pager.given, row[3])

\* How far a reader has come with the rows of a set.
GivenUpTo(list, cursor, given, rs) ==
    \A row \in rs : IF cursor = <<>> \/ Below(row[2], cursor) THEN Never(given, row[3]) ELSE Once(given, row[3])

LEMMA GivenKeeps ==
  ASSUME TablesTyped, NEW list \in {"flows", "messages"}, NEW cursor, cursor = <<>> \/ cursor \in Nat \X Nat,
         NEW given, NEW X, given \in Seq(X), NEW rs, \A row \in rs : Stands(row) /\ row[1] = list,
         GivenUpTo(list, cursor, given, rs), Given(list, cursor, given)
  PROVE  /\ DOMAIN pager' = {"list", "cursor", "given"} /\ pager'.list \in {list, "done"}
         /\ \E Y : pager'.given \in Seq(Y)
         /\ pager'.list = list => pager'.cursor \in Nat \X Nat /\ GivenUpTo(list, pager'.cursor, pager'.given, rs)
         /\ pager'.list = "done" => \A row \in rs : Once(pager'.given, row[3])
<1> DEFINE A == After(list, cursor)
<1>1. PICK after \in Descending(list, A) :
         pager' = [list |-> IF Page(list, after).next = <<>> THEN "done" ELSE list, cursor |-> Page(list, after).next,
                   given |-> given \o Page(list, after).items]
  BY Zenon DEF Given
<1> DEFINE page == Page(list, after)
<1>2. /\ \E Y : page.items \in Seq(Y)
      /\ page.next # <<>> => \E x \in A : page.next = Key(list, x)
      /\ \A id \in A : Once(page.items, Entry(list, id)) \/ Never(page.items, Entry(list, id))
      /\ \A id \in A : Never(page.items, Entry(list, id)) <=> page.next # <<>> /\ Below(Key(list, id), page.next)
      /\ \A id, e : id \notin A => Never(page.items, <<id, e>>)
  BY PageGives
<1>3. A = {id \in Rows(list) : cursor = <<>> \/ Below(Key(list, id), cursor)}
  BY DEF After
<1> HIDE DEF A, page
<1>4. /\ pager'.list = (IF page.next = <<>> THEN "done" ELSE list) /\ pager'.cursor = page.next
      /\ pager'.given = given \o page.items /\ DOMAIN pager' = {"list", "cursor", "given"}
  BY <1>1 DEF page
<1>5. PICK Y : page.items \in Seq(Y)
  BY <1>2
<1>6. given \in Seq(X \cup Y) /\ page.items \in Seq(X \cup Y)
  BY <1>5
<1>7. \A e : /\ Never(given, e) /\ Never(page.items, e) => Never(pager'.given, e)
             /\ Never(given, e) /\ Once(page.items, e) => Once(pager'.given, e)
             /\ Once(given, e) /\ Never(page.items, e) => Once(pager'.given, e)
  BY <1>4, <1>6, Appended
<1>8. pager'.given \in Seq(X \cup Y)
  BY <1>4, <1>6, Appended
<1>9. page.next # <<>> => page.next \in Nat \X Nat /\ (cursor = <<>> \/ Below(page.next, cursor))
  BY <1>2, <1>3, KeysTyped
<1>10. ASSUME NEW row \in rs
       PROVE  IF page.next # <<>> /\ Below(row[2], page.next) THEN Never(pager'.given, row[3]) ELSE Once(pager'.given, row[3])
  <2> DEFINE id == row[3][1]
  <2>1. id \in Rows(list) /\ Key(list, id) = row[2] /\ Entry(list, id) = row[3] /\ row[2] \in Nat \X Nat
    BY KeysTyped DEF Stands
  <2>2. row[3] = <<id, row[3][2]>>
    BY <2>1 DEF Entry, Participants
  <2>3. IF id \in A THEN Never(given, row[3]) ELSE Once(given, row[3])
    BY <1>3, <2>1 DEF GivenUpTo
  <2>6. /\ Never(given, row[3]) /\ Never(page.items, row[3]) => Never(pager'.given, row[3])
        /\ Never(given, row[3]) /\ Once(page.items, row[3]) => Once(pager'.given, row[3])
        /\ Once(given, row[3]) /\ Never(page.items, row[3]) => Once(pager'.given, row[3])
    BY Zenon, <1>7
  <2> HIDE DEF id
  <2>4. CASE id \in A
    <3>1. Never(given, row[3])
      BY <2>3, <2>4
    <3>2. Never(page.items, row[3]) <=> page.next # <<>> /\ Below(row[2], page.next)
      BY <1>2, <2>1, <2>4
    <3>3. Once(page.items, row[3]) \/ Never(page.items, row[3])
      BY <1>2, <2>1, <2>4
    <3>4. CASE page.next # <<>> /\ Below(row[2], page.next)
      <4>1. Never(pager'.given, row[3])
        BY ONLY <2>6, <3>1, <3>2, <3>4
      <4> QED BY <3>4, <4>1
    <3>5. CASE ~(page.next # <<>> /\ Below(row[2], page.next))
      <4>1. Once(pager'.given, row[3])
        BY ONLY <2>6, <3>1, <3>2, <3>3, <3>5
      <4> QED BY <3>5, <4>1
    <3> QED BY <3>4, <3>5
  <2>5. CASE id \notin A
    <3>1. Once(given, row[3]) /\ cursor # <<>> /\ ~Below(row[2], cursor)
      BY <1>3, <2>1, <2>3, <2>5
    <3>2. Never(page.items, row[3])
      BY <1>2, <2>2, <2>5
    <3>3. ~(page.next # <<>> /\ Below(row[2], page.next))
      BY <1>9, <2>1, <3>1, BelowOrders
    <3>4. Once(pager'.given, row[3])
      BY ONLY <2>6, <3>1, <3>2
    <3> QED BY <3>3, <3>4
  <2> QED BY <2>4, <2>5
<1>11. list # "done"
  OBVIOUS
<1>12. pager'.list = list => pager'.cursor \in Nat \X Nat /\ GivenUpTo(list, pager'.cursor, pager'.given, rs)
  BY <1>4, <1>9, <1>10, <1>11 DEF GivenUpTo
<1>13. pager'.list = "done" => \A row \in rs : Once(pager'.given, row[3])
  BY <1>4, <1>10, <1>11
<1> QED BY <1>4, <1>8, <1>12, <1>13

\* A place in a list is no empty sequence.
LEMMA PlaceIsNot == ASSUME NEW p \in Nat \X Nat PROVE p # <<>>
<1>1. PICK x \in Nat, y \in Nat : p = <<x, y>>
  OBVIOUS
<1>2. \A a, b : Len(<<a, b>>) = 2 /\ Len(<<>>) = 0
  OBVIOUS
<1>3. Len(p) = 2 /\ Len(<<>>) # 2
  BY ONLY <1>1, <1>2
<1> QED BY ONLY <1>3

\* A reader who came on with a list keeps what the invariant says of him.
LEMMA PagerIs ==
  ASSUME NEW list \in {"flows", "messages"}, \A row \in stood' : Stands(row)' /\ row[1] = list,
         DOMAIN pager' = {"list", "cursor", "given"}, pager'.list \in {list, "done"}, \E Y : pager'.given \in Seq(Y),
         pager'.list = list => pager'.cursor \in Nat \X Nat /\ GivenUpTo(list, pager'.cursor, pager'.given, stood'),
         pager'.list = "done" => \A row \in stood' : Once(pager'.given, row[3])
  PROVE  PagerInv'
<1>1. pager'.list \in {"none", "flows", "messages", "done"} /\ pager'.list # "none"
  BY ONLY list \in {"flows", "messages"}, pager'.list \in {list, "done"}
<1>2. ASSUME pager'.list \in {"flows", "messages"}
      PROVE  /\ pager'.cursor \in Nat \X Nat
             /\ \A row \in stood' : /\ row[1] = pager'.list
                                   /\ IF Below(row[2], pager'.cursor) THEN Never(pager'.given, row[3]) ELSE Once(pager'.given, row[3])
  <2>1. pager'.list = list
    BY ONLY <1>2, list \in {"flows", "messages"}, pager'.list \in {list, "done"}
  <2>2. pager'.cursor \in Nat \X Nat /\ GivenUpTo(list, pager'.cursor, pager'.given, stood')
    BY <2>1
  <2>3. pager'.cursor # <<>>
    BY ONLY <2>2, PlaceIsNot
  <2>4. ASSUME NEW row \in stood'
        PROVE  IF Below(row[2], pager'.cursor) THEN Never(pager'.given, row[3]) ELSE Once(pager'.given, row[3])
    BY ONLY Zenon, <2>2, <2>3, <2>4 DEF GivenUpTo
  <2> QED BY <2>1, <2>2, <2>4
<1> QED BY Zenon, <1>1, <1>2 DEF PagerInv

\* A row stands as long as the tables do.
LEMMA StandsLasts == ASSUME tables' = tables, NEW row, Stands(row) PROVE Stands(row)'
  BY DEF Stands, Rows, Key, Entry, Participants, Of

LEMMA PagerStep == TablesTyped /\ PagerInv /\ [PagesNext]_pageVars => PagerInv'
<1> SUFFICES ASSUME TablesTyped, PagerInv, [PagesNext]_pageVars PROVE PagerInv'
  OBVIOUS
<1>1. CASE UNCHANGED pageVars
  <2>1. tables' = tables /\ pager' = pager /\ stood' = stood
    BY <1>1 DEF pageVars
  <2>2. \A row \in stood : Stands(row)'
    BY <2>1, StandsLasts DEF PagerInv
  <2> QED BY Zenon, <2>1, <2>2 DEF PagerInv
<1>2. CASE Observes
  <2>1. pager' = pager /\ stood' \subseteq stood
    BY <1>2 DEF Observes
  <2>2. ASSUME NEW row \in stood' PROVE Stands(row)'
    <3>1. row \in stood /\ row[3][1] \in Rows(row[1])' /\ Key(row[1], row[3][1])' = row[2] /\ Participants(row[1], <<row[3][1]>>)'[1] = row[3]
      BY <1>2 DEF Observes
    <3>2. row[1] \in {"flows", "messages"} /\ row = <<row[1], row[2], row[3]>>
      BY <3>1 DEF PagerInv, Stands
    <3> QED BY <3>1, <3>2 DEF Stands, Entry
  <2> QED BY <2>1, <2>2 DEF PagerInv
<1>3. ASSUME NEW list \in {"flows", "messages"}, pager = NoPager, Given(list, <<>>, <<>>), UNCHANGED tables,
             stood' = {<<list, Key(list, id), Participants(list, <<id>>)[1]>> : id \in Rows(list)}
      PROVE  PagerInv'
  <2>1. \A row \in stood' : Stands(row) /\ row[1] = list
    <3> SUFFICES ASSUME NEW id \in Rows(list), NEW row, row = <<list, Key(list, id), Entry(list, id)>> PROVE Stands(row) /\ row[1] = list
      BY <1>3 DEF Entry
    <3>1. Entry(list, id)[1] = id
      BY DEF Entry, Participants
    <3> QED BY <3>1 DEF Stands
  <2>2. GivenUpTo(list, <<>>, <<>>, stood')
    BY DEF GivenUpTo, Never
  <2>3. <<>> \in Seq({})
    OBVIOUS
  <2>4. /\ DOMAIN pager' = {"list", "cursor", "given"} /\ pager'.list \in {list, "done"}
        /\ \E Y : pager'.given \in Seq(Y)
        /\ pager'.list = list => pager'.cursor \in Nat \X Nat /\ GivenUpTo(list, pager'.cursor, pager'.given, stood')
        /\ pager'.list = "done" => \A row \in stood' : Once(pager'.given, row[3])
    BY <1>3, <2>1, <2>2, <2>3, GivenKeeps
  <2>5. \A row \in stood' : Stands(row)'
    BY <1>3, <2>1, StandsLasts
  <2> QED BY <2>1, <2>4, <2>5, PagerIs
<1>4. CASE NextPage
  <2> DEFINE list == pager.list
  <2>1. list \in {"flows", "messages"} /\ Given(list, pager.cursor, pager.given) /\ UNCHANGED <<tables, stood>>
    BY <1>4 DEF NextPage, PagerInv
  <2>2. pager.cursor \in Nat \X Nat /\ \A row \in stood : Stands(row) /\ row[1] = list
    BY <2>1 DEF PagerInv
  <2>3. pager.cursor # <<>>
    BY ONLY <2>2, PlaceIsNot
  <2>4. GivenUpTo(list, pager.cursor, pager.given, stood)
    BY <2>1, <2>3 DEF PagerInv, GivenUpTo
  <2>5. PICK X : pager.given \in Seq(X)
    BY DEF PagerInv
  <2>6. /\ DOMAIN pager' = {"list", "cursor", "given"} /\ pager'.list \in {list, "done"}
        /\ \E Y : pager'.given \in Seq(Y)
        /\ pager'.list = list => pager'.cursor \in Nat \X Nat /\ GivenUpTo(list, pager'.cursor, pager'.given, stood)
        /\ pager'.list = "done" => \A row \in stood : Once(pager'.given, row[3])
    BY <2>1, <2>2, <2>4, <2>5, GivenKeeps
  <2>7. ASSUME NEW row \in stood PROVE Stands(row)'
    BY <2>1, <2>2, StandsLasts
  <2> HIDE DEF list
  <2>8. stood' = stood
    BY <2>1
  <2>9. \A row \in stood' : Stands(row)' /\ row[1] = list
    BY <2>2, <2>7, <2>8
  <2> QED BY <2>1, <2>6, <2>8, <2>9, PagerIs
<1>5. CASE Forget
  <2>1. pager' = NoPager /\ stood' = {}
    BY <1>5 DEF Forget
  <2>2. <<>> \in Seq({})
    OBVIOUS
  <2> QED BY <2>1, <2>2 DEF PagerInv, NoPager
<1> QED BY <1>1, <1>2, <1>3, <1>4, <1>5 DEF PagesNext, FirstPage

LEMMA PagesStart == PagesInit => DocTyped /\ TablesTyped /\ PagerInv
<1> SUFFICES ASSUME PagesInit PROVE DocTyped /\ TablesTyped /\ PagerInv
  OBVIOUS
<1>1. doc = Blank /\ tables = Replaced(Blank) /\ pager = NoPager /\ stood = {}
  BY DEF PagesInit
<1>2. DOMAIN <<>> = {} /\ <<>> \in Seq({})
  OBVIOUS
<1>3. Blank.messages = {} /\ Blank.flows = <<>>
  BY DEF Blank
<1>4. tables.messages = {} /\ DOMAIN tables.flows.at = {}
  BY <1>1, <1>2, <1>3 DEF Replaced, InsertFlows
<1>5. DocTyped /\ TablesTyped
  BY <1>1, <1>2, <1>3, <1>4, FS_EmptySet DEF DocTyped, TablesTyped
<1>6. PagerInv
  BY <1>1, <1>2 DEF PagerInv, NoPager
<1> QED BY <1>5, <1>6

LEMMA PagerGives == PagerInv => StandingRowsAreGiven
  BY OnceIsOne DEF PagerInv, StandingRowsAreGiven

\* For every limit and every content of the records, whatever the observer writes between two pages: a
\* reader that is through has been given each row that stood exactly once.
THEOREM PagesAreComplete == PagesSpec => []StandingRowsAreGiven
<1>1. DocTyped /\ TablesTyped /\ PagerInv /\ [PagesNext]_pageVars => (DocTyped /\ TablesTyped /\ PagerInv)'
  BY PagesTypes, PagerStep
<1> QED BY <1>1, PagesStart, PagerGives, PTL DEF PagesSpec

-----------------------------------------------------------------------------
(* Paths                                                                     *)

LEMMA LeastOf ==
  ASSUME NEW T \in SUBSET Nat, T # {}
  PROVE  \E x \in T : \A y \in T : x <= y
<1> DEFINE R == OpToRel(<, Nat)
<1>1. IsWellFoundedOn(R, Nat)
  BY NatLessThanWellFounded
<1>2. \A x, y \in Nat : x < y => <<x, y>> \in R
  BY DEF OpToRel
<1> HIDE DEF R
<1>3. PICK x \in T : \A y \in T : ~(<<y, x>> \in R)
  BY <1>1, WFMin
<1>4. x \in Nat /\ \A y \in T : y \in Nat /\ ~(y < x)
  BY <1>2, <1>3
<1>5. \A y \in T : x <= y
  BY <1>4
<1> QED BY <1>5

LEMMA SetInduction ==
  ASSUME NEW S, 0 \in S, \A n \in Nat : n \in S => n + 1 \in S
  PROVE  Nat \subseteq S
<1> SUFFICES ASSUME Nat \ S # {} PROVE FALSE
  OBVIOUS
<1>1. PICK x \in Nat \ S : \A y \in Nat \ S : x <= y
  BY LeastOf
<1>2. x # 0 /\ x - 1 \in Nat /\ x - 1 \in S
  BY <1>1
<1> QED BY <1>1, <1>2

-----------------------------------------------------------------------------
\* A function that starts with a and goes on by G, which may depend on the place.
Goes(f, n, a, G) == f[0] = a /\ \A k \in 1 .. n : f[k] = G[<<f[k - 1], k>>]

LEMMA GoingOn ==
  ASSUME NEW S, NEW a \in S, NEW L \in Nat, NEW G \in [S \X (1 .. L) -> S]
  PROVE  \E f \in [0 .. L -> S] : Goes(f, L, a, G)
<1> DEFINE T == {n \in Nat : n <= L => \E f \in [0 .. n -> S] : Goes(f, n, a, G)}
<1> USE DEF Goes
<1>1. 0 \in T
  <2> DEFINE f == [k \in 0 .. 0 |-> a]
  <2>1. f \in [0 .. 0 -> S] /\ Goes(f, 0, a, G)
    OBVIOUS
  <2> QED BY <2>1
<1>2. ASSUME NEW n \in Nat, n \in T PROVE n + 1 \in T
  <2> SUFFICES ASSUME n + 1 <= L PROVE \E f \in [0 .. n + 1 -> S] : Goes(f, n + 1, a, G)
    OBVIOUS
  <2>1. PICK f \in [0 .. n -> S] : Goes(f, n, a, G)
    BY <1>2
  <2> DEFINE g == [k \in 0 .. n + 1 |-> IF k <= n THEN f[k] ELSE G[<<f[n], n + 1>>]]
  <2>0. G[<<f[n], n + 1>>] \in S
    BY <2>1
  <2>2. g \in [0 .. n + 1 -> S] /\ g[0] = a
    BY <2>1, <2>0
  <2>3. \A k \in 1 .. n + 1 : g[k] = G[<<g[k - 1], k>>]
    <3> TAKE k \in 1 .. n + 1
    <3>1. CASE k <= n
      <4>1. k \in 1 .. n /\ k - 1 \in 0 .. n /\ k \in 0 .. n + 1 /\ k - 1 \in 0 .. n + 1 /\ k - 1 <= n
        BY ONLY <3>1, n \in Nat, k \in 1 .. n + 1
      <4>2. g[k] = f[k] /\ g[k - 1] = f[k - 1]
        BY <3>1, <4>1
      <4>3. f[k] = G[<<f[k - 1], k>>]
        BY <2>1, <4>1
      <4> HIDE DEF g
      <4> QED BY ONLY Zenon, <4>2, <4>3
    <3>2. CASE k = n + 1
      <4>1. k \in 0 .. n + 1 /\ n \in 0 .. n + 1 /\ ~(k <= n) /\ n <= n /\ k - 1 = n
        BY ONLY <3>2, n \in Nat
      <4>2. g[k] = G[<<f[n], n + 1>>] /\ g[n] = f[n]
        BY <4>1
      <4> HIDE DEF g
      <4> QED BY ONLY Zenon, <3>2, <4>1, <4>2
    <3> QED BY <3>1, <3>2
  <2> HIDE DEF g
  <2> QED BY <2>2, <2>3
<1> HIDE DEF T
<1>3. L \in T
  BY <1>1, <1>2, SetInduction
<1> QED BY <1>3 DEF T

-----------------------------------------------------------------------------
(* Paths                                                                     *)

EdgeRow == [src : Nodes, kind : Kinds, dst : Nodes, from : Times, to : Times \cup {0}]

\* Walks of d steps from n: each step stays or follows an edge of the table.
Step(t, m, n) == m = n \/ \E j \in DOMAIN t : Ends(t[j]) = {m, n}
Walks(t, n, d) == {w \in [1 .. d + 1 -> Nodes] : w[1] = n /\ \A i \in 1 .. d : Step(t, w[i], w[i + 1])}

LEMMA WithinIs == ASSUME NEW t, NEW n, NEW d PROVE Within(t, n, d) = {m \in Nodes : \E w \in Walks(t, n, d) : w[d + 1] = m}
  BY DEF Within, Walks, Step

\* The rows only grow, and an edge keeps its ends.
RowsInv == /\ rows \in Seq(EdgeRow)
           /\ DOMAIN before \subseteq DOMAIN rows
           /\ \A j \in DOMAIN before : Ends(before[j]) = Ends(rows[j])

\* What the stages of a query are for.
StageInv == /\ query.op = "path" => query.depth \in Nat \ {0} /\ query.kinds = {}
            /\ query.at \in {"walk", "edges"} => query.op \in {"path", "neighborhood"}
            /\ query.at = "search" => query.op = "path" /\ query.start = 0
            /\ query.at \in {"entity", "neighbors"} => query.op = "profile"
            /\ DOMAIN answer = {"ok", "found", "path", "counts", "weights"}
            /\ DOMAIN query = {"at", "op", "src", "dst", "depth", "kinds", "start"} /\ DOMAIN known = {"nodes", "edges"}

\* What was near when the query came is among the nodes it knows.
Covers(nodes, t, q) == q.src \in Entities(t) =>
    /\ q.src \in nodes
    /\ q.start = 0 => \A d \in 0 .. q.depth : \A w \in Walks(t, q.src, d) : \A k \in 1 .. d + 1 : w[k] \in nodes
NodesInv == query.at \in {"edges", "search"} /\ query.op = "path" => Covers(known.nodes, before, query)

\* And so are the edges between them.
EdgesInv == query.at = "search" =>
              /\ known.edges \subseteq DOMAIN rows
              /\ \A j \in DOMAIN before : Ends(before[j]) \subseteq known.nodes => j \in known.edges

\* Every edge stays, with its ends, its kind and its start.
Lasting(t, u) == /\ DOMAIN t \subseteq DOMAIN u
                 /\ \A j \in DOMAIN t : Ends(u[j]) = Ends(t[j]) /\ u[j].kind = t[j].kind /\ u[j].from = t[j].from

LEMMA RowsGrow == RowsInv /\ [QueriesNext]_queryVars => Lasting(rows, rows') /\ rows' \in Seq(EdgeRow)
<1> SUFFICES ASSUME RowsInv, [QueriesNext]_queryVars PROVE Lasting(rows, rows') /\ rows' \in Seq(EdgeRow)
  OBVIOUS
<1>1. CASE rows' = rows
  BY <1>1 DEF RowsInv, Lasting
<1>3. ASSUME NEW l \in Links, NEW t \in Times,
             rows' = Append(rows, [src |-> l[1], kind |-> l[2], dst |-> l[3], from |-> t, to |-> 0])
      PROVE  Lasting(rows, rows') /\ rows' \in Seq(EdgeRow)
  <2> DEFINE e == [src |-> l[1], kind |-> l[2], dst |-> l[3], from |-> t, to |-> 0]
  <2>1. e \in EdgeRow
    BY DEF EdgeRow, Nodes, Kinds
  <2> HIDE DEF e
  <2>2. rows' \in Seq(EdgeRow) /\ DOMAIN rows \subseteq DOMAIN rows' /\ \A j \in DOMAIN rows : rows'[j] = rows[j]
    BY <1>3, <2>1 DEF e, RowsInv
  <2> QED BY <2>2 DEF Lasting
<1>4. ASSUME NEW n \in Nodes, NEW t \in Times,
             rows' = [i \in DOMAIN rows |-> IF rows[i].dst = n /\ rows[i].to = 0 THEN [rows[i] EXCEPT !.to = t] ELSE rows[i]]
      PROVE  Lasting(rows, rows') /\ rows' \in Seq(EdgeRow)
  <2>1. \A i \in DOMAIN rows : rows[i] \in EdgeRow
    BY DEF RowsInv
  <2>2. \A i \in DOMAIN rows : /\ rows'[i] \in EdgeRow /\ rows'[i].src = rows[i].src /\ rows'[i].dst = rows[i].dst
                               /\ rows'[i].kind = rows[i].kind /\ rows'[i].from = rows[i].from
    BY <1>4, <2>1 DEF EdgeRow
  <2>3. DOMAIN rows' = DOMAIN rows /\ rows' \in Seq(EdgeRow)
    BY <1>4, <2>2 DEF RowsInv
  <2> QED BY <2>2, <2>3 DEF Lasting, Ends
<1> QED BY <1>1, <1>3, <1>4 DEF QueriesNext, Write, Ask, WalkNodes, EdgesBetween, Dequeue, Trail, ProfileCounts, ProfileNeighbors, queryVars

LEMMA RowsStep == RowsInv /\ [QueriesNext]_queryVars => RowsInv'
<1> SUFFICES ASSUME RowsInv, [QueriesNext]_queryVars PROVE RowsInv'
  OBVIOUS
<1>1. Lasting(rows, rows') /\ rows' \in Seq(EdgeRow)
  BY RowsGrow
<1>2. CASE before' = before
  BY <1>1, <1>2 DEF RowsInv, Lasting
<1>3. CASE before' = rows'
  BY <1>1, <1>3 DEF RowsInv
<1> QED BY <1>2, <1>3 DEF QueriesNext, Write, Ask, WalkNodes, EdgesBetween, Dequeue, Trail, ProfileCounts, ProfileNeighbors, queryVars

LEMMA StageStep == StageInv /\ [QueriesNext]_queryVars => StageInv'
<1> SUFFICES ASSUME StageInv, [QueriesNext]_queryVars PROVE StageInv'
  OBVIOUS
<1> USE DEF StageInv
<1>1. CASE UNCHANGED <<query, known, answer>>
  BY <1>1
<1>2. CASE Ask
  BY <1>2, QueriesTyped DEF Ask, NoAnswer
<1>3. CASE WalkNodes
  BY <1>3 DEF WalkNodes
<1>4. CASE EdgesBetween
  <2>1. DOMAIN known' = DOMAIN known
    BY <1>4 DEF EdgesBetween
  <2> QED BY ZenonT(60), <1>4, <2>1 DEF EdgesBetween, Answered
<1>5. CASE Trail
  BY ZenonT(60), <1>5 DEF Trail, Answered
<1>6. CASE ProfileCounts
  BY ZenonT(60), <1>6 DEF ProfileCounts, Answered
<1>7. CASE ProfileNeighbors
  BY <1>7 DEF ProfileNeighbors
<1> QED BY <1>1, <1>2, <1>3, <1>4, <1>5, <1>6, <1>7 DEF QueriesNext, Write, Dequeue, queryVars

\* What the recursive statement adds to the nodes it has.
Next1(s) == s \cup UNION {Ends(e) : e \in {rows[i] : i \in {j \in DOMAIN rows :
                        /\ OfKinds(rows[j]) /\ InWindow(rows[j])
                        /\ Ends(rows[j]) \cap s # {}}}}

WalksBy(W, start, D) == /\ Walk(start, D) = W[D] \cap Entities(rows)
                        /\ W[0] = {start} /\ \A d \in 1 .. D : W[d] = Next1(W[d - 1])

LEMMA WalkIs ==
  ASSUME RowsInv, NEW start, NEW D \in Nat
  PROVE  \E W : WalksBy(W, start, D)
<1> DEFINE X == SUBSET (Nodes \cup {start})
           G == [p \in X \X (1 .. D) |-> Next1(p[1])]
           Eq(w) == [d \in 0 .. D |-> IF d = 0 THEN {start} ELSE Next1(w[d - 1])]
           some == CHOOSE w : w = Eq(w)
<1>1. ASSUME NEW s \in X PROVE Next1(s) \in X
  <2>0. \A i \in DOMAIN rows : rows[i] \in EdgeRow
    BY DEF RowsInv
  <2>1. \A i \in DOMAIN rows : Ends(rows[i]) \subseteq Nodes
    BY <2>0 DEF EdgeRow, Ends
  <2> QED BY <2>1 DEF Next1
<1>2. Walk(start, D) = some[D] \cap Entities(rows)
  BY DEF Walk, Next1
<1> HIDE DEF X
<1>3. G \in [X \X (1 .. D) -> X]
  BY <1>1
<1>4. \A s \in X, d \in 1 .. D : G[<<s, d>>] = Next1(s)
  OBVIOUS
<1> HIDE DEF G
<1>5. {start} \in X
  BY DEF X
<1>6. PICK f \in [0 .. D -> X] : Goes(f, D, {start}, G)
  BY <1>3, <1>5, GoingOn
<1>7. f[0] = {start} /\ \A d \in 1 .. D : f[d] = Next1(f[d - 1])
  <2>1. f[0] = {start} /\ \A d \in 1 .. D : f[d] = G[<<f[d - 1], d>>]
    BY <1>6 DEF Goes
  <2>2. \A d \in 1 .. D : f[d - 1] \in X
    OBVIOUS
  <2> QED BY <1>4, <2>1, <2>2
<1>8. f = Eq(f)
  BY <1>7
<1>9. some = Eq(some)
  <2> HIDE DEF Eq
  <2> QED BY <1>8
<1> HIDE DEF some
<1>10. some[0] = {start} /\ \A d \in 1 .. D : some[d] = Next1(some[d - 1])
  <2>1. \A d \in 0 .. D : some[d] = IF d = 0 THEN {start} ELSE Next1(some[d - 1])
    BY <1>9
  <2>2. 0 \in 0 .. D /\ \A d \in 1 .. D : d \in 0 .. D /\ d # 0
    OBVIOUS
  <2> QED BY <2>1, <2>2
<1> QED BY <1>2, <1>10 DEF WalksBy

\* What the walk has once, it keeps.
LEMMA WalkGrows ==
  ASSUME NEW D \in Nat, NEW W, \A d \in 1 .. D : W[d] = Next1(W[d - 1]), NEW k \in 0 .. D
  PROVE  W[k] \subseteq W[D]
<1> DEFINE T == {n \in Nat : k + n <= D => W[k] \subseteq W[k + n]}
<1>1. 0 \in T
  OBVIOUS
<1>2. ASSUME NEW n \in Nat, n \in T PROVE n + 1 \in T
  <2> SUFFICES ASSUME k + (n + 1) <= D PROVE W[k] \subseteq W[k + (n + 1)]
    OBVIOUS
  <2>1. k + (n + 1) \in 1 .. D /\ k + (n + 1) - 1 = k + n
    OBVIOUS
  <2>2. W[k + (n + 1)] = Next1(W[k + n])
    BY <2>1
  <2>3. W[k + n] \subseteq W[k + (n + 1)]
    BY <2>2 DEF Next1
  <2> QED BY <1>2, <2>3
<1> HIDE DEF T
<1>3. D - k \in T
  BY <1>1, <1>2, SetInduction
<1> QED BY <1>3 DEF T

\* The first statement of a neighbourhood finds what was near when it came.
LEMMA WalkFinds ==
  ASSUME RowsInv, NEW src, NEW D \in Nat, src \in Entities(before)
  PROVE  /\ src \in Walk(src, D)
         /\ query.start = 0 /\ query.kinds = {} =>
              \A d \in 0 .. D : \A w \in Walks(before, src, d) : \A k \in 1 .. d + 1 : w[k] \in Walk(src, D)
<1>0. PICK W : WalksBy(W, src, D)
  BY WalkIs
<1>1. /\ Walk(src, D) = W[D] \cap Entities(rows)
      /\ W[0] = {src} /\ \A d \in 1 .. D : W[d] = Next1(W[d - 1])
  BY <1>0 DEF WalksBy
<1>2. \A k \in 0 .. D : W[k] \subseteq W[D]
  BY <1>1, WalkGrows
<1>3. Entities(before) \subseteq Entities(rows)
  BY DEF Entities, RowsInv
<1>4. src \in Walk(src, D)
  BY <1>1, <1>2, <1>3
<1>5. ASSUME query.start = 0, query.kinds = {}, NEW d \in 0 .. D, NEW w \in Walks(before, src, d)
      PROVE  \A k \in 1 .. d + 1 : w[k] \in Walk(src, D)
  <2> DEFINE T == {n \in Nat : n <= d => w[n + 1] \in W[n] /\ w[n + 1] \in Entities(rows)}
  <2>1. 0 \in T
    BY <1>1, <1>3 DEF Walks
  <2>2. ASSUME NEW n \in Nat, n \in T PROVE n + 1 \in T
    <3> SUFFICES ASSUME n + 1 <= d PROVE w[n + 2] \in W[n + 1] /\ w[n + 2] \in Entities(rows)
      OBVIOUS
    <3>1. W[n + 1] = Next1(W[n]) /\ w[n + 1] \in W[n] /\ w[n + 1] \in Entities(rows)
      BY <1>1, <2>2
    <3>2. Step(before, w[n + 1], w[n + 2])
      BY DEF Walks
    <3>3. CASE w[n + 2] = w[n + 1]
      BY <3>1, <3>3 DEF Next1
    <3>4. ASSUME NEW j \in DOMAIN before, Ends(before[j]) = {w[n + 1], w[n + 2]}
          PROVE  w[n + 2] \in W[n + 1] /\ w[n + 2] \in Entities(rows)
      <4>1. j \in DOMAIN rows /\ Ends(rows[j]) = {w[n + 1], w[n + 2]}
        BY <3>4 DEF RowsInv
      <4>2. OfKinds(rows[j]) /\ InWindow(rows[j])
        BY <1>5 DEF OfKinds, InWindow
      <4> QED BY <3>1, <4>1, <4>2 DEF Next1, Entities
    <3> QED BY <3>2, <3>3, <3>4 DEF Step
  <2> HIDE DEF T
  <2>3. Nat \subseteq T
    BY <2>1, <2>2, SetInduction
  <2>4. ASSUME NEW k \in 1 .. d + 1 PROVE w[k] \in Walk(src, D)
    <3>1. k - 1 \in Nat /\ k - 1 <= d /\ (k - 1) + 1 = k /\ k - 1 \in 0 .. D
      OBVIOUS
    <3>2. w[k] \in W[k - 1] /\ w[k] \in Entities(rows)
      BY <2>3, <3>1 DEF T
    <3> QED BY <1>1, <1>2, <3>1, <3>2
  <2> QED BY <2>4
<1> QED BY <1>4, <1>5

LEMMA NodesStep == RowsInv /\ StageInv /\ NodesInv /\ [QueriesNext]_queryVars => NodesInv'
<1> SUFFICES ASSUME RowsInv, StageInv, NodesInv, [QueriesNext]_queryVars PROVE NodesInv'
  OBVIOUS
<1>1. CASE UNCHANGED <<query, known, before>>
  BY <1>1 DEF NodesInv
<1>2. CASE Ask
  BY <1>2 DEF Ask, NodesInv
<1>3. CASE WalkNodes
  <2> SUFFICES ASSUME query.op = "path" PROVE Covers(known'.nodes, before', query')
    BY <1>3 DEF WalkNodes, NodesInv, StageInv
  <2>1. known'.nodes = Walk(query.src, query.depth) /\ before' = before
    BY <1>3 DEF WalkNodes
  <2>2. query'.src = query.src /\ query'.start = query.start /\ query'.depth = query.depth
    BY <1>3 DEF WalkNodes, StageInv
  <2>3. query.depth \in Nat /\ query.kinds = {}
    BY DEF StageInv
  <2>4. Covers(Walk(query.src, query.depth), before, query)
    BY <2>3, WalkFinds DEF Covers
  <2> QED BY <2>1, <2>2, <2>4 DEF Covers
<1>4. CASE EdgesBetween
  <2>0. before' = before /\ query.at = "edges"
    BY <1>4 DEF EdgesBetween
  <2>1. known'.nodes = known.nodes
    BY <1>4 DEF EdgesBetween, StageInv
  <2>2. query'.src = query.src /\ query'.op = query.op /\ query'.start = query.start /\ query'.depth = query.depth
    BY <1>4 DEF EdgesBetween, Answered, StageInv
  <2> QED BY <2>0, <2>1, <2>2 DEF NodesInv, Covers
<1>5. CASE Trail
  BY <1>5 DEF Trail, Answered, NodesInv, StageInv
<1>6. CASE ProfileCounts
  BY <1>6 DEF ProfileCounts, Answered, NodesInv, StageInv
<1>7. CASE ProfileNeighbors
  BY <1>7 DEF ProfileNeighbors, NodesInv, StageInv
<1> QED BY <1>1, <1>2, <1>3, <1>4, <1>5, <1>6, <1>7 DEF QueriesNext, Write, Dequeue, queryVars

LEMMA EdgesStep == RowsInv /\ StageInv /\ EdgesInv /\ [QueriesNext]_queryVars => EdgesInv'
<1> SUFFICES ASSUME RowsInv, StageInv, EdgesInv, [QueriesNext]_queryVars PROVE EdgesInv'
  OBVIOUS
<1>1. CASE UNCHANGED <<query, known, before>>
  <2>1. DOMAIN rows \subseteq DOMAIN rows'
    BY RowsGrow DEF Lasting
  <2> QED BY <1>1, <2>1 DEF EdgesInv, Ends
<1>2. CASE Ask
  BY <1>2 DEF Ask, EdgesInv
<1>3. CASE WalkNodes
  BY <1>3 DEF WalkNodes, EdgesInv, StageInv
<1>4. CASE EdgesBetween
  <2> SUFFICES ASSUME query'.at = "search"
               PROVE  known'.edges \subseteq DOMAIN rows /\ \A j \in DOMAIN before : Ends(before[j]) \subseteq known'.nodes => j \in known'.edges
    BY <1>4 DEF EdgesBetween, EdgesInv, Ends
  <2>1. ~(known.nodes # {} /\ query.start # 0) /\ query.op # "neighborhood" /\ query.at = "edges"
    BY <1>4 DEF EdgesBetween, Answered, StageInv
  <2>2. known' = [known EXCEPT !.edges = {i \in DOMAIN rows : Ends(rows[i]) \subseteq known.nodes /\ OfKinds(rows[i])}]
    BY <1>4, <2>1 DEF EdgesBetween
  <2> QED BY <2>1, <2>2 DEF StageInv, RowsInv, OfKinds
<1>5. CASE Trail
  BY <1>5 DEF Trail, Answered, EdgesInv, StageInv
<1>6. CASE ProfileCounts
  BY <1>6 DEF ProfileCounts, Answered, EdgesInv, StageInv
<1>7. CASE ProfileNeighbors
  BY <1>7 DEF ProfileNeighbors, EdgesInv, StageInv
<1> QED BY <1>1, <1>2, <1>3, <1>4, <1>5, <1>6, <1>7 DEF QueriesNext, Write, Dequeue, queryVars

-----------------------------------------------------------------------------
\* The search of Path, over the edges K of a table t and for a query q.
Searches == LET N == Nodes \cup {query.src} IN
            [queue : Seq(N), depth : UNION {[V -> Nat] : V \in SUBSET N},
             via : UNION {[V -> [edge : Nat, node : N]] : V \in SUBSET N}]

\* From every node it has marked the parents lead back to src, a step at a time.
Tree(s, K, t, q) ==
    /\ q.src \in DOMAIN s.depth /\ s.depth[q.src] = 0
    /\ \A v \in DOMAIN s.depth :
          /\ s.depth[v] <= q.depth
          /\ v # q.src => /\ v \in DOMAIN s.via /\ s.via[v].edge \in K /\ s.via[v].node \in DOMAIN s.depth
                          /\ Ends(t[s.via[v].edge]) = {v, s.via[v].node}
                          /\ s.depth[v] = s.depth[s.via[v].node] + 1
    /\ \A i \in DOMAIN s.queue : s.queue[i] \in DOMAIN s.depth

\* The queue is sorted by depth and of two depths at most, c and the next.
InOrder(s)  == \A i, j \in DOMAIN s.queue : i < j => s.depth[s.queue[i]] <= s.depth[s.queue[j]]
Level(s, c) == /\ \A v \in DOMAIN s.depth : s.depth[v] <= c + 1
               /\ \A i \in DOMAIN s.queue : c <= s.depth[s.queue[i]]

\* What has left the queue has its neighbours marked.
Queued(s, v)        == \E i \in DOMAIN s.queue : s.queue[i] = v
Marked(s, e, v, t)  == \A m : Ends(t[e]) = {v, m} => m \in DOMAIN s.depth /\ s.depth[m] <= s.depth[v] + 1
Done(s, v, K, t, q) == s.depth[v] < q.depth => \A e \in K : Marked(s, e, v, t)

SearchInv == query.at = "search" =>
    /\ search \in Searches /\ Tree(search, known.edges, rows, query) /\ InOrder(search)
    /\ search.queue # <<>> => Level(search, search.depth[search.queue[1]])
    /\ \A v \in DOMAIN search.depth : Queued(search, v) \/ Done(search, v, known.edges, rows, query)

Extends(s, r) == /\ DOMAIN s.depth \subseteq DOMAIN r.depth /\ \A v \in DOMAIN s.depth : r.depth[v] = s.depth[v]
                 /\ \A v \in DOMAIN r.depth : Queued(r, v) \/ v \in DOMAIN s.depth
                 /\ \A v \in DOMAIN s.depth : Queued(s, v) => Queued(r, v)

LEMMA EnqueuedKeeps ==
  ASSUME NEW s \in Searches, NEW K \in SUBSET DOMAIN rows, RowsInv, query.depth \in Nat,
         NEW n \in DOMAIN s.depth, s.depth[n] < query.depth, NEW i \in K, n \in Ends(rows[i]),
         Tree(s, K, rows, query), InOrder(s), Level(s, s.depth[n])
  PROVE  LET r == Enqueued(s, i, n) IN
         /\ r \in Searches /\ Tree(r, K, rows, query) /\ InOrder(r) /\ Level(r, s.depth[n])
         /\ Extends(s, r) /\ Marked(r, i, n, rows)
<1> DEFINE m == Other(i, n)
           c == s.depth[n]
           r == Enqueued(s, i, n)
           N == Nodes \cup {query.src}
<1>1. rows[i] \in EdgeRow /\ i \in Nat
  BY DEF RowsInv
<1>2. Ends(rows[i]) = {n, m} /\ m \in N
  BY <1>1 DEF Ends, Other, EdgeRow
<1>3. /\ s.queue \in Seq(N) /\ DOMAIN s.depth \subseteq N /\ \A v \in DOMAIN s.depth : s.depth[v] \in Nat
      /\ s.depth = [v \in DOMAIN s.depth |-> s.depth[v]]
      /\ DOMAIN s.via \subseteq N /\ \A v \in DOMAIN s.via : s.via[v] \in [edge : Nat, node : N]
  BY DEF Searches
<1>4. c \in Nat /\ n \in N
  BY <1>3
<1>5. CASE m \in DOMAIN s.depth
  <2>1. r = s
    BY <1>5 DEF Enqueued
  <2>2. Marked(s, i, n, rows)
    BY <1>2, <1>5 DEF Marked, Level
  <2> QED BY <2>1, <2>2 DEF Extends
<1>6. CASE m \notin DOMAIN s.depth
  <2> DEFINE dp == [x \in DOMAIN s.depth \cup {m} |-> IF x = m THEN c + 1 ELSE s.depth[x]]
             va == [x \in DOMAIN s.via \cup {m} |-> IF x = m THEN [edge |-> i, node |-> n] ELSE s.via[x]]
             qu == Append(s.queue, m)
  <2>1. r = [queue |-> qu, depth |-> dp, via |-> va]
    BY <1>6 DEF Enqueued
  <2>2. r.queue = qu /\ r.depth = dp /\ r.via = va
    BY <2>1
  <2>3. DOMAIN dp = DOMAIN s.depth \cup {m} /\ dp[m] = c + 1 /\ \A v \in DOMAIN s.depth : dp[v] = s.depth[v]
    BY <1>6
  <2>4. DOMAIN va = DOMAIN s.via \cup {m} /\ va[m] = [edge |-> i, node |-> n] /\ \A v \in DOMAIN s.depth : v \in DOMAIN s.via => va[v] = s.via[v]
    BY <1>6
  <2>5. r \in Searches
    <3>1. dp \in [DOMAIN s.depth \cup {m} -> Nat] /\ DOMAIN s.depth \cup {m} \subseteq N
      BY <1>2, <1>3, <1>4
    <3>2. va \in [DOMAIN s.via \cup {m} -> [edge : Nat, node : N]] /\ DOMAIN s.via \cup {m} \subseteq N
      BY <1>1, <1>2, <1>3, <1>4
    <3>3. qu \in Seq(N)
      BY <1>2, <1>3
    <3> HIDE DEF dp, va, qu, N
    <3>4. dp \in UNION {[V -> Nat] : V \in SUBSET N} /\ va \in UNION {[V -> [edge : Nat, node : N]] : V \in SUBSET N}
      BY <3>1, <3>2
    <3> QED BY <2>1, <3>3, <3>4 DEF Searches, N
  <2>6. /\ DOMAIN qu = 1 .. Len(s.queue) + 1 /\ DOMAIN s.queue = 1 .. Len(s.queue) /\ Len(s.queue) \in Nat
        /\ qu[Len(s.queue) + 1] = m /\ \A k \in DOMAIN s.queue : qu[k] = s.queue[k]
    BY <1>3
  <2> HIDE DEF dp, va, qu, m, N, r
  <2>7. Tree(r, K, rows, query)
    <3>1. query.src \in DOMAIN dp /\ dp[query.src] = 0
      BY <2>3 DEF Tree
    <3>2. ASSUME NEW v \in DOMAIN dp
          PROVE  /\ dp[v] <= query.depth
                 /\ v # query.src => /\ v \in DOMAIN va /\ va[v].edge \in K /\ va[v].node \in DOMAIN dp
                                     /\ Ends(rows[va[v].edge]) = {v, va[v].node}
                                     /\ dp[v] = dp[va[v].node] + 1
      <4>1. CASE v = m
        <5>1. va[v].edge = i /\ va[v].node = n /\ dp[n] = c /\ dp[v] = c + 1
          BY <2>3, <2>4, <4>1
        <5> QED BY <1>2, <1>4, <2>3, <2>4, <4>1, <5>1
      <4>2. CASE v \in DOMAIN s.depth
        <5>1. v # query.src => v \in DOMAIN s.via /\ va[v] = s.via[v] /\ s.via[v].node \in DOMAIN s.depth
          BY <2>4, <4>2 DEF Tree
        <5>2. /\ s.depth[v] <= query.depth
              /\ v # query.src => /\ s.via[v].edge \in K /\ Ends(rows[s.via[v].edge]) = {v, s.via[v].node}
                                  /\ s.depth[v] = s.depth[s.via[v].node] + 1
          BY <4>2 DEF Tree
        <5>3. dp[v] = s.depth[v] /\ (v # query.src => dp[s.via[v].node] = s.depth[s.via[v].node])
          BY <2>3, <4>2, <5>1
        <5>4. v # query.src => va[v].edge = s.via[v].edge /\ va[v].node = s.via[v].node
          BY <5>1
        <5>5. CASE v = query.src
          BY <5>2, <5>3, <5>5
        <5>6. CASE v # query.src
          <6>1. va[v].node \in DOMAIN dp /\ v \in DOMAIN va
            BY <2>3, <2>4, <5>1, <5>4, <5>6
          <6> QED BY <5>2, <5>3, <5>4, <5>6, <6>1
        <5> QED BY <5>5, <5>6
      <4> QED BY <2>3, <4>1, <4>2
    <3>3. \A k \in DOMAIN qu : qu[k] \in DOMAIN dp
      BY <2>3, <2>6 DEF Tree
    <3> QED BY <2>2, <3>1, <3>2, <3>3 DEF Tree
  <2>8. \A k \in DOMAIN s.queue : s.queue[k] \in DOMAIN s.depth /\ dp[s.queue[k]] = s.depth[s.queue[k]] /\ s.depth[s.queue[k]] \in Nat
    BY <1>3, <2>3 DEF Tree
  <2>9. InOrder(r)
    <3>1. ASSUME NEW j \in DOMAIN qu, NEW k \in DOMAIN qu, j < k PROVE dp[qu[j]] <= dp[qu[k]]
      <4>1. j \in DOMAIN s.queue /\ qu[j] = s.queue[j]
        BY <2>6, <3>1
      <4>2. CASE k \in DOMAIN s.queue
        BY <2>6, <2>8, <3>1, <4>1, <4>2 DEF InOrder
      <4>3. CASE k = Len(s.queue) + 1
        BY <2>3, <2>6, <2>8, <4>1, <4>3 DEF Level
      <4> QED BY <2>6, <4>2, <4>3
    <3> QED BY <2>2, <3>1 DEF InOrder
  <2>10. Level(r, c)
    <3>1. \A v \in DOMAIN dp : dp[v] <= c + 1
      BY <1>4, <2>3 DEF Level
    <3>2. \A k \in DOMAIN qu : c <= dp[qu[k]]
      BY <1>4, <2>3, <2>6, <2>8 DEF Level
    <3> QED BY <2>2, <3>1, <3>2 DEF Level
  <2>11. Extends(s, r)
    <3>1. Queued(r, m)
      BY <2>2, <2>6 DEF Queued
    <3>2. \A v : Queued(s, v) => Queued(r, v)
      BY <2>2, <2>6 DEF Queued
    <3> QED BY <2>2, <2>3, <3>1, <3>2 DEF Extends
  <2>12. Marked(r, i, n, rows)
    <3> SUFFICES ASSUME NEW x, Ends(rows[i]) = {n, x} PROVE x \in DOMAIN dp /\ dp[x] <= dp[n] + 1
      BY <2>2 DEF Marked
    <3>1. x = m \/ x = n
      BY <1>2
    <3> QED BY <1>4, <2>3, <3>1
  <2> QED BY <2>5, <2>7, <2>9, <2>10, <2>11, <2>12 DEF r
<1> QED BY <1>5, <1>6

LEMMA MarkedStays ==
  ASSUME NEW s, NEW r, Extends(s, r), NEW v \in DOMAIN s.depth, NEW t
  PROVE  /\ \A e : Marked(s, e, v, t) => Marked(r, e, v, t)
         /\ \A K, q : Done(s, v, K, t, q) => Done(r, v, K, t, q)
<1>1. ASSUME NEW e, Marked(s, e, v, t) PROVE Marked(r, e, v, t)
  BY <1>1 DEF Extends, Marked
<1> QED BY <1>1 DEF Done, Extends

\* A search between two edges of the node n, of the depth c.
Amid(s, n, c, K) == /\ Tree(s, K, rows, query) /\ InOrder(s) /\ Level(s, c)
                    /\ n \in DOMAIN s.depth /\ s.depth[n] = c
                    /\ \A v \in DOMAIN s.depth : v = n \/ Queued(s, v) \/ Done(s, v, K, rows, query)

LEMMA EnqueuedAmid ==
  ASSUME NEW s \in Searches, NEW K \in SUBSET DOMAIN rows, RowsInv, query.depth \in Nat,
         NEW n, NEW c, c < query.depth, Amid(s, n, c, K), NEW i \in K, n \in Ends(rows[i])
  PROVE  LET r == Enqueued(s, i, n) IN
         r \in Searches /\ Amid(r, n, c, K) /\ Extends(s, r) /\ Marked(r, i, n, rows)
<1> DEFINE r == Enqueued(s, i, n)
<1>1. /\ r \in Searches /\ Tree(r, K, rows, query) /\ InOrder(r) /\ Level(r, c)
      /\ Extends(s, r) /\ Marked(r, i, n, rows)
  BY EnqueuedKeeps DEF Amid
<1> HIDE DEF r
<1>2. n \in DOMAIN r.depth /\ r.depth[n] = c
  BY <1>1 DEF Extends, Amid
<1>3. ASSUME NEW v \in DOMAIN r.depth PROVE v = n \/ Queued(r, v) \/ Done(r, v, K, rows, query)
  <2>1. CASE v \notin DOMAIN s.depth
    BY <1>1, <2>1 DEF Extends
  <2>2. CASE v \in DOMAIN s.depth
    <3>1. v = n \/ Queued(s, v) \/ Done(s, v, K, rows, query)
      BY <2>2 DEF Amid
    <3>2. Queued(s, v) => Queued(r, v)
      BY <1>1, <2>2 DEF Extends
    <3>3. Done(s, v, K, rows, query) => Done(r, v, K, rows, query)
      BY <1>1, <2>2, MarkedStays
    <3> QED BY <3>1, <3>2, <3>3
  <2> QED BY <2>1, <2>2
<1>4. Amid(r, n, c, K)
  BY <1>1, <1>2, <1>3 DEF Amid
<1> QED BY <1>1, <1>4 DEF r

LEMMA ExpandedKeeps ==
  ASSUME NEW s \in Searches, NEW K \in SUBSET DOMAIN rows, RowsInv, query.depth \in Nat,
         NEW n, NEW c, c < query.depth, Amid(s, n, c, K),
         NEW o \in Seq(K), \A k \in DOMAIN o : n \in Ends(rows[o[k]]),
         \A e \in K : n \in Ends(rows[e]) => \E k \in DOMAIN o : o[k] = e
  PROVE  LET r == Expanded(s, o, n) IN
         r \in Searches /\ Amid(r, n, c, K) /\ Done(r, n, K, rows, query)
<1> DEFINE S == {x \in Searches : Amid(x, n, c, K)}
           L == Len(o)
           G == [p \in S \X (1 .. L) |-> Enqueued(p[1], o[p[2]], n)]
           Eq(f) == [k \in 0 .. L |-> IF k = 0 THEN s ELSE Enqueued(f[k - 1], o[k], n)]
           some == CHOOSE f : f = Eq(f)
<1>1. L \in Nat /\ DOMAIN o = 1 .. L /\ \A k \in 1 .. L : o[k] \in K
  OBVIOUS
<1>2. Expanded(s, o, n) = some[L]
  BY DEF Expanded
<1> HIDE DEF L
<1>3. ASSUME NEW x \in S, NEW k \in 1 .. L
      PROVE  Enqueued(x, o[k], n) \in S /\ Extends(x, Enqueued(x, o[k], n)) /\ Marked(Enqueued(x, o[k], n), o[k], n, rows)
  <2>1. o[k] \in K /\ n \in Ends(rows[o[k]])
    BY <1>1
  <2> QED BY <2>1, EnqueuedAmid
<1>4. s \in S
  OBVIOUS
<1> HIDE DEF S
<1>5. G \in [S \X (1 .. L) -> S]
  BY <1>3
<1>6. \A x \in S, k \in 1 .. L : G[<<x, k>>] = Enqueued(x, o[k], n)
  OBVIOUS
<1> HIDE DEF G
<1>7. PICK f \in [0 .. L -> S] : Goes(f, L, s, G)
  BY <1>1, <1>4, <1>5, GoingOn
<1>8. f = Eq(f)
  <2>1. f[0] = s /\ \A k \in 1 .. L : f[k] = G[<<f[k - 1], k>>]
    BY <1>7 DEF Goes
  <2>2. \A k \in 1 .. L : f[k - 1] \in S
    BY <1>1
  <2>3. \A k \in 1 .. L : f[k] = Enqueued(f[k - 1], o[k], n)
    BY <1>6, <2>1, <2>2
  <2>4. \A k \in 0 .. L : f[k] = IF k = 0 THEN s ELSE Enqueued(f[k - 1], o[k], n)
    BY <1>1, <2>1, <2>3
  <2> QED BY <2>4
<1>9. some = Eq(some)
  <2> HIDE DEF Eq
  <2> QED BY <1>8
<1> HIDE DEF some
<1>10. some[0] = s /\ \A k \in 1 .. L : some[k] = Enqueued(some[k - 1], o[k], n)
  <2>1. \A k \in 0 .. L : some[k] = IF k = 0 THEN s ELSE Enqueued(some[k - 1], o[k], n)
    BY <1>9
  <2>2. 0 \in 0 .. L /\ \A k \in 1 .. L : k \in 0 .. L /\ k # 0
    BY <1>1
  <2> QED BY <2>1, <2>2
<1> DEFINE T == {k \in Nat : k <= L => some[k] \in S /\ \A j \in 1 .. k : Marked(some[k], o[j], n, rows)}
<1>11. 0 \in T
  BY <1>4, <1>10
<1>12. ASSUME NEW k \in Nat, k \in T PROVE k + 1 \in T
  <2> SUFFICES ASSUME k + 1 <= L PROVE some[k + 1] \in S /\ \A j \in 1 .. k + 1 : Marked(some[k + 1], o[j], n, rows)
    OBVIOUS
  <2>1. k + 1 \in 1 .. L /\ some[k + 1] = Enqueued(some[k], o[k + 1], n) /\ some[k] \in S /\ \A j \in 1 .. k : Marked(some[k], o[j], n, rows)
    BY <1>1, <1>10, <1>12
  <2>2. some[k + 1] \in S /\ Extends(some[k], some[k + 1]) /\ Marked(some[k + 1], o[k + 1], n, rows)
    BY <1>3, <2>1
  <2>3. n \in DOMAIN some[k].depth
    BY <2>1 DEF S, Amid
  <2>4. \A j \in 1 .. k : Marked(some[k + 1], o[j], n, rows)
    <3>1. \A e : Marked(some[k], e, n, rows) => Marked(some[k + 1], e, n, rows)
      <4> DEFINE x == some[k]
                 y == some[k + 1]
      <4>1. Extends(x, y) /\ n \in DOMAIN x.depth
        BY <2>2, <2>3
      <4> HIDE DEF x, y
      <4>2. \A e : Marked(x, e, n, rows) => Marked(y, e, n, rows)
        BY <4>1, MarkedStays
      <4> QED BY <4>2 DEF x, y
    <3> QED BY <2>1, <3>1
  <2>5. \A j \in 1 .. k + 1 : j \in 1 .. k \/ j = k + 1
    OBVIOUS
  <2> QED BY <2>2, <2>4, <2>5
<1> HIDE DEF T
<1>13. L \in T
  BY <1>1, <1>11, <1>12, SetInduction
<1>14. some[L] \in S /\ \A j \in 1 .. L : Marked(some[L], o[j], n, rows)
  BY <1>1, <1>13 DEF T
<1>15. ASSUME NEW e \in K PROVE Marked(some[L], e, n, rows)
  <2>1. CASE n \in Ends(rows[e])
    BY <1>1, <1>14, <2>1
  <2>2. CASE n \notin Ends(rows[e])
    BY <2>2 DEF Marked
  <2> QED BY <2>1, <2>2
<1> QED BY <1>2, <1>14, <1>15 DEF S, Done

-----------------------------------------------------------------------------
\* The search of another table is the same, if the edges keep their ends.
LEMMA SearchLasts ==
  ASSUME NEW K \in SUBSET DOMAIN rows, Lasting(rows, rows'), NEW s, NEW q
  PROVE  /\ Tree(s, K, rows, q) => Tree(s, K, rows', q)
         /\ \A v : Done(s, v, K, rows, q) => Done(s, v, K, rows', q)
<1>1. \A e \in K : Ends(rows'[e]) = Ends(rows[e])
  BY DEF Lasting
<1>2. Tree(s, K, rows, q) => Tree(s, K, rows', q)
  <2> SUFFICES ASSUME Tree(s, K, rows, q) PROVE Tree(s, K, rows', q)
    OBVIOUS
  <2>1. \A v \in DOMAIN s.depth : v # q.src => Ends(rows'[s.via[v].edge]) = {v, s.via[v].node}
    BY <1>1 DEF Tree
  <2> QED BY <2>1 DEF Tree
<1>3. ASSUME NEW v, Done(s, v, K, rows, q) PROVE Done(s, v, K, rows', q)
  BY <1>1, <1>3 DEF Done, Marked
<1> QED BY <1>2, <1>3

\* The node that is taken from the queue is the least deep, and so is the next.
LEMMA Taken ==
  ASSUME SearchInv, query.at = "search", search.queue # <<>>
  PROVE  LET cur == Head(search.queue)
             rest == [search EXCEPT !.queue = Tail(@)]
         IN  /\ cur \in DOMAIN search.depth /\ search.depth[cur] \in Nat
             /\ rest \in Searches /\ rest.depth = search.depth /\ rest.via = search.via
             /\ rest.queue # <<>> => Level(rest, rest.depth[rest.queue[1]])
             /\ Amid(rest, cur, search.depth[cur], known.edges)
<1> DEFINE s == search
           cur == Head(search.queue)
           r == [search EXCEPT !.queue = Tail(@)]
           N == Nodes \cup {query.src}
<1>1. /\ search.queue \in Seq(N) /\ \A v \in DOMAIN search.depth : search.depth[v] \in Nat
      /\ search = [queue |-> search.queue, depth |-> search.depth, via |-> search.via]
      /\ search.depth \in UNION {[V -> Nat] : V \in SUBSET N} /\ search.via \in UNION {[V -> [edge : Nat, node : N]] : V \in SUBSET N}
  BY DEF SearchInv, Searches
<1>2. r = [queue |-> Tail(search.queue), depth |-> search.depth, via |-> search.via]
  <2> DEFINE q == search.queue
             d == search.depth
             v == search.via
             t == Tail(search.queue)
  <2>1. search = [queue |-> q, depth |-> d, via |-> v]
    BY <1>1
  <2> HIDE DEF q, d, v, t
  <2>2. [search EXCEPT !.queue = t] = [queue |-> t, depth |-> d, via |-> v]
    BY ONLY <2>1
  <2> USE DEF q, d, v, t
  <2> QED BY ONLY <2>2
<1>3. r.queue = Tail(search.queue) /\ r.depth = search.depth /\ r.via = search.via
  BY <1>2
<1>4. /\ cur = search.queue[1] /\ Tail(search.queue) \in Seq(N) /\ DOMAIN search.queue = 1 .. Len(search.queue)
      /\ Len(search.queue) \in Nat \ {0} /\ DOMAIN Tail(search.queue) = 1 .. Len(search.queue) - 1
      /\ \A k \in DOMAIN Tail(search.queue) : k + 1 \in DOMAIN search.queue /\ Tail(search.queue)[k] = search.queue[k + 1]
  BY <1>1
<1>5. /\ Tree(search, known.edges, rows, query) /\ InOrder(search) /\ Level(search, search.depth[cur])
      /\ \A v \in DOMAIN search.depth : Queued(search, v) \/ Done(search, v, known.edges, rows, query)
  BY <1>4 DEF SearchInv
<1>6. r \in Searches
  BY <1>1, <1>2, <1>4 DEF Searches
<1> HIDE DEF r, cur
<1>7. cur \in DOMAIN search.depth /\ search.depth[cur] \in Nat
  BY <1>1, <1>4, <1>5 DEF Tree
<1>8. \A k \in DOMAIN r.queue : k + 1 \in DOMAIN search.queue /\ r.queue[k] = search.queue[k + 1]
  BY <1>3, <1>4
<1>9. Tree(r, known.edges, rows, query)
  BY <1>3, <1>5, <1>8 DEF Tree
<1>10. InOrder(r)
  <2> SUFFICES ASSUME NEW i \in DOMAIN r.queue, NEW j \in DOMAIN r.queue, i < j PROVE r.depth[r.queue[i]] <= r.depth[r.queue[j]]
    BY DEF InOrder
  <2>1. i + 1 < j + 1 /\ i + 1 \in DOMAIN search.queue /\ j + 1 \in DOMAIN search.queue
    BY <1>3, <1>4, <1>8
  <2> QED BY <1>3, <1>5, <1>8, <2>1 DEF InOrder
<1>11. Level(r, search.depth[cur])
  BY <1>3, <1>5, <1>8 DEF Level
<1>12. ASSUME NEW v \in DOMAIN r.depth PROVE v = cur \/ Queued(r, v) \/ Done(r, v, known.edges, rows, query)
  <2>1. CASE Queued(search, v)
    <3>1. PICK i \in DOMAIN search.queue : search.queue[i] = v
      BY <2>1 DEF Queued
    <3>2. CASE i = 1
      BY <1>4, <3>1, <3>2
    <3>3. CASE i # 1
      <4>1. i - 1 \in DOMAIN r.queue /\ (i - 1) + 1 = i
        BY <1>3, <1>4, <3>3
      <4> QED BY <1>8, <3>1, <4>1 DEF Queued
    <3> QED BY <3>2, <3>3
  <2>2. CASE Done(search, v, known.edges, rows, query)
    BY <1>3, <2>2 DEF Done, Marked
  <2> QED BY <1>3, <1>5, <2>1, <2>2
<1>13. Amid(r, cur, search.depth[cur], known.edges)
  BY <1>3, <1>7, <1>9, <1>10, <1>11, <1>12 DEF Amid
<1>14. ASSUME r.queue # <<>> PROVE Level(r, r.depth[r.queue[1]])
  <2>1. 1 \in DOMAIN r.queue /\ DOMAIN r.queue \subseteq Nat \ {0}
    BY <1>3, <1>4, <1>14
  <2>2. r.queue[1] \in DOMAIN search.depth /\ search.depth[r.queue[1]] \in Nat /\ search.depth[cur] <= search.depth[r.queue[1]]
    BY <1>1, <1>3, <1>9, <1>11, <2>1 DEF Tree, Level
  <2>3. \A v \in DOMAIN r.depth : r.depth[v] <= r.depth[r.queue[1]] + 1
    <3> TAKE v \in DOMAIN r.depth
    <3>1. r.depth[v] \in Nat /\ r.depth[v] <= search.depth[cur] + 1
      BY <1>1, <1>3, <1>11 DEF Level
    <3>2. r.depth[r.queue[1]] = search.depth[r.queue[1]]
      BY <1>3
    <3> QED BY <1>7, <2>2, <3>1, <3>2
  <2>4. ASSUME NEW i \in DOMAIN r.queue PROVE r.depth[r.queue[1]] <= r.depth[r.queue[i]]
    <3>1. CASE i = 1
      BY <1>3, <2>2, <3>1
    <3>2. CASE i # 1
      BY <1>10, <2>1, <3>2 DEF InOrder
    <3> QED BY <3>1, <3>2
  <2> QED BY <2>3, <2>4 DEF Level
<1> QED BY <1>3, <1>6, <1>7, <1>13, <1>14 DEF r, cur

LEMMA DequeueKeeps ==
  ASSUME RowsInv, StageInv, EdgesInv, SearchInv, Dequeue
  PROVE  SearchInv'
<1> DEFINE cur == Head(search.queue)
           rest == [search EXCEPT !.queue = Tail(@)]
           K == known.edges
<1>1. query.at = "search" /\ search.queue # <<>> /\ UNCHANGED <<rows, query, known>>
  BY DEF Dequeue
<1>2. /\ cur \in DOMAIN search.depth /\ search.depth[cur] \in Nat
      /\ rest \in Searches /\ rest.depth = search.depth /\ rest.via = search.via
      /\ rest.queue # <<>> => Level(rest, rest.depth[rest.queue[1]])
      /\ Amid(rest, cur, search.depth[cur], K)
  BY <1>1, Taken
<1>3. \/ search.depth[cur] >= query.depth /\ search' = rest
      \/ search.depth[cur] < query.depth /\ \E o \in NewestFirst(Adjacent(cur)) : search' = Expanded(rest, o, cur)
  <2>1. IF search.depth[cur] >= query.depth THEN search' = rest
        ELSE \E o \in NewestFirst(Adjacent(cur)) : search' = Expanded(rest, o, cur)
    BY Zenon DEF Dequeue
  <2>2. query.depth \in Nat /\ search.depth[cur] \in Nat
    BY <1>1, <1>2 DEF StageInv
  <2> HIDE DEF cur, rest
  <2> QED BY <2>1, <2>2
<1>4. K \in SUBSET DOMAIN rows /\ query.depth \in Nat
  BY <1>1 DEF EdgesInv, StageInv
<1> HIDE DEF cur, rest
<1>5. CASE search.depth[cur] >= query.depth /\ search' = rest
  <2>1. Done(rest, cur, K, rows, query)
    BY <1>2, <1>4, <1>5 DEF Done
  <2>2. /\ rest \in Searches /\ Tree(rest, K, rows, query) /\ InOrder(rest)
        /\ rest.queue # <<>> => Level(rest, rest.depth[rest.queue[1]])
        /\ \A v \in DOMAIN rest.depth : Queued(rest, v) \/ Done(rest, v, K, rows, query)
    BY <1>2, <2>1 DEF Amid
  <2> QED BY <1>1, <1>5, <2>2 DEF SearchInv, Searches
<1>6. ASSUME search.depth[cur] < query.depth, NEW o \in NewestFirst(Adjacent(cur)), search' = Expanded(rest, o, cur)
      PROVE  SearchInv'
  <2> DEFINE r == Expanded(rest, o, cur)
             A == Adjacent(cur)
  <2>1. A \subseteq K /\ \A e \in K : e \in A <=> cur \in Ends(rows[e])
    BY DEF Adjacent
  <2>2. IsFiniteSet(A) /\ Cardinality(A) \in Nat
    <3>1. IsFiniteSet(DOMAIN rows)
      BY FS_Interval DEF RowsInv
    <3>2. A \subseteq DOMAIN rows
      BY <1>4, <2>1
    <3> QED BY <3>1, <3>2, FS_Subset, FS_CardinalityType
  <2>3. o \in [1 .. Cardinality(A) -> A] /\ \A e \in A : \E k \in 1 .. Cardinality(A) : o[k] = e
    BY <1>6 DEF NewestFirst, Bijection, Injection, Surjection
  <2> HIDE DEF A
  <2>4. o \in Seq(K) /\ DOMAIN o = 1 .. Cardinality(A)
    BY <2>1, <2>2, <2>3
  <2>5. /\ \A k \in DOMAIN o : cur \in Ends(rows[o[k]])
        /\ \A e \in K : cur \in Ends(rows[e]) => \E k \in DOMAIN o : o[k] = e
    BY <2>1, <2>3, <2>4
  <2>6. r \in Searches /\ Amid(r, cur, search.depth[cur], K) /\ Done(r, cur, K, rows, query)
    BY <1>2, <1>4, <1>6, <2>4, <2>5, ExpandedKeeps
  <2> HIDE DEF r
  <2>7. ASSUME r.queue # <<>> PROVE Level(r, r.depth[r.queue[1]])
    <3>1. /\ Len(r.queue) \in Nat /\ DOMAIN r.queue = 1 .. Len(r.queue) /\ 1 \in DOMAIN r.queue
          /\ \A v \in DOMAIN r.depth : r.depth[v] \in Nat
      BY <2>6, <2>7 DEF Searches
    <3>2. r.queue[1] \in DOMAIN r.depth
      BY <2>6, <3>1 DEF Amid, Tree
    <3>3. search.depth[cur] <= r.depth[r.queue[1]]
      BY <2>6, <3>1 DEF Amid, Level
    <3>4. ASSUME NEW v \in DOMAIN r.depth PROVE r.depth[v] <= r.depth[r.queue[1]] + 1
      <4>1. r.depth[v] <= search.depth[cur] + 1
        BY <2>6 DEF Amid, Level
      <4> QED BY SMTT(60), <1>2, <3>1, <3>2, <3>3, <4>1
    <3>5. ASSUME NEW i \in DOMAIN r.queue PROVE r.depth[r.queue[1]] <= r.depth[r.queue[i]]
      <4>1. CASE i = 1
        BY <3>1, <3>2, <4>1
      <4>2. CASE i # 1
        BY <2>6, <3>1, <4>2 DEF Amid, InOrder
      <4> QED BY <4>1, <4>2
    <3> QED BY <3>4, <3>5 DEF Level
  <2>8. /\ r \in Searches /\ Tree(r, K, rows, query) /\ InOrder(r)
        /\ \A v \in DOMAIN r.depth : Queued(r, v) \/ Done(r, v, K, rows, query)
    BY <2>6 DEF Amid
  <2>9. search' = r
    BY <1>6 DEF r
  <2> QED BY <1>1, <2>7, <2>8, <2>9 DEF SearchInv, Searches
<1> QED BY <1>3, <1>5, <1>6

LEMMA SearchStep == RowsInv /\ StageInv /\ EdgesInv /\ SearchInv /\ [QueriesNext]_queryVars => SearchInv'
<1> SUFFICES ASSUME RowsInv, StageInv, EdgesInv, SearchInv, [QueriesNext]_queryVars PROVE SearchInv'
  OBVIOUS
<1>1. CASE UNCHANGED <<query, known, search>>
  <2> SUFFICES ASSUME query.at = "search" PROVE SearchInv'
    BY <1>1 DEF SearchInv
  <2>1. Lasting(rows, rows') /\ known.edges \in SUBSET DOMAIN rows
    BY RowsGrow DEF EdgesInv
  <2>2. /\ Tree(search, known.edges, rows', query)
        /\ \A v \in DOMAIN search.depth : Queued(search, v) \/ Done(search, v, known.edges, rows', query)
    BY <2>1, SearchLasts DEF SearchInv
  <2> QED BY <1>1, <2>2 DEF SearchInv, Searches
<1>2. CASE Ask
  BY <1>2 DEF Ask, SearchInv
<1>3. CASE WalkNodes
  BY <1>3 DEF WalkNodes, SearchInv, StageInv
<1>4. CASE EdgesBetween
  <2> SUFFICES ASSUME query'.at = "search" PROVE SearchInv'
    BY DEF SearchInv
  <2> DEFINE s == [queue |-> <<query.src>>, depth |-> [n \in {query.src} |-> 0], via |-> <<>>]
             K == known'.edges
  <2>1. query.at = "edges" /\ query.op = "path" /\ search' = s /\ query' = [query EXCEPT !.at = "search"] /\ rows' = rows
    BY <1>4 DEF EdgesBetween, Answered, StageInv
  <2>2. query'.src = query.src /\ query'.depth = query.depth /\ query.depth \in Nat
    BY <2>1 DEF StageInv
  <2>3. /\ DOMAIN s.depth = {query.src} /\ s.depth[query.src] = 0 /\ s.queue = <<query.src>> /\ s.via = <<>>
        /\ s.queue[1] = query.src /\ DOMAIN s.queue = {1}
    OBVIOUS
  <2>4. s \in Searches
    <3> DEFINE N == Nodes \cup {query.src}
    <3>1. <<query.src>> \in Seq(N)
      OBVIOUS
    <3>2. [n \in {query.src} |-> 0] \in [{query.src} -> Nat] /\ {query.src} \in SUBSET N
      OBVIOUS
    <3>3. <<>> \in [{} -> [edge : Nat, node : N]] /\ {} \in SUBSET N
      OBVIOUS
    <3> HIDE DEF N
    <3> QED BY <3>1, <3>2, <3>3 DEF Searches, N
  <2> HIDE DEF s
  <2>5. Tree(s, K, rows, query')
    BY <2>2, <2>3 DEF Tree
  <2>6. InOrder(s) /\ Level(s, s.depth[s.queue[1]])
    BY <2>3 DEF InOrder, Level
  <2>7. \A v \in DOMAIN s.depth : Queued(s, v)
    BY <2>3 DEF Queued
  <2> QED BY <2>1, <2>2, <2>4, <2>5, <2>6, <2>7 DEF SearchInv, Searches
<1>5. CASE Dequeue
  BY <1>5, DequeueKeeps
<1>6. CASE Trail
  BY <1>6 DEF Trail, Answered, SearchInv, StageInv
<1>7. CASE ProfileCounts
  BY <1>7 DEF ProfileCounts, Answered, SearchInv, StageInv
<1>8. CASE ProfileNeighbors
  BY <1>8 DEF ProfileNeighbors, SearchInv, StageInv
<1> QED BY <1>1, <1>2, <1>3, <1>4, <1>5, <1>6, <1>7, <1>8 DEF QueriesNext, Write, queryVars

-----------------------------------------------------------------------------
\* When nothing less deep than n is queued, all within n steps is marked, and no deeper than it is far.
LEMMA NearIsMarked ==
  ASSUME RowsInv, StageInv, NodesInv, EdgesInv, SearchInv, query.at = "search",
         query.src \in Entities(before), NEW n \in 0 .. query.depth,
         \A v \in DOMAIN search.depth : Queued(search, v) => n <= search.depth[v]
  PROVE  \A d \in 0 .. n : \A w \in Walks(before, query.src, d) :
            w[d + 1] \in DOMAIN search.depth /\ search.depth[w[d + 1]] <= d
<1>1. query.depth \in Nat /\ query.start = 0 /\ query.op = "path"
  BY DEF StageInv
<1>2. /\ \A v \in DOMAIN search.depth : search.depth[v] \in Nat
      /\ query.src \in DOMAIN search.depth /\ search.depth[query.src] = 0
      /\ \A v \in DOMAIN search.depth : Queued(search, v) \/ Done(search, v, known.edges, rows, query)
  BY DEF SearchInv, Searches, Tree
<1> SUFFICES ASSUME NEW d \in 0 .. n, NEW w \in Walks(before, query.src, d)
             PROVE  w[d + 1] \in DOMAIN search.depth /\ search.depth[w[d + 1]] <= d
  OBVIOUS
<1>3. d \in 0 .. query.depth /\ d \in Nat
  BY <1>1
<1>4. \A k \in 1 .. d + 1 : w[k] \in known.nodes
  BY <1>1, <1>3 DEF NodesInv, Covers
<1> DEFINE T == {k \in Nat : k <= d => w[k + 1] \in DOMAIN search.depth /\ search.depth[w[k + 1]] <= k}
<1>5. 0 \in T
  BY <1>2 DEF Walks
<1>6. ASSUME NEW k \in Nat, k \in T PROVE k + 1 \in T
  <2> SUFFICES ASSUME k + 1 <= d PROVE w[k + 2] \in DOMAIN search.depth /\ search.depth[w[k + 2]] <= k + 1
    OBVIOUS
  <2>1. w[k + 1] \in DOMAIN search.depth /\ search.depth[w[k + 1]] <= k /\ search.depth[w[k + 1]] \in Nat
    BY <1>2, <1>3, <1>6
  <2>2. Step(before, w[k + 1], w[k + 2]) /\ w[k + 1] \in known.nodes /\ w[k + 2] \in known.nodes
    BY <1>3, <1>4 DEF Walks
  <2>3. CASE w[k + 2] = w[k + 1]
    BY <2>1, <2>3
  <2>4. ASSUME NEW j \in DOMAIN before, Ends(before[j]) = {w[k + 1], w[k + 2]}
        PROVE  w[k + 2] \in DOMAIN search.depth /\ search.depth[w[k + 2]] <= k + 1
    <3>1. j \in known.edges /\ Ends(rows[j]) = {w[k + 1], w[k + 2]}
      BY <2>2, <2>4 DEF EdgesInv, RowsInv
    <3>2. search.depth[w[k + 1]] < n /\ search.depth[w[k + 1]] < query.depth
      BY <1>1, <1>3, <2>1
    <3>3. Done(search, w[k + 1], known.edges, rows, query)
      BY <1>2, <2>1, <3>2
    <3>4. w[k + 2] \in DOMAIN search.depth /\ search.depth[w[k + 2]] <= search.depth[w[k + 1]] + 1
      BY <3>1, <3>2, <3>3 DEF Done, Marked
    <3> QED BY <1>2, <2>1, <3>4
  <2> QED BY <2>2, <2>3, <2>4 DEF Step
<1> HIDE DEF T
<1>7. d \in T
  BY <1>3, <1>5, <1>6, SetInduction
<1> QED BY <1>3, <1>7 DEF T

\* The way back by the parents.
Hop(b, n, i) == LET e == rows[search.via[b[search.depth[n] - i]].edge]
                IN  [src |-> b[(search.depth[n] - i) + 1], dst |-> b[search.depth[n] - i], kind |-> e.kind, from |-> e.from]
Back(b, n) == /\ b[0] = n
              /\ \A d \in 0 .. search.depth[n] : b[d] \in DOMAIN search.depth /\ search.depth[b[d]] = search.depth[n] - d
              /\ \A d \in 1 .. search.depth[n] : b[d] = search.via[b[d - 1]].node
              /\ Trace(n) = [i \in 1 .. search.depth[n] |-> Hop(b, n, i)]

LEMMA TraceIs ==
  ASSUME SearchInv, query.at = "search", NEW n \in DOMAIN search.depth
  PROVE  \E b : Back(b, n)
<1> DEFINE V == DOMAIN search.depth
           m == search.depth[n]
           G == [p \in V \X (1 .. m) |-> IF p[1] = query.src THEN query.src ELSE search.via[p[1]].node]
           Eq(b) == [d \in 0 .. m |-> IF d = 0 THEN n ELSE search.via[b[d - 1]].node]
           some == CHOOSE b : b = Eq(b)
<1>1. /\ query.src \in V /\ search.depth[query.src] = 0 /\ \A v \in V : search.depth[v] \in Nat
      /\ \A v \in V : v # query.src => search.via[v].node \in V /\ search.depth[v] = search.depth[search.via[v].node] + 1
  BY DEF SearchInv, Searches, Tree
<1>2. Trace(n) = [i \in 1 .. m |-> LET e == rows[search.via[some[m - i]].edge]
                                   IN  [src |-> some[(m - i) + 1], dst |-> some[m - i], kind |-> e.kind, from |-> e.from]]
  BY DEF Trace
<1> HIDE DEF V
<1>3. m \in Nat
  BY <1>1 DEF V
<1>4. G \in [V \X (1 .. m) -> V]
  BY <1>1
<1>5. \A v \in V, d \in 1 .. m : G[<<v, d>>] = IF v = query.src THEN query.src ELSE search.via[v].node
  OBVIOUS
<1> HIDE DEF G, m
<1>6. n \in V
  BY DEF V
<1>7. PICK f \in [0 .. m -> V] : Goes(f, m, n, G)
  BY <1>3, <1>4, <1>6, GoingOn
<1>8. f[0] = n /\ \A d \in 1 .. m : f[d - 1] \in V /\ f[d] \in V /\ f[d] = IF f[d - 1] = query.src THEN query.src ELSE search.via[f[d - 1]].node
  <2>1. f[0] = n /\ \A d \in 1 .. m : f[d] = G[<<f[d - 1], d>>]
    BY <1>7 DEF Goes
  <2>2. \A d \in 1 .. m : f[d - 1] \in V /\ f[d] \in V
    BY <1>3
  <2> QED BY <1>5, <2>1, <2>2
<1> DEFINE T == {d \in Nat : d <= m => f[d] \in V /\ search.depth[f[d]] = m - d}
<1>9. 0 \in T
  BY <1>3, <1>6, <1>8 DEF m
<1>10. ASSUME NEW d \in Nat, d \in T PROVE d + 1 \in T
  <2> SUFFICES ASSUME d + 1 <= m PROVE f[d + 1] \in V /\ search.depth[f[d + 1]] = m - (d + 1)
    OBVIOUS
  <2>1. f[d] \in V /\ search.depth[f[d]] = m - d
    BY <1>3, <1>10
  <2>2. f[d] # query.src
    BY <1>1, <1>3, <2>1
  <2>3. f[d + 1] = search.via[f[d]].node
    BY <1>3, <1>8, <2>2
  <2>4. search.via[f[d]].node \in V /\ search.depth[f[d]] = search.depth[search.via[f[d]].node] + 1
    BY <1>1, <2>1, <2>2
  <2> DEFINE x == search.depth[f[d + 1]]
  <2>5. f[d + 1] \in V /\ x \in Nat
    BY <1>1, <2>3, <2>4
  <2>6. m - d = x + 1
    BY <2>1, <2>3, <2>4
  <2> HIDE DEF x
  <2>7. x = m - (d + 1)
    BY ONLY <1>3, <2>5, <2>6, d \in Nat
  <2> QED BY <2>5, <2>7 DEF x
<1> HIDE DEF T
<1>11. Nat \subseteq T
  BY <1>9, <1>10, SetInduction
<1>12. \A d \in 0 .. m : f[d] \in V /\ search.depth[f[d]] = m - d
  BY <1>3, <1>11 DEF T
<1>13. \A d \in 1 .. m : f[d] = search.via[f[d - 1]].node
  <2> TAKE d \in 1 .. m
  <2>1. d - 1 \in 0 .. m /\ search.depth[f[d - 1]] = m - (d - 1)
    BY <1>3, <1>12
  <2>2. f[d - 1] # query.src
    BY <1>1, <1>3, <2>1
  <2> QED BY <1>8, <2>2
<1>14. f = Eq(f)
  <2>1. \A d \in 0 .. m : f[d] = IF d = 0 THEN n ELSE search.via[f[d - 1]].node
    BY <1>3, <1>8, <1>13
  <2> QED BY <2>1
<1>15. some = Eq(some)
  <2> HIDE DEF Eq
  <2> QED BY <1>14
<1> HIDE DEF some
<1>16. \A d \in 0 .. m : some[d] = IF d = 0 THEN n ELSE search.via[some[d - 1]].node
  BY <1>15
<1> DEFINE Q == {d \in Nat : d <= m => some[d] = f[d]}
<1>17. 0 \in Q
  BY <1>3, <1>8, <1>16
<1>18. ASSUME NEW d \in Nat, d \in Q PROVE d + 1 \in Q
  BY <1>3, <1>13, <1>16, <1>18
<1> HIDE DEF Q
<1>19. Nat \subseteq Q
  BY <1>17, <1>18, SetInduction
<1>20. \A d \in 0 .. m : some[d] = f[d]
  BY SMTT(60), <1>3, <1>19 DEF Q
<1>21. Trace(n) = [i \in 1 .. m |-> Hop(some, n, i)]
  BY <1>2 DEF Hop, m
<1>22. Back(some, n)
  <2>1. some[0] = n /\ \A d \in 1 .. m : some[d] = search.via[some[d - 1]].node
    BY SMTT(60), <1>3, <1>16
  <2>2. \A d \in 0 .. m : some[d] \in V /\ search.depth[some[d]] = m - d
    BY <1>12, <1>20
  <2> QED BY <1>21, <2>1, <2>2 DEF Back, V, m
<1> QED BY <1>22

\* What PathIsShortest says of an answer.
NearIn(b, q, d) == q.src \in Entities(b) /\ q.dst \in Within(b, q.src, d)
Leads(path, t, q) ==
    /\ Len(path) <= q.depth
    /\ path = <<>> <=> q.src = q.dst
    /\ path # <<>> => path[1].src = q.src /\ Last(path).dst = q.dst
    /\ \A i \in 1 .. Len(path) - 1 : path[i].dst = path[i + 1].src
    /\ \A i \in DOMAIN path : \E j \in DOMAIN t :
          Ends(t[j]) = Ends(path[i]) /\ t[j].kind = path[i].kind /\ t[j].from = path[i].from
Right(t, b, q, a) == IF a.found THEN Leads(a.path, t, q) /\ \A d \in 0 .. q.depth : NearIn(b, q, d) => Len(a.path) <= d
                     ELSE ~NearIn(b, q, q.depth)

LEMMA PathIs == PathIsShortest <=> (query.at = "idle" /\ query.op = "path" /\ answer.ok => Right(rows, before, query, answer))
  BY DEF PathIsShortest, Right, Leads, NearIn

LEMMA PathIsNext == PathIsShortest' <=> (query'.at = "idle" /\ query'.op = "path" /\ answer'.ok => Right(rows', before', query', answer'))
  BY DEF PathIsShortest, Right, Leads, NearIn

\* The trail leads from src to dst along edges of the table.
LEMMA TrailLeads ==
  ASSUME RowsInv, StageInv, EdgesInv, SearchInv, query.at = "search", query.dst \in DOMAIN search.depth
  PROVE  Leads(Trace(query.dst), rows, query) /\ Len(Trace(query.dst)) = search.depth[query.dst]
<1> DEFINE m == search.depth[query.dst]
           path == Trace(query.dst)
<1>1. /\ query.src \in DOMAIN search.depth /\ search.depth[query.src] = 0 /\ \A v \in DOMAIN search.depth : search.depth[v] \in Nat
      /\ \A v \in DOMAIN search.depth : v # query.src =>
            /\ search.via[v].edge \in known.edges /\ Ends(rows[search.via[v].edge]) = {v, search.via[v].node}
            /\ search.depth[v] = search.depth[search.via[v].node] + 1 /\ search.via[v].node \in DOMAIN search.depth
      /\ m <= query.depth
  <2>1. Tree(search, known.edges, rows, query) /\ \A v \in DOMAIN search.depth : search.depth[v] \in Nat
    BY DEF SearchInv, Searches
  <2> QED BY <2>1 DEF Tree
<1>2. PICK b : Back(b, query.dst)
  BY TraceIs
<1>3. /\ b[0] = query.dst /\ \A d \in 0 .. m : b[d] \in DOMAIN search.depth /\ search.depth[b[d]] = m - d
      /\ \A d \in 1 .. m : b[d] = search.via[b[d - 1]].node
      /\ path = [i \in 1 .. m |-> Hop(b, query.dst, i)]
  BY <1>2 DEF Back
<1>4. m \in Nat
  BY <1>1
<1>5. ASSUME NEW v \in DOMAIN search.depth, search.depth[v] = 0 PROVE v = query.src
  <2> SUFFICES ASSUME v # query.src PROVE FALSE
    OBVIOUS
  <2> DEFINE w == search.depth[search.via[v].node]
  <2>1. search.depth[v] = w + 1 /\ w \in Nat
    BY <1>1
  <2> HIDE DEF w
  <2>2. w + 1 = 0
    BY ONLY <1>5, <2>1
  <2> QED BY ONLY <2>1, <2>2
<1>6. ASSUME NEW i \in 1 .. m
      PROVE  /\ path[i].src = b[(m - i) + 1] /\ path[i].dst = b[m - i]
             /\ path[i].kind = rows[search.via[b[m - i]].edge].kind /\ path[i].from = rows[search.via[b[m - i]].edge].from
  <2>1. path[i] = Hop(b, query.dst, i)
    BY <1>3
  <2>2. path[i] = [src |-> b[(m - i) + 1], dst |-> b[m - i],
                   kind |-> rows[search.via[b[m - i]].edge].kind, from |-> rows[search.via[b[m - i]].edge].from]
    BY ONLY Zenon, <2>1 DEF Hop
  <2> HIDE DEF path, m
  <2> QED BY ONLY <2>2
<1> HIDE DEF m, path
<1>7. DOMAIN path = 1 .. m /\ Len(path) = m /\ path \in Seq({path[i] : i \in 1 .. m})
  <2>1. path = [i \in 1 .. m |-> Hop(b, query.dst, i)]
    BY ONLY <1>3 DEF path, m
  <2>2. DOMAIN path = 1 .. m /\ path \in [1 .. m -> {path[i] : i \in 1 .. m}]
    BY ONLY <2>1
  <2>3. path \in Seq({path[i] : i \in 1 .. m})
    BY ONLY <1>4, <2>2, SeqDef
  <2> QED BY ONLY <1>4, <2>2, <2>3
<1>8. path = <<>> <=> m = 0
  BY <1>4, <1>7
<1>9. m = 0 <=> query.src = query.dst
  BY <1>1, <1>5 DEF m
<1>10. path # <<>> => path[1].src = query.src /\ Last(path).dst = query.dst
  <2> SUFFICES ASSUME path # <<>> PROVE path[1].src = query.src /\ path[m].dst = query.dst
    BY <1>7 DEF Last
  <2>1. m \in Nat \ {0}
    BY <1>4, <1>8
  <2>2. path[1].src = b[m]
    <3>1. (m - 1) + 1 = m /\ 1 \in 1 .. m
      BY <2>1
    <3> QED BY <1>6, <3>1
  <2>3. b[m] = query.src
    <3>1. b[m] \in DOMAIN search.depth /\ search.depth[b[m]] = 0
      BY <1>3, <2>1
    <3> QED BY <1>5, <3>1
  <2>4. path[m].dst = query.dst
    <3>1. m - m = 0 /\ m \in 1 .. m
      BY <2>1
    <3> QED BY <1>3, <1>6, <3>1
  <2> QED BY <2>2, <2>3, <2>4
<1>11. ASSUME NEW i \in 1 .. m - 1 PROVE path[i].dst = path[i + 1].src
  <2>1. i \in 1 .. m /\ i + 1 \in 1 .. m /\ (m - (i + 1)) + 1 = m - i
    BY <1>4
  <2> QED BY <1>6, <2>1
<1>12. ASSUME NEW i \in 1 .. m
       PROVE  \E j \in DOMAIN rows : Ends(rows[j]) = Ends(path[i]) /\ rows[j].kind = path[i].kind /\ rows[j].from = path[i].from
  <2> DEFINE d == m - i
             v == b[d]
             j == search.via[v].edge
  <2>1. d \in 0 .. m /\ d + 1 \in 1 .. m /\ (d + 1) - 1 = d /\ m - d # 0
    BY <1>4
  <2>2. v \in DOMAIN search.depth /\ search.depth[v] # 0 /\ b[d + 1] = search.via[v].node
    BY <1>3, <2>1
  <2>3. v # query.src
    BY <1>1, <2>2
  <2>4. j \in known.edges /\ Ends(rows[j]) = {v, b[d + 1]}
    BY <1>1, <2>2, <2>3
  <2>5. path[i].src = b[d + 1] /\ path[i].dst = v /\ path[i].kind = rows[j].kind /\ path[i].from = rows[j].from
    BY <1>6
  <2>6. Ends(path[i]) = {b[d + 1], v}
    BY <2>5 DEF Ends
  <2>7. j \in DOMAIN rows
    BY <2>4 DEF EdgesInv
  <2> HIDE DEF d, v, j
  <2>8. Ends(rows[j]) = Ends(path[i])
    BY <2>4, <2>6
  <2> QED BY <2>5, <2>7, <2>8
<1> QED BY <1>1, <1>7, <1>8, <1>9, <1>10, <1>11, <1>12 DEF Leads, m, path

LEMMA TrailIsRight ==
  ASSUME RowsInv, StageInv, NodesInv, EdgesInv, SearchInv, PathIsShortest, Trail
  PROVE  PathIsShortest'
<1>1. /\ query.at = "search" /\ UNCHANGED <<rows, before>> /\ query.depth \in Nat /\ query.start = 0
      /\ query' = [query EXCEPT !.at = "idle"]
      /\ search.queue # <<>> => Head(search.queue) = query.dst
  BY DEF Trail, Answered, StageInv
<1>2. query'.src = query.src /\ query'.dst = query.dst /\ query'.depth = query.depth /\ query'.op = query.op
  BY <1>1 DEF StageInv
<1>3. ASSUME NEW n \in 0 .. query.depth, NEW d \in 0 .. n, NearIn(before, query, d),
             \A v \in DOMAIN search.depth : Queued(search, v) => n <= search.depth[v]
      PROVE  query.dst \in DOMAIN search.depth /\ search.depth[query.dst] <= d
  <2>1. query.src \in Entities(before) /\ \E w \in Walks(before, query.src, d) : w[d + 1] = query.dst
    BY <1>3, WithinIs DEF NearIn
  <2>2. \A w \in Walks(before, query.src, d) : w[d + 1] \in DOMAIN search.depth /\ search.depth[w[d + 1]] <= d
    BY <1>1, <1>3, <2>1, NearIsMarked
  <2> QED BY <2>1, <2>2
<1>4. CASE query.dst \in DOMAIN search.depth
  <2>1. answer' = [answer EXCEPT !.ok = TRUE, !.found = TRUE, !.path = Trace(query.dst)]
    BY <1>4 DEF Trail, Answered
  <2>2. answer'.found = TRUE /\ answer'.path = Trace(query.dst)
    BY <2>1 DEF StageInv
  <2>3. Leads(Trace(query.dst), rows, query) /\ Len(Trace(query.dst)) = search.depth[query.dst]
    BY <1>1, <1>4, TrailLeads
  <2>4. /\ \A v \in DOMAIN search.depth : search.depth[v] \in Nat /\ search.depth[v] <= query.depth
        /\ search.queue \in Seq(Nodes \cup {query.src}) /\ \A i \in DOMAIN search.queue : search.queue[i] \in DOMAIN search.depth
    BY <1>1 DEF SearchInv, Searches, Tree
  <2>5. ASSUME NEW d \in 0 .. query.depth, NearIn(before, query, d) PROVE search.depth[query.dst] <= d
    <3> SUFFICES ASSUME d < search.depth[query.dst] PROVE FALSE
      BY <1>4, <2>4
    <3> DEFINE n == search.depth[query.dst]
    <3>1. n \in 0 .. query.depth /\ d \in 0 .. n
      BY <1>1, <1>4, <2>4
    <3>2. CASE search.queue = <<>>
      <4>1. \A v : ~Queued(search, v)
        BY <3>2 DEF Queued
      <4> QED BY <1>3, <2>5, <3>1, <4>1
    <3>3. CASE search.queue # <<>>
      <4>1. search.queue[1] = query.dst
        BY <1>1, <2>4, <3>3
      <4>2. Level(search, n)
        BY <1>1, <3>3, <4>1 DEF SearchInv
      <4>3. \A v \in DOMAIN search.depth : Queued(search, v) => n <= search.depth[v]
        BY <4>2 DEF Queued, Level
      <4> HIDE DEF n
      <4>4. search.depth[query.dst] <= d
        BY <1>3, <2>5, <3>1, <4>3
      <4> QED BY <1>4, <2>4, <4>4
    <3> QED BY <3>2, <3>3
  <2>6. Leads(Trace(query.dst), rows', query')
    BY <1>1, <1>2, <2>3 DEF Leads
  <2>7. \A d \in 0 .. query'.depth : NearIn(before', query', d) => Len(Trace(query.dst)) <= d
    BY <1>1, <1>2, <2>3, <2>5 DEF NearIn
  <2>8. Right(rows', before', query', answer')
    BY <2>2, <2>6, <2>7 DEF Right
  <2> QED BY <2>8, PathIsNext
<1>5. CASE query.dst \notin DOMAIN search.depth
  <2>1. answer' = [answer EXCEPT !.ok = TRUE, !.found = FALSE, !.path = <<>>]
    BY <1>5 DEF Trail, Answered
  <2>2. answer'.found = FALSE
    BY <2>1 DEF StageInv
  <2>3. search.queue = <<>>
    <3> SUFFICES ASSUME search.queue # <<>> PROVE FALSE
      OBVIOUS
    <3>1. /\ search.queue \in Seq(Nodes \cup {query.src}) /\ \A i \in DOMAIN search.queue : search.queue[i] \in DOMAIN search.depth
      BY <1>1 DEF SearchInv, Searches, Tree
    <3>2. 1 \in DOMAIN search.queue /\ search.queue[1] = query.dst
      BY <1>1, <3>1
    <3> QED BY <1>5, <3>1, <3>2
  <2>4. \A v : ~Queued(search, v)
    BY <2>3 DEF Queued
  <2>5. query.depth \in 0 .. query.depth
    BY <1>1
  <2>6. ~NearIn(before, query, query.depth)
    BY <1>3, <1>5, <2>4, <2>5
  <2>7. ~NearIn(before', query', query'.depth)
    BY <1>1, <1>2, <2>6 DEF NearIn
  <2> QED BY <2>2, <2>7, PathIsNext DEF Right
<1> QED BY <1>4, <1>5

LEMMA PathStep ==
  ASSUME RowsInv, StageInv, NodesInv, EdgesInv, SearchInv, PathIsShortest, [QueriesNext]_queryVars
  PROVE  PathIsShortest'
<1>1. CASE UNCHANGED <<query, answer, before>>
  <2> SUFFICES ASSUME Right(rows, before, query, answer) PROVE Right(rows', before, query, answer)
    BY <1>1, PathIs, PathIsNext
  <2>1. Lasting(rows, rows')
    BY RowsGrow
  <2>2. Leads(answer.path, rows, query) => Leads(answer.path, rows', query)
    <3> SUFFICES ASSUME Leads(answer.path, rows, query) PROVE Leads(answer.path, rows', query)
      OBVIOUS
    <3>1. \A i \in DOMAIN answer.path : \E j \in DOMAIN rows' :
             Ends(rows'[j]) = Ends(answer.path[i]) /\ rows'[j].kind = answer.path[i].kind /\ rows'[j].from = answer.path[i].from
      BY <2>1 DEF Leads, Lasting
    <3> QED BY <3>1 DEF Leads
  <2> QED BY <2>2 DEF Right
<1>2. CASE Ask
  BY <1>2, PathIsNext DEF Ask
<1>3. CASE WalkNodes
  BY <1>3, PathIsNext DEF WalkNodes, StageInv
<1>4. CASE EdgesBetween
  <2> SUFFICES ASSUME query'.at = "idle", query'.op = "path", answer'.ok PROVE Right(rows', before', query', answer')
    BY PathIsNext
  <2>1. /\ query.at = "edges" /\ UNCHANGED <<rows, before>> /\ query' = [query EXCEPT !.at = "idle"]
        /\ ~(known.nodes # {} /\ query.start # 0)
    BY <1>4 DEF EdgesBetween, Answered, StageInv
  <2>2. query'.src = query.src /\ query'.dst = query.dst /\ query'.depth = query.depth /\ query'.op = query.op
    BY <2>1 DEF StageInv
  <2>3. known.nodes = {} /\ answer' = [answer EXCEPT !.ok = TRUE, !.found = FALSE, !.path = <<>>]
    BY <1>4, <2>1, <2>2 DEF EdgesBetween, Answered, StageInv
  <2>4. answer'.found = FALSE
    BY <2>3 DEF StageInv
  <2>5. query.src \notin Entities(before)
    BY <2>1, <2>2, <2>3 DEF NodesInv, Covers
  <2>6. ~NearIn(before', query', query'.depth)
    BY <2>1, <2>2, <2>5 DEF NearIn
  <2> QED BY <2>4, <2>6 DEF Right
<1>5. CASE Trail
  BY <1>5, TrailIsRight
<1>6. CASE ProfileCounts
  BY <1>6, PathIsNext DEF ProfileCounts, Answered, StageInv
<1>7. CASE ProfileNeighbors
  BY <1>7, PathIsNext DEF ProfileNeighbors, StageInv
<1> QED BY <1>1, <1>2, <1>3, <1>4, <1>5, <1>6, <1>7 DEF QueriesNext, Write, Dequeue, queryVars

LEMMA QueriesStart == QueriesInit => RowsInv /\ StageInv /\ NodesInv /\ EdgesInv /\ SearchInv /\ PathIsShortest
<1> SUFFICES ASSUME QueriesInit PROVE RowsInv /\ StageInv /\ NodesInv /\ EdgesInv /\ SearchInv /\ PathIsShortest
  OBVIOUS
<1>1. rows = <<>> /\ before = <<>> /\ query = NoQuery /\ answer = NoAnswer /\ known = [nodes |-> {}, edges |-> {}]
  BY DEF QueriesInit
<1>2. RowsInv
  BY <1>1 DEF RowsInv
<1>3. StageInv /\ NodesInv /\ EdgesInv /\ SearchInv
  BY <1>1 DEF StageInv, NodesInv, EdgesInv, SearchInv, NoQuery, NoAnswer
<1> QED BY <1>1, <1>2, <1>3 DEF PathIsShortest, NoQuery

\* For every table, every order of adjacent edges and whatever is written between the statements of a
\* query: what Path answers leads from src to dst by edges of the table, in
\* no more steps than they were apart, and it answers nothing only if
\* they were further apart than asked.
THEOREM PathsAreShortest == QueriesSpec => []PathIsShortest
<1>1. RowsInv /\ StageInv /\ NodesInv /\ EdgesInv /\ SearchInv /\ PathIsShortest /\ [QueriesNext]_queryVars
        => (RowsInv /\ StageInv /\ NodesInv /\ EdgesInv /\ SearchInv /\ PathIsShortest)'
  BY RowsStep, StageStep, NodesStep, EdgesStep, SearchStep, PathStep
<1> QED BY <1>1, QueriesStart, PTL DEF QueriesSpec

-----------------------------------------------------------------------------
(* Digests                                                                   *)

\* A sum is what adds one element at a time, whichever CHOOSE takes first.
SumStep(f, S, h) == [s \in SUBSET S |-> IF s = {} THEN 0 ELSE LET x == CHOOSE x \in s : TRUE IN f[x] + h[s \ {x}]]
Sums(f, S, h)    == h = SumStep(f, S, h)

LEMMA SumIs == ASSUME NEW f, NEW S PROVE Total(f, S) = (CHOOSE h : Sums(f, S, h))[S]
  BY DEF Total, MapThenSumSet, MapThenFoldSet, Sums, SumStep

One(s) == CHOOSE x \in s : TRUE

StepAt(f, h, s, r) == /\ s = {} => r = 0
                      /\ s # {} => One(s) \in s /\ r = f[One(s)] + h[s \ {One(s)}]

LEMMA SumStepIs == ASSUME NEW f, NEW S, NEW h, NEW g, g = SumStep(f, S, h), NEW s \in SUBSET S PROVE StepAt(f, h, s, g[s])
<1>1. g[s] = IF s = {} THEN 0 ELSE f[One(s)] + h[s \ {One(s)}]
  BY DEF SumStep, One
<1>2. s # {} => One(s) \in s
  BY DEF One
<1> QED BY <1>1, <1>2 DEF StepAt

LEMMA SumExists ==
  ASSUME NEW f, NEW S, IsFiniteSet(S), \A x \in S : f[x] \in Nat
  PROVE  \E h \in [SUBSET S -> Nat] : Sums(f, S, h)
<1> DEFINE X == [SUBSET S -> Nat]
           N == Cardinality(S)
           G == [p \in X \X (1 .. N + 1) |-> SumStep(f, S, p[1])]
           zero == [s \in SUBSET S |-> 0]
<1>1. N \in Nat /\ N + 1 \in Nat
  BY FS_CardinalityType
<1>2. ASSUME NEW h \in X PROVE SumStep(f, S, h) \in X
  <2>1. ASSUME NEW s \in SUBSET S PROVE (IF s = {} THEN 0 ELSE LET x == CHOOSE x \in s : TRUE IN f[x] + h[s \ {x}]) \in Nat
    <3>1. CASE s # {}
      <4> DEFINE x == CHOOSE y \in s : TRUE
      <4>1. x \in s
        BY <3>1
      <4>2. f[x] \in Nat /\ h[s \ {x}] \in Nat
        BY <4>1
      <4> HIDE DEF x
      <4>3. f[x] + h[s \ {x}] \in Nat
        BY <4>2
      <4> QED BY <3>1, <4>3 DEF x
    <3> QED BY <3>1
  <2> QED BY <2>1 DEF SumStep
<1>3. zero \in X
  OBVIOUS
<1>4. G \in [X \X (1 .. N + 1) -> X] /\ \A h \in X, i \in 1 .. N + 1 : G[<<h, i>>] = SumStep(f, S, h)
  <2> HIDE DEF X
  <2> QED BY <1>2
<1> HIDE DEF G, zero
<1>5. PICK k \in [0 .. N + 1 -> X] : Goes(k, N + 1, zero, G)
  <2> HIDE DEF X, N
  <2> QED BY <1>1, <1>3, <1>4, GoingOn
<1>6. ASSUME NEW i \in 0 .. N PROVE k[i] \in X /\ k[i + 1] \in X /\ k[i + 1] = SumStep(f, S, k[i])
  <2> HIDE DEF X, N
  <2>1. i + 1 \in 1 .. N + 1 /\ (i + 1) - 1 = i /\ i \in 0 .. N + 1 /\ i + 1 \in 0 .. N + 1
    BY <1>1
  <2>2. k[i] \in X /\ k[i + 1] \in X
    BY <1>5, <2>1
  <2>3. k[i + 1] = G[<<k[i], i + 1>>]
    BY <1>5, <2>1 DEF Goes
  <2> QED BY <1>4, <2>1, <2>2, <2>3
<1> DEFINE T == {n \in Nat : n <= N => \A s \in SUBSET S : Cardinality(s) <= n => k[n + 1][s] = k[n][s]}
<1>7. 0 \in T
  <2> SUFFICES ASSUME NEW s \in SUBSET S, Cardinality(s) <= 0 PROVE k[0 + 1][s] = k[0][s]
    OBVIOUS
  <2>1. s = {}
    BY FS_Subset, FS_EmptySet, FS_CardinalityType
  <2>2. k[0][s] = 0
    BY <1>5 DEF Goes, zero
  <2>3. 0 \in 0 .. N /\ k[0 + 1] = SumStep(f, S, k[0])
    BY <1>1, <1>6
  <2>4. StepAt(f, k[0], s, k[0 + 1][s])
    BY <2>3, SumStepIs
  <2> QED BY <2>1, <2>2, <2>4 DEF StepAt
<1>8. ASSUME NEW n \in Nat, n \in T PROVE n + 1 \in T
  <2> SUFFICES ASSUME n + 1 <= N, NEW s \in SUBSET S, Cardinality(s) <= n + 1 PROVE k[(n + 1) + 1][s] = k[n + 1][s]
    OBVIOUS
  <2>1. k[(n + 1) + 1] = SumStep(f, S, k[n + 1]) /\ k[n + 1] = SumStep(f, S, k[n])
    <3>1. n + 1 \in 0 .. N /\ n \in 0 .. N
      BY <1>1
    <3> QED BY <1>6, <3>1
  <2>4. StepAt(f, k[n + 1], s, k[(n + 1) + 1][s]) /\ StepAt(f, k[n], s, k[n + 1][s])
    BY <2>1, SumStepIs
  <2>2. CASE s = {}
    BY <2>2, <2>4 DEF StepAt
  <2>3. CASE s # {}
    <3> DEFINE x == One(s)
    <3>1. x \in s /\ k[(n + 1) + 1][s] = f[x] + k[n + 1][s \ {x}] /\ k[n + 1][s] = f[x] + k[n][s \ {x}]
      BY <2>3, <2>4 DEF StepAt
    <3> HIDE DEF x
    <3>3. IsFiniteSet(s) /\ Cardinality(s) \in Nat /\ Cardinality(s \ {x}) = Cardinality(s) - 1
      BY <3>1, FS_Subset, FS_RemoveElement, FS_CardinalityType
    <3>4. Cardinality(s \ {x}) <= n /\ s \ {x} \in SUBSET S /\ n <= N
      BY <1>1, <3>3
    <3>5. k[n + 1][s \ {x}] = k[n][s \ {x}]
      BY <1>8, <3>4
    <3> QED BY <3>1, <3>5
  <2> QED BY <2>2, <2>3
<1>9. N \in T
  <2> HIDE DEF T, N
  <2> QED BY <1>1, <1>7, <1>8, SetInduction
<1>10. N \in 0 .. N
  BY <1>1
<1>11. k[N + 1] = k[N]
  <2>1. \A s \in SUBSET S : k[N + 1][s] = k[N][s]
    <3>1. \A s \in SUBSET S : Cardinality(s) <= N
      BY FS_Subset
    <3> QED BY <1>1, <1>9, <3>1
  <2> QED BY <1>6, <1>10, <2>1
<1>12. k[N] \in X /\ k[N] = SumStep(f, S, k[N])
  BY <1>6, <1>10, <1>11
<1> QED BY <1>12 DEF Sums

LEMMA SumUnique ==
  ASSUME NEW f, NEW S, NEW U, IsFiniteSet(S), NEW h, NEW g, Sums(f, S, h), Sums(f, U, g), NEW u \in SUBSET S, u \subseteq U
  PROVE  h[u] = g[u]
<1> DEFINE T == {n \in Nat : \A s \in SUBSET S : s \subseteq U /\ Cardinality(s) = n => h[s] = g[s]}
<1>1. 0 \in T
  <2> SUFFICES ASSUME NEW s \in SUBSET S, s \subseteq U, Cardinality(s) = 0 PROVE h[s] = g[s]
    OBVIOUS
  <2>1. s = {}
    BY FS_Subset, FS_EmptySet
  <2>2. StepAt(f, h, s, h[s]) /\ StepAt(f, g, s, g[s])
    BY SumStepIs DEF Sums
  <2> QED BY <2>1, <2>2 DEF StepAt
<1>2. ASSUME NEW n \in Nat, n \in T PROVE n + 1 \in T
  <2> SUFFICES ASSUME NEW s \in SUBSET S, s \subseteq U, Cardinality(s) = n + 1 PROVE h[s] = g[s]
    OBVIOUS
  <2>1. IsFiniteSet(s) /\ s # {}
    BY FS_Subset, FS_EmptySet
  <2> DEFINE x == One(s)
  <2>2. StepAt(f, h, s, h[s]) /\ StepAt(f, g, s, g[s])
    BY SumStepIs DEF Sums
  <2>3. x \in s /\ h[s] = f[x] + h[s \ {x}] /\ g[s] = f[x] + g[s \ {x}]
    BY <2>1, <2>2 DEF StepAt
  <2> HIDE DEF x
  <2>4. Cardinality(s \ {x}) = n /\ s \ {x} \subseteq S /\ s \ {x} \subseteq U
    <3>1. Cardinality(s \ {x}) = Cardinality(s) - 1
      BY <2>1, <2>3, FS_RemoveElement
    <3> QED BY <3>1
  <2>5. h[s \ {x}] = g[s \ {x}]
    BY <1>2, <2>4
  <2> QED BY <2>3, <2>5
<1>3. IsFiniteSet(u) /\ Cardinality(u) \in Nat
  BY FS_Subset, FS_CardinalityType
<1> HIDE DEF T
<1>4. Cardinality(u) \in T
  BY <1>1, <1>2, <1>3, SetInduction
<1> QED BY <1>4 DEF T

LEMMA TotalIs ==
  ASSUME NEW f, NEW S, IsFiniteSet(S), \A x \in S : f[x] \in Nat
  PROVE  /\ Total(f, S) \in Nat /\ (S = {} => Total(f, S) = 0)
         /\ S # {} => \E x \in S : Total(f, S) = f[x] + Total(f, S \ {x})
<1> DEFINE h == CHOOSE e : Sums(f, S, e)
<1>1. PICK e \in [SUBSET S -> Nat] : Sums(f, S, e)
  BY SumExists
<1>2. Sums(f, S, h)
  BY <1>1
<1>3. Total(f, S) = h[S]
  BY SumIs
<1> HIDE DEF h
<1>4. h[S] = e[S]
  BY <1>1, <1>2, SumUnique
<1>7. StepAt(f, h, S, h[S])
  BY <1>2, SumStepIs DEF Sums
<1>5. S = {} => h[S] = 0
  BY <1>7 DEF StepAt
<1>6. ASSUME S # {} PROVE \E x \in S : h[S] = f[x] + Total(f, S \ {x})
  <2>1. PICK x \in S : h[S] = f[x] + h[S \ {x}]
    BY <1>6, <1>7 DEF StepAt
  <2> DEFINE R == S \ {x}
             r == CHOOSE i : Sums(f, R, i)
  <2>2. IsFiniteSet(R) /\ \A y \in R : f[y] \in Nat
    BY FS_Subset
  <2>3. PICK i \in [SUBSET R -> Nat] : Sums(f, R, i)
    BY <2>2, SumExists
  <2>4. Sums(f, R, r)
    BY <2>3
  <2>5. Total(f, R) = r[R]
    BY SumIs
  <2>7. R \in SUBSET R /\ R \subseteq S
    OBVIOUS
  <2> HIDE DEF r, R
  <2>6. r[R] = h[R]
    BY <1>2, <2>2, <2>4, <2>7, SumUnique
  <2> QED BY <2>1, <2>5, <2>6 DEF R
<1> QED BY <1>1, <1>3, <1>4, <1>5, <1>6

\* In whatever order: an element more adds its part.
LEMMA TotalAdds ==
  ASSUME NEW f, NEW S, IsFiniteSet(S), NEW z, z \notin S, \A x \in S \cup {z} : f[x] \in Nat
  PROVE  Total(f, S \cup {z}) = f[z] + Total(f, S)
<1> DEFINE T == {n \in Nat : \A s \in SUBSET (S \cup {z}) : \A x \in (S \cup {z}) \ s :
                               Cardinality(s) = n => Total(f, s \cup {x}) = f[x] + Total(f, s)}
<1>0. IsFiniteSet(S \cup {z})
  BY FS_AddElement
<1>1. 0 \in T
  <2> SUFFICES ASSUME NEW s \in SUBSET (S \cup {z}), NEW x \in (S \cup {z}) \ s, Cardinality(s) = 0 PROVE Total(f, s \cup {x}) = f[x] + Total(f, s)
    OBVIOUS
  <2>1. s = {}
    BY <1>0, FS_Subset, FS_EmptySet
  <2>2. IsFiniteSet({x}) /\ {x} # {} /\ f[x] \in Nat /\ \A w \in {x} : f[w] \in Nat
    BY FS_Singleton
  <2>3. \E w \in {x} : Total(f, {x}) = f[w] + Total(f, {x} \ {w})
    BY <2>2, TotalIs
  <2>4. {x} \ {x} = {} /\ s \cup {x} = {x}
    BY <2>1
  <2> QED BY <2>1, <2>3, <2>4
<1>2. ASSUME NEW n \in Nat, n \in T PROVE n + 1 \in T
  <2> SUFFICES ASSUME NEW s \in SUBSET (S \cup {z}), NEW x \in (S \cup {z}) \ s, Cardinality(s) = n + 1 PROVE Total(f, s \cup {x}) = f[x] + Total(f, s)
    OBVIOUS
  <2> DEFINE V == s \cup {x}
  <2>1. IsFiniteSet(s) /\ IsFiniteSet(V) /\ V # {} /\ V \subseteq S \cup {z} /\ \A w \in V : f[w] \in Nat
    BY <1>0, FS_Subset
  <2>2. PICK y \in V : Total(f, V) = f[y] + Total(f, V \ {y})
    <3> HIDE DEF V
    <3> QED BY <2>1, TotalIs
  <2>3. CASE y = x
    <3>1. V \ {y} = s
      BY <2>3
    <3> QED BY <2>2, <2>3, <3>1
  <2>4. CASE y # x
    <3> DEFINE r == s \ {y}
    <3>1. y \in s /\ V \ {y} = r \cup {x} /\ s = r \cup {y} /\ y \notin r /\ x \notin r /\ r \in SUBSET (S \cup {z})
      BY <2>4
    <3>0. Cardinality(r) = Cardinality(s) - 1
      BY <2>1, <3>1, FS_RemoveElement
    <3> HIDE DEF r, V
    <3>2. Cardinality(r) = n
      BY <3>0
    <3>3. Total(f, r \cup {x}) = f[x] + Total(f, r) /\ Total(f, r \cup {y}) = f[y] + Total(f, r)
      BY <1>2, <3>1, <3>2
    <3>4. IsFiniteSet(r) /\ Total(f, r) \in Nat /\ f[x] \in Nat /\ f[y] \in Nat
      <4>1. IsFiniteSet(r) /\ \A w \in r : f[w] \in Nat
        BY <1>0, <3>1, FS_Subset
      <4> QED BY <3>1, <4>1, TotalIs
    <3>5. Total(f, V) = f[y] + Total(f, r \cup {x})
      BY <2>2, <3>1
    <3>6. Total(f, s) = f[y] + Total(f, r)
      BY <3>1, <3>3
    <3>7. Total(f, V) = f[x] + Total(f, s)
      BY <3>3, <3>4, <3>5, <3>6
    <3> QED BY <3>7 DEF V
  <2> QED BY <2>3, <2>4
<1>3. Cardinality(S) \in Nat
  BY FS_CardinalityType
<1> HIDE DEF T
<1>4. Cardinality(S) \in T
  BY <1>1, <1>2, <1>3, SetInduction
<1> QED BY <1>4 DEF T

LEMMA FiniteSteps ==
  ASSUME NEW U, IsFiniteSet(U), NEW C, {} \in C, \A s \in SUBSET U : s \in C => \A x \in U \ s : s \cup {x} \in C
  PROVE  U \in C
<1> DEFINE T == {n \in Nat : \A s \in SUBSET U : Cardinality(s) = n => s \in C}
<1>1. 0 \in T
  BY FS_Subset, FS_EmptySet
<1>2. ASSUME NEW n \in Nat, n \in T PROVE n + 1 \in T
  <2> SUFFICES ASSUME NEW s \in SUBSET U, Cardinality(s) = n + 1 PROVE s \in C
    OBVIOUS
  <2>1. IsFiniteSet(s) /\ s # {}
    BY FS_Subset, FS_EmptySet
  <2>2. PICK x \in s : TRUE
    BY <2>1
  <2>3. Cardinality(s \ {x}) = Cardinality(s) - 1
    BY <2>1, FS_RemoveElement
  <2>4. Cardinality(s \ {x}) = n
    BY <2>3
  <2>5. s \ {x} \in C /\ s = (s \ {x}) \cup {x} /\ x \in U \ (s \ {x})
    BY <1>2, <2>4
  <2> QED BY <2>5
<1>3. Cardinality(U) \in Nat
  BY FS_CardinalityType
<1> HIDE DEF T
<1>4. Cardinality(U) \in T
  BY <1>1, <1>2, <1>3, SetInduction
<1> QED BY <1>4 DEF T

\* A sum that grows by what some of its elements add.
Grown(h, f, g, S, m) == \A x \in S : f[x] \in Nat /\ (x \in m => g[x] \in Nat) /\ h[x] = f[x] + IF x \in m THEN g[x] ELSE 0

LEMMA TotalGrows ==
  ASSUME NEW h, NEW f, NEW g, NEW S, IsFiniteSet(S), NEW m \in SUBSET S, Grown(h, f, g, S, m)
  PROVE  Total(h, S) = Total(f, S) + Total(g, m)
<1> DEFINE C == {s \in SUBSET S : Total(h, s) = Total(f, s) + Total(g, s \cap m)}
<1>1. \A x \in S : f[x] \in Nat /\ h[x] \in Nat /\ (x \in m => g[x] \in Nat /\ h[x] = f[x] + g[x]) /\ (x \notin m => h[x] = f[x])
  BY DEF Grown
<1>2. ASSUME NEW s \in SUBSET S
      PROVE  /\ IsFiniteSet(s) /\ IsFiniteSet(s \cap m)
             /\ Total(h, s) \in Nat /\ Total(f, s) \in Nat /\ Total(g, s \cap m) \in Nat
  <2>1. IsFiniteSet(s) /\ IsFiniteSet(s \cap m)
    BY FS_Subset
  <2>2. (\A x \in s : f[x] \in Nat) /\ (\A x \in s : h[x] \in Nat) /\ (\A x \in s \cap m : g[x] \in Nat)
    BY <1>1
  <2> QED BY <2>1, <2>2, TotalIs
<1>3. {} \in C
  <2>1. IsFiniteSet({})
    BY FS_EmptySet
  <2>2. Total(h, {}) = 0 /\ Total(f, {}) = 0 /\ Total(g, {}) = 0
    BY <2>1, TotalIs
  <2>3. {} \cap m = {}
    OBVIOUS
  <2> QED BY <2>2, <2>3
<1>4. ASSUME NEW s \in SUBSET S, s \in C, NEW x \in S \ s PROVE s \cup {x} \in C
  <2>1. Total(h, s) = Total(f, s) + Total(g, s \cap m)
    BY <1>4
  <2>2. \A y \in s \cup {x} : f[y] \in Nat
    BY <1>1
  <2>3. \A y \in s \cup {x} : h[y] \in Nat
    BY <1>1
  <2>4. Total(h, s \cup {x}) = h[x] + Total(h, s) /\ Total(f, s \cup {x}) = f[x] + Total(f, s)
    BY <1>2, <2>2, <2>3, TotalAdds
  <2>5. CASE x \in m
    <3>1. (s \cup {x}) \cap m = (s \cap m) \cup {x} /\ x \notin s \cap m
      BY <2>5
    <3>2. \A y \in (s \cap m) \cup {x} : g[y] \in Nat
      BY <1>1, <2>5
    <3>3. Total(g, (s \cap m) \cup {x}) = g[x] + Total(g, s \cap m)
      BY <1>2, <3>1, <3>2, TotalAdds
    <3>4. h[x] = f[x] + g[x] /\ f[x] \in Nat /\ g[x] \in Nat
      BY <1>1, <2>5
    <3>5. Total(h, s \cup {x}) = Total(f, s \cup {x}) + Total(g, (s \cap m) \cup {x})
      <4> DEFINE a == Total(h, s)
                 b == Total(f, s)
                 c == Total(g, s \cap m)
      <4>1. a \in Nat /\ b \in Nat /\ c \in Nat /\ a = b + c
        BY <1>2, <2>1
      <4>2. Total(h, s \cup {x}) = h[x] + a /\ Total(f, s \cup {x}) = f[x] + b /\ Total(g, (s \cap m) \cup {x}) = g[x] + c
        BY <2>4, <3>3
      <4> HIDE DEF a, b, c
      <4>3. h[x] + a = (f[x] + b) + (g[x] + c)
        BY ONLY <3>4, <4>1
      <4> QED BY <4>2, <4>3
    <3> QED BY <3>1, <3>5
  <2>6. CASE x \notin m
    <3>1. (s \cup {x}) \cap m = s \cap m
      BY <2>6
    <3>2. h[x] = f[x] /\ f[x] \in Nat
      BY <1>1, <2>6
    <3>3. Total(h, s \cup {x}) = Total(f, s \cup {x}) + Total(g, s \cap m)
      BY <1>2, <2>1, <2>4, <3>2
    <3> QED BY <3>1, <3>3
  <2> QED BY <2>5, <2>6
<1> HIDE DEF C
<1>5. S \in C
  BY <1>3, <1>4, FiniteSteps
<1>6. S \cap m = m
  OBVIOUS
<1> QED BY <1>5, <1>6 DEF C

LEMMA TotalSame ==
  ASSUME NEW f, NEW g, NEW S, IsFiniteSet(S), \A x \in S : f[x] \in Nat /\ g[x] = f[x]
  PROVE  Total(g, S) = Total(f, S)
<1>1. Grown(g, f, f, S, {})
  BY DEF Grown
<1>2. Total(g, S) = Total(f, S) + Total(f, {})
  BY <1>1, TotalGrows
<1>3. IsFiniteSet({})
  BY FS_EmptySet
<1>4. Total(f, {}) = 0 /\ Total(f, S) \in Nat
  BY <1>3, TotalIs
<1> QED BY <1>2, <1>4

LEMMA TotalOnes ==
  ASSUME NEW f, NEW S, IsFiniteSet(S), \A x \in S : f[x] = 1
  PROVE  Total(f, S) = Cardinality(S)
<1> DEFINE C == {s \in SUBSET S : Total(f, s) = Cardinality(s)}
<1>1. {} \in C
  <2>1. IsFiniteSet({}) /\ Cardinality({}) = 0
    BY FS_EmptySet
  <2>2. Total(f, {}) = 0
    BY <2>1, TotalIs
  <2> QED BY <2>1, <2>2
<1>2. ASSUME NEW s \in SUBSET S, s \in C, NEW x \in S \ s PROVE s \cup {x} \in C
  <2>1. IsFiniteSet(s) /\ x \notin s /\ \A y \in s \cup {x} : f[y] \in Nat
    BY FS_Subset
  <2>2. Total(f, s \cup {x}) = f[x] + Total(f, s)
    BY <2>1, TotalAdds
  <2>3. Cardinality(s \cup {x}) = Cardinality(s) + 1 /\ Cardinality(s) \in Nat
    BY <2>1, FS_AddElement, FS_CardinalityType
  <2>4. Total(f, s \cup {x}) = Cardinality(s \cup {x})
    BY <1>2, <2>2, <2>3
  <2> QED BY <2>4
<1> HIDE DEF C
<1>3. S \in C
  BY <1>1, <1>2, FiniteSteps
<1> QED BY <1>3 DEF C

LEMMA TotalTimes ==
  ASSUME NEW f, NEW h, NEW k \in Nat, NEW S, IsFiniteSet(S), \A x \in S : f[x] \in Nat /\ h[x] = f[x] * k
  PROVE  Total(h, S) = Total(f, S) * k
<1> DEFINE C == {s \in SUBSET S : Total(h, s) = Total(f, s) * k}
<1>1. {} \in C
  <2>1. IsFiniteSet({})
    BY FS_EmptySet
  <2>2. Total(f, {}) = 0 /\ Total(h, {}) = 0
    BY <2>1, TotalIs
  <2> QED BY <2>2
<1>2. \A x, y \in Nat : (x + y) * k = x * k + y * k /\ x * k \in Nat
  OBVIOUS
<1>3. ASSUME NEW s \in SUBSET S, s \in C, NEW x \in S \ s PROVE s \cup {x} \in C
  <2>1. IsFiniteSet(s) /\ x \notin s /\ (\A y \in s \cup {x} : f[y] \in Nat)
    BY FS_Subset
  <2>2. \A y \in s \cup {x} : h[y] \in Nat
    <3> TAKE y \in s \cup {x}
    <3>1. f[y] \in Nat /\ h[y] = f[y] * k
      OBVIOUS
    <3> QED BY <1>2, <3>1
  <2>3. Total(f, s \cup {x}) = f[x] + Total(f, s) /\ Total(h, s \cup {x}) = h[x] + Total(h, s)
    BY <2>1, <2>2, TotalAdds
  <2>4. Total(f, s) \in Nat /\ f[x] \in Nat /\ h[x] = f[x] * k
    BY <2>1, TotalIs
  <2>5. (f[x] + Total(f, s)) * k = f[x] * k + Total(f, s) * k
    BY <1>2, <2>4
  <2>6. Total(h, s \cup {x}) = Total(f, s \cup {x}) * k
    BY <1>3, <2>3, <2>4, <2>5
  <2> QED BY <2>6
<1> HIDE DEF C
<1>4. S \in C
  BY <1>1, <1>3, FiniteSteps
<1> QED BY <1>4 DEF C

LEMMA TotalZero ==
  ASSUME NEW f, NEW S, IsFiniteSet(S), \A x \in S : f[x] = 0
  PROVE  Total(f, S) = 0
<1>1. \A x \in S : f[x] \in Nat /\ f[x] = f[x] * 0
  OBVIOUS
<1>2. Total(f, S) = Total(f, S) * 0
  BY <1>1, TotalTimes
<1>3. Total(f, S) \in Nat
  BY <1>1, TotalIs
<1> QED BY <1>2, <1>3

\* A table is summed by its rows as by its columns.
Columns(F, col, S, W) == \A d \in W, a \in S : F[d][a] \in Nat /\ col[a][d] = F[d][a]

LEMMA TotalTwice ==
  ASSUME NEW S, IsFiniteSet(S), NEW W, IsFiniteSet(W), NEW F, NEW col, Columns(F, col, S, W),
         NEW r, \A d \in W : r[d] = Total(F[d], S), NEW c, \A a \in S : c[a] = Total(col[a], W)
  PROVE  Total(r, W) = Total(c, S)
<1> DEFINE part(s) == [a \in S |-> Total(col[a], s)]
           C == {s \in SUBSET W : Total(r, s) = Total(part(s), S)}
<1>1. \A d \in W, a \in S : F[d][a] \in Nat /\ col[a][d] = F[d][a]
  BY DEF Columns
<1>2. ASSUME NEW s \in SUBSET W, NEW a \in S PROVE IsFiniteSet(s) /\ part(s)[a] = Total(col[a], s) /\ part(s)[a] \in Nat
  <2>1. IsFiniteSet(s) /\ \A d \in s : col[a][d] \in Nat
    BY <1>1, FS_Subset
  <2>2. Total(col[a], s) \in Nat
    BY <2>1, TotalIs
  <2> QED BY <2>1, <2>2
<1>3. ASSUME NEW d \in W PROVE r[d] \in Nat
  <2>1. \A a \in S : F[d][a] \in Nat
    BY <1>1
  <2> QED BY <2>1, TotalIs
<1>4. {} \in C
  <2>1. IsFiniteSet({})
    BY FS_EmptySet
  <2>2. Total(r, {}) = 0 /\ \A a \in S : part({})[a] = 0
    BY <2>1, TotalIs
  <2> DEFINE p == part({})
  <2>3. \A a \in S : p[a] = 0
    BY <2>2
  <2> HIDE DEF p
  <2>6. Total(p, S) = 0
    BY <2>3, TotalZero
  <2> QED BY <2>2, <2>6 DEF p
<1>5. ASSUME NEW s \in SUBSET W, s \in C, NEW d \in W \ s PROVE s \cup {d} \in C
  <2> DEFINE old == part(s)
             new == part(s \cup {d})
  <2>1. ASSUME NEW a \in S PROVE new[a] = old[a] + F[d][a] /\ old[a] \in Nat /\ F[d][a] \in Nat
    <3> DEFINE v == col[a]
    <3>1. IsFiniteSet(s) /\ d \notin s /\ \A e \in s \cup {d} : v[e] \in Nat
      BY <1>1, FS_Subset
    <3>2. v[d] = F[d][a] /\ F[d][a] \in Nat
      BY <1>1
    <3>3. new[a] = Total(v, s \cup {d}) /\ old[a] = Total(v, s) /\ old[a] \in Nat
      BY <1>2
    <3> HIDE DEF v, new, old
    <3>4. Total(v, s \cup {d}) = v[d] + Total(v, s)
      BY <3>1, TotalAdds
    <3> QED BY <3>2, <3>3, <3>4
  <2> HIDE DEF old, new
  <2>2. Grown(new, old, F[d], S, S)
    BY <2>1 DEF Grown
  <2>3. Total(new, S) = Total(old, S) + Total(F[d], S)
    BY <2>2, TotalGrows
  <2>4. Total(r, s \cup {d}) = r[d] + Total(r, s)
    <3>1. IsFiniteSet(s) /\ d \notin s /\ \A e \in s \cup {d} : r[e] \in Nat
      BY <1>3, FS_Subset
    <3> QED BY <3>1, TotalAdds
  <2>5. r[d] = Total(F[d], S) /\ r[d] \in Nat
    BY <1>3
  <2>6. Total(r, s) = Total(old, S)
    BY <1>5 DEF old
  <2>7. Total(old, S) \in Nat
    BY <2>1, TotalIs
  <2>8. Total(r, s \cup {d}) = Total(new, S)
    BY <2>3, <2>4, <2>5, <2>6, <2>7
  <2> QED BY <2>8 DEF new
<1>6. W \in C
  <2> HIDE DEF C
  <2> QED BY <1>4, <1>5, FiniteSteps
<1>7. Total(part(W), S) = Total(c, S)
  <2> DEFINE p == part(W)
  <2>1. \A a \in S : c[a] \in Nat /\ p[a] = c[a]
    BY <1>2
  <2> HIDE DEF p
  <2>2. Total(p, S) = Total(c, S)
    BY <2>1, TotalSame
  <2> QED BY <2>2 DEF p
<1> QED BY <1>6, <1>7

-----------------------------------------------------------------------------
\* The tables of the days that retention covers hold a row for every sighting.
TrendsTypeInv == /\ live \in SUBSET Alerts /\ today \in Days
                 /\ seen \in [Days -> [Alerts -> Nat]]
                 /\ countries \in [Days -> [CountryRows -> [count : Nat, weight : Nat]]]
Tellers(t, c) == {a \in Alerts : Facts[a].country = c /\ t[1] \in Facts[a].terms /\ Facts[a].place[1] = t[2]}
Weighed(s)    == [a \in Alerts |-> s[a] * Facts[a].trust]
Tally(row, s, t, c) == row.count = Total(s, Tellers(t, c)) /\ row.weight = Total(Weighed(s), Tellers(t, c))
TalliesInv == \A d \in Days : d + Retention >= today =>
                 \A t \in Topics, c \in Countries : Tally(countries[d][<<t, c>>], seen[d], t, c)

LEMMA TopicsFinite == IsFiniteSet(Topics)
<1> DEFINE cats == {p[1] : p \in Places}
           g == [p \in Places |-> p[1]]
<1>1. g \in Surjection(Places, cats)
  BY DEF Surjection
<1> HIDE DEF g, cats
<1>2. IsFiniteSet(cats)
  BY <1>1, TrendsTyped, FS_Surjection
<1>3. IsFiniteSet(Terms \X cats)
  BY <1>2, TrendsTyped, FS_Product
<1> QED BY <1>3 DEF Topics, cats

LEMMA TellersFinite == ASSUME NEW t, NEW c PROVE IsFiniteSet(Tellers(t, c)) /\ Tellers(t, c) \subseteq Alerts
  BY TrendsTyped, FS_Subset DEF Tellers

LEMMA WeighedTyped ==
  ASSUME NEW s \in [Alerts -> Nat], NEW a \in Alerts
  PROVE  Weighed(s)[a] = s[a] * Facts[a].trust /\ Weighed(s)[a] \in Nat /\ Facts[a].trust \in Nat
<1>1. s[a] \in Nat /\ Facts[a].trust \in Nat
  BY TrendsTyped
<1>2. \A x, y \in Nat : x * y \in Nat
  OBVIOUS
<1> QED BY <1>1, <1>2 DEF Weighed

LEMMA RecordTallies ==
  ASSUME NEW t, NEW c, live \subseteq Alerts, NEW s \in [Alerts -> Nat], NEW z \in [Alerts -> Nat],
         \A a \in Alerts : z[a] = s[a] + IF a \in Counted THEN 1 ELSE 0,
         NEW row \in [count : Nat, weight : Nat], Tally(row, s, t, c), NEW new,
         new.count = row.count + Cardinality(MentionsOfCountry(t, c)),
         new.weight = row.weight + Total([a \in Alerts |-> Facts[a].trust], MentionsOfCountry(t, c))
  PROVE  Tally(new, z, t, c)
<1> DEFINE S == Tellers(t, c)
           m == MentionsOfCountry(t, c)
           one == [a \in Alerts |-> 1]
           trust == [a \in Alerts |-> Facts[a].trust]
           w == Weighed(s)
           v == Weighed(z)
<1>1. IsFiniteSet(S) /\ S \subseteq Alerts
  BY TellersFinite
<1>2. m = {a \in S : a \in Counted}
  BY DEF MentionsOfCountry, Tellers, Counted
<1>3. IsFiniteSet(m) /\ m \in SUBSET S
  BY <1>1, <1>2, FS_Subset
<1>4. \A a \in Alerts : one[a] = 1 /\ trust[a] = Facts[a].trust
  OBVIOUS
<1> HIDE DEF S, m, one, trust
<1>5. Grown(z, s, one, S, m)
  BY <1>1, <1>2, <1>4 DEF Grown
<1>6. Total(z, S) = Total(s, S) + Total(one, m)
  BY <1>1, <1>3, <1>5, TotalGrows
<1>7. Total(one, m) = Cardinality(m)
  BY <1>1, <1>3, <1>4, TotalOnes
<1>8. ASSUME NEW a \in S PROVE w[a] \in Nat /\ (a \in m => trust[a] \in Nat) /\ v[a] = w[a] + IF a \in m THEN trust[a] ELSE 0
  <2>1. w[a] = s[a] * Facts[a].trust /\ w[a] \in Nat /\ v[a] = z[a] * Facts[a].trust /\ Facts[a].trust \in Nat /\ s[a] \in Nat
    BY <1>1, WeighedTyped
  <2> HIDE DEF w, v
  <2>2. \A x, y \in Nat : (x + 1) * y = x * y + y
    OBVIOUS
  <2>3. CASE a \in m
    <3>1. z[a] = s[a] + 1 /\ trust[a] = Facts[a].trust
      BY <1>1, <1>2, <1>4, <2>3
    <3>2. z[a] * Facts[a].trust = s[a] * Facts[a].trust + Facts[a].trust
      BY <2>1, <2>2, <3>1
    <3> QED BY <2>1, <2>3, <3>1, <3>2
  <2>4. CASE a \notin m
    <3>1. z[a] = s[a]
      BY <1>1, <1>2, <2>4
    <3> QED BY <2>1, <2>4, <3>1
  <2> QED BY <2>3, <2>4
<1> HIDE DEF w, v
<1>9. Grown(v, w, trust, S, m)
  BY <1>8 DEF Grown
<1>10. Total(v, S) = Total(w, S) + Total(trust, m)
  BY <1>1, <1>3, <1>9, TotalGrows
<1>11. row.count = Total(s, S) /\ row.weight = Total(w, S)
  BY DEF Tally, S, w
<1>12. new.count = row.count + Cardinality(m) /\ new.weight = row.weight + Total(trust, m)
  BY DEF m, trust
<1>13. new.count = Total(z, S) /\ new.weight = Total(v, S)
  BY <1>6, <1>7, <1>10, <1>11, <1>12
<1> QED BY <1>13 DEF Tally, S, v

LEMMA TrendsTypes == TrendsTypeInv /\ [TrendsNext]_trendVars => TrendsTypeInv'
<1> SUFFICES ASSUME TrendsTypeInv, [TrendsNext]_trendVars PROVE TrendsTypeInv'
  OBVIOUS
<1> USE DEF TrendsTypeInv
<1>1. CASE UNCHANGED trendVars
  BY <1>1 DEF trendVars, CountryRows, Days
<1>2. CASE NextDay
  BY <1>2, TrendsTyped DEF NextDay, Days
<1>3. CASE Sweep
  BY <1>3 DEF Sweep
<1>4. CASE Record
  <2>1. live' = {} /\ today' = today
    BY <1>4 DEF Record
  <2>2. seen' \in [Days -> [Alerts -> Nat]]
    BY <1>4 DEF Record
  <2>3. ASSUME NEW r \in CountryRows
        PROVE  [count  |-> Adding(countries[today][r].count, Cardinality(MentionsOfCountry(r[1], r[2]))),
                weight |-> Adding(countries[today][r].weight, Total([a \in Alerts |-> Facts[a].trust], MentionsOfCountry(r[1], r[2])))]
                 \in [count : Nat, weight : Nat]
    <3> DEFINE m == MentionsOfCountry(r[1], r[2])
               trust == [a \in Alerts |-> Facts[a].trust]
    <3>1. IsFiniteSet(m) /\ m \subseteq Alerts
      BY TrendsTyped, FS_Subset DEF MentionsOfCountry, Counted
    <3>2. \A a \in m : trust[a] \in Nat
      BY <3>1, TrendsTyped
    <3> HIDE DEF m, trust
    <3>3. Cardinality(m) \in Nat /\ Total(trust, m) \in Nat
      BY <3>1, <3>2, TotalIs, FS_CardinalityType
    <3>4. countries[today][r].count \in Nat /\ countries[today][r].weight \in Nat
      OBVIOUS
    <3> QED BY <3>3, <3>4 DEF Adding, m, trust
  <2>4. countries' \in [Days -> [CountryRows -> [count : Nat, weight : Nat]]]
    BY <1>4, <2>3 DEF Record
  <2> QED BY <2>1, <2>2, <2>4
<1>5. CASE RecordFails
  BY <1>5 DEF RecordFails
<1>6. CASE Prune
  <2>1. NoCountries \in [CountryRows -> [count : Nat, weight : Nat]]
    BY DEF NoCountries
  <2>2. countries' \in [Days -> [CountryRows -> [count : Nat, weight : Nat]]]
    BY <1>6, <2>1 DEF Prune
  <2> QED BY <1>6, <2>2 DEF Prune
<1>7. CASE PruneFails
  BY <1>7 DEF PruneFails
<1>8. CASE DetectSpikes
  BY <1>8 DEF DetectSpikes
<1> QED BY <1>1, <1>2, <1>3, <1>4, <1>5, <1>6, <1>7, <1>8 DEF TrendsNext

LEMMA TalliesStep == TrendsTypeInv /\ TalliesInv /\ [TrendsNext]_trendVars => TalliesInv'
<1> SUFFICES ASSUME TrendsTypeInv, TalliesInv, [TrendsNext]_trendVars PROVE TalliesInv'
  OBVIOUS
<1>0. Retention \in Nat /\ today \in Nat /\ Days \subseteq Nat
  BY TrendsTyped DEF TrendsTypeInv, Days
<1>1. CASE UNCHANGED <<today, countries, seen>>
  BY <1>1 DEF TalliesInv
<1>2. CASE NextDay
  <2>1. today' = today + 1 /\ UNCHANGED <<countries, seen>>
    BY <1>2 DEF NextDay
  <2> SUFFICES ASSUME NEW d \in Days, d + Retention >= today', NEW t \in Topics, NEW c \in Countries
               PROVE  Tally(countries'[d][<<t, c>>], seen'[d], t, c)
    BY DEF TalliesInv
  <2>2. d + Retention >= today
    BY <1>0, <2>1
  <2> QED BY <2>1, <2>2 DEF TalliesInv
<1>3. CASE Record
  <2> SUFFICES ASSUME NEW d \in Days, d + Retention >= today', NEW t \in Topics, NEW c \in Countries
               PROVE  Tally(countries'[d][<<t, c>>], seen'[d], t, c)
    BY DEF TalliesInv
  <2>1. today' = today /\ Tally(countries[d][<<t, c>>], seen[d], t, c)
    BY <1>3 DEF Record, TalliesInv
  <2>2. CASE d # today
    <3>1. countries'[d] = countries[d] /\ seen'[d] = seen[d]
      BY <1>3, <2>2 DEF Record, TrendsTypeInv
    <3> QED BY <2>1, <3>1
  <2>3. CASE d = today
    <3> DEFINE row == countries[d][<<t, c>>]
               new == countries'[d][<<t, c>>]
               s == seen[d]
               z == seen'[d]
    <3>1. <<t, c>> \in CountryRows /\ live \subseteq Alerts
      BY DEF CountryRows, TrendsTypeInv
    <3>2. row \in [count : Nat, weight : Nat] /\ s \in [Alerts -> Nat]
      BY <3>1 DEF TrendsTypeInv
    <3>3. z = [a \in Alerts |-> s[a] + (IF a \in Counted THEN 1 ELSE 0)]
      BY <1>3, <2>3 DEF Record, TrendsTypeInv
    <3>4. new = [count  |-> row.count + Cardinality(MentionsOfCountry(t, c)),
                 weight |-> row.weight + Total([a \in Alerts |-> Facts[a].trust], MentionsOfCountry(t, c))]
      BY <1>3, <2>3, <3>1 DEF Record, TrendsTypeInv, Adding
    <3>5. z \in [Alerts -> Nat] /\ \A a \in Alerts : z[a] = s[a] + IF a \in Counted THEN 1 ELSE 0
      BY <3>2, <3>3
    <3>6. /\ new.count = row.count + Cardinality(MentionsOfCountry(t, c))
          /\ new.weight = row.weight + Total([a \in Alerts |-> Facts[a].trust], MentionsOfCountry(t, c))
      BY <3>4
    <3>7. Tally(row, s, t, c)
      BY <2>1
    <3> HIDE DEF row, new, s, z
    <3>8. Tally(new, z, t, c)
      BY <3>1, <3>2, <3>5, <3>6, <3>7, RecordTallies
    <3> QED BY <3>8 DEF new, z
  <2> QED BY <2>2, <2>3
<1>4. CASE Prune
  <2> SUFFICES ASSUME NEW d \in Days, d + Retention >= today', NEW t \in Topics, NEW c \in Countries
               PROVE  Tally(countries'[d][<<t, c>>], seen'[d], t, c)
    BY DEF TalliesInv
  <2>1. today' = today /\ seen' = seen /\ Tally(countries[d][<<t, c>>], seen[d], t, c)
    BY <1>4 DEF Prune, TalliesInv
  <2>2. ~Old(d)
    BY <1>0, <2>1 DEF Old
  <2>3. countries'[d] = countries[d]
    BY <1>4, <2>2 DEF Prune
  <2> QED BY <2>1, <2>3
<1> QED BY <1>1, <1>2, <1>3, <1>4 DEF TrendsNext, Sweep, RecordFails, PruneFails, DetectSpikes, trendVars

LEMMA TrendsStart == TrendsInit => TrendsTypeInv /\ TalliesInv
<1> SUFFICES ASSUME TrendsInit PROVE TrendsTypeInv /\ TalliesInv
  OBVIOUS
<1> USE DEF TrendsInit
<1>1. TrendsTypeInv
  <2>1. 0 \in Days
    BY TrendsTyped DEF Days
  <2>2. NoCountries \in [CountryRows -> [count : Nat, weight : Nat]]
    BY DEF NoCountries
  <2> QED BY <2>1, <2>2 DEF TrendsTypeInv
<1>2. ASSUME NEW d \in Days, NEW t \in Topics, NEW c \in Countries PROVE Tally(countries[d][<<t, c>>], seen[d], t, c)
  <2> DEFINE S == Tellers(t, c)
             s == seen[d]
             w == Weighed(s)
  <2>1. <<t, c>> \in CountryRows
    BY DEF CountryRows
  <2>2. countries[d][<<t, c>>].count = 0 /\ countries[d][<<t, c>>].weight = 0
    BY <2>1 DEF NoCountries
  <2>3. IsFiniteSet(S) /\ S \subseteq Alerts
    BY TellersFinite
  <2>4. s \in [Alerts -> Nat] /\ \A a \in Alerts : s[a] = 0
    OBVIOUS
  <2> HIDE DEF s
  <2>5. ASSUME NEW a \in S PROVE w[a] = 0
    <3>1. w[a] = s[a] * Facts[a].trust /\ Facts[a].trust \in Nat /\ s[a] = 0
      BY <2>3, <2>4, WeighedTyped
    <3> HIDE DEF w
    <3> QED BY <3>1
  <2> HIDE DEF w, S
  <2>6. Total(s, S) = 0 /\ Total(w, S) = 0
    BY <2>3, <2>4, <2>5, TotalZero
  <2> QED BY <2>2, <2>6 DEF Tally, S, w, s
<1>3. TalliesInv
  BY <1>2 DEF TalliesInv
<1> QED BY <1>1, <1>3

-----------------------------------------------------------------------------
\* A window, summed by its rows or by its sightings.
SightedTerm(t, c, days) ==
    [term   |-> t[1], category |-> t[2],
     count  |-> Total([a \in Alerts |-> Total([d \in Days |-> seen[d][a]], Window(days))], Tellers(t, c)),
     weight |-> Total([a \in Alerts |-> Total([d \in Days |-> seen[d][a]], Window(days)) * Facts[a].trust], Tellers(t, c))]
ViewOf(x) == [term |-> x.term, category |-> x.category, count |-> x.count, weight |-> x.weight]

LEMMA WindowCovered ==
  ASSUME TrendsTypeInv, NEW days \in 1 .. Retention
  PROVE  IsFiniteSet(Window(days)) /\ Window(days) \subseteq Days /\ \A d \in Window(days) : d + Retention >= today
<1>1. IsFiniteSet(Days) /\ Days \subseteq Nat
  BY TrendsTyped, FS_Interval DEF Days
<1>2. Window(days) \subseteq Days
  BY DEF Window
<1>3. ASSUME NEW d \in Window(days) PROVE d + Retention >= today
  <2>1. d \in Nat /\ today \in Nat /\ d + days >= today /\ days <= Retention /\ Retention \in Nat /\ days \in Nat
    BY <1>1, TrendsTyped DEF Window, TrendsTypeInv
  <2> QED BY <2>1
<1> QED BY <1>1, <1>2, <1>3, FS_Subset

LEMMA WindowSums ==
  ASSUME TrendsTypeInv, TalliesInv, NEW days \in 1 .. Retention, NEW t \in Topics, NEW c \in Countries
  PROVE  ViewOf(DigestTerm(t, c, days)) = SightedTerm(t, c, days)
<1> DEFINE W == Window(days)
           S == Tellers(t, c)
           counts  == [d \in Days |-> countries[d][<<t, c>>].count]
           weights == [d \in Days |-> countries[d][<<t, c>>].weight]
           hits    == [a \in Alerts |-> [d \in Days |-> seen[d][a]]]
           times   == [a \in Alerts |-> Total([d \in Days |-> seen[d][a]], W)]
           trusted == [a \in Alerts |-> Total([d \in Days |-> seen[d][a]], W) * Facts[a].trust]
           F       == [d \in Days |-> Weighed(seen[d])]
           shares  == [a \in Alerts |-> [d \in Days |-> Weighed(seen[d])[a]]]
<1>1. IsFiniteSet(W) /\ W \subseteq Days /\ IsFiniteSet(S) /\ S \subseteq Alerts
  BY WindowCovered, TellersFinite
<1>2. ASSUME NEW d \in W PROVE Tally(countries[d][<<t, c>>], seen[d], t, c)
  BY WindowCovered DEF TalliesInv
<1>3. \A d \in W : counts[d] = Total(seen[d], S) /\ weights[d] = Total(F[d], S)
  BY <1>1, <1>2 DEF Tally
<1>4. ASSUME NEW d \in Days, NEW a \in Alerts
      PROVE  /\ seen[d][a] \in Nat /\ hits[a][d] = seen[d][a]
             /\ F[d][a] \in Nat /\ F[d][a] = seen[d][a] * Facts[a].trust
             /\ shares[a][d] = F[d][a] /\ Facts[a].trust \in Nat
  <2>1. seen[d] \in [Alerts -> Nat]
    BY DEF TrendsTypeInv
  <2>2. Weighed(seen[d])[a] = seen[d][a] * Facts[a].trust /\ Weighed(seen[d])[a] \in Nat /\ Facts[a].trust \in Nat
    BY <2>1, WeighedTyped
  <2> QED BY <2>1, <2>2
<1>5. \A a \in Alerts : times[a] = Total(hits[a], W) /\ trusted[a] = Total(hits[a], W) * Facts[a].trust
  OBVIOUS
<1> HIDE DEF W, S, counts, weights, hits, times, trusted, F, shares
<1>6. Columns(seen, hits, S, W) /\ Columns(F, shares, S, W)
  BY <1>1, <1>4 DEF Columns
<1>7. Total(counts, W) = Total(times, S)
  <2>1. \A d \in W : counts[d] = Total(seen[d], S)
    BY <1>3
  <2>2. \A a \in S : times[a] = Total(hits[a], W)
    BY <1>1, <1>5
  <2> QED BY <1>1, <1>6, <2>1, <2>2, TotalTwice
<1>8. Total(weights, W) = Total(trusted, S)
  <2>1. \A d \in W : weights[d] = Total(F[d], S)
    BY <1>3
  <2>2. ASSUME NEW a \in S PROVE trusted[a] = Total(shares[a], W)
    <3> DEFINE f == hits[a]
               h == shares[a]
               k == Facts[a].trust
    <3>1. a \in Alerts
      BY <1>1
    <3>2. k \in Nat
      BY <3>1, TrendsTyped
    <3>3. ASSUME NEW d \in W PROVE f[d] \in Nat /\ h[d] = f[d] * k
      BY <1>1, <1>4, <3>1
    <3>4. trusted[a] = Total(f, W) * k
      BY <1>5, <3>1
    <3> HIDE DEF f, h, k
    <3>5. Total(h, W) = Total(f, W) * k
      BY ZenonT(60), <1>1, <3>2, <3>3, TotalTimes
    <3> QED BY <3>4, <3>5 DEF h
  <2> QED BY <1>1, <1>6, <2>1, <2>2, TotalTwice
<1>9. DigestTerm(t, c, days).term = t[1] /\ DigestTerm(t, c, days).category = t[2] /\ DigestTerm(t, c, days).count = Total(counts, W) /\ DigestTerm(t, c, days).weight = Total(weights, W)
  BY DEF DigestTerm, counts, weights, W
<1>10. SightedTerm(t, c, days) = [term |-> t[1], category |-> t[2], count |-> Total(times, S), weight |-> Total(trusted, S)]
  BY DEF SightedTerm, times, trusted, W, S
<1> QED BY <1>7, <1>8, <1>9, <1>10 DEF ViewOf

LEMMA SightedIs == ASSUME NEW c, NEW days PROVE Sighted(c, days) = {y \in {SightedTerm(t, c, days) : t \in Topics} : y.count >= 1}
  BY DEF Sighted, SightedTerm, Tellers

\* The digest of a country and what was sighted of it are one, term by term.
LEMMA DigestIsSighted ==
  ASSUME TrendsTypeInv, TalliesInv, NEW days \in 1 .. Retention, NEW c \in Countries
  PROVE  /\ IsFiniteSet(Digest(c, days)) /\ Sighted(c, days) = {ViewOf(x) : x \in Digest(c, days)}
         /\ \A x, y \in Digest(c, days) : ViewOf(x) = ViewOf(y) => x = y
<1> DEFINE dig(t) == DigestTerm(t, c, days)
           g == [t \in Topics |-> dig(t)]
           R == {dig(t) : t \in Topics}
<1>1. IsFiniteSet(R)
  <2>1. g \in Surjection(Topics, R)
    BY DEF Surjection
  <2> HIDE DEF g, R
  <2> QED BY <2>1, TopicsFinite, FS_Surjection
<1>2. IsFiniteSet(Digest(c, days)) /\ Digest(c, days) \subseteq R
  BY <1>1, FS_Subset DEF Digest
<1>3. \A t \in Topics : ViewOf(dig(t)) = SightedTerm(t, c, days) /\ dig(t).count = SightedTerm(t, c, days).count /\ dig(t).term = t[1] /\ dig(t).category = t[2]
  <2> TAKE t \in Topics
  <2>1. ViewOf(dig(t)) = SightedTerm(t, c, days)
    BY WindowSums
  <2>2. dig(t).count = ViewOf(dig(t)).count
    BY DEF ViewOf
  <2>3. dig(t).term = t[1] /\ dig(t).category = t[2]
    BY DEF DigestTerm
  <2> QED BY <2>1, <2>2, <2>3
<1>4. \A x, y \in Digest(c, days) : ViewOf(x) = ViewOf(y) => x = y
  <2> SUFFICES ASSUME NEW x \in Digest(c, days), NEW y \in Digest(c, days), ViewOf(x) = ViewOf(y) PROVE x = y
    OBVIOUS
  <2>1. PICK t \in Topics : x = dig(t)
    BY DEF Digest
  <2>2. PICK u \in Topics : y = dig(u)
    BY DEF Digest
  <2>3. ViewOf(x).term = t[1] /\ ViewOf(y).term = u[1] /\ ViewOf(x).category = t[2] /\ ViewOf(y).category = u[2]
    BY <1>3, <2>1, <2>2 DEF ViewOf
  <2>4. t = u
    BY <2>3 DEF Topics
  <2> QED BY <2>1, <2>2, <2>4
<1>5. Digest(c, days) = {x \in {dig(t) : t \in Topics} : x.count >= 1}
  BY DEF Digest
<1> HIDE DEF dig
<1>6. Sighted(c, days) = {ViewOf(x) : x \in Digest(c, days)}
  BY <1>3, <1>5, SightedIs
<1> QED BY <1>2, <1>4, <1>6

LEMMA AsMany ==
  ASSUME NEW S, IsFiniteSet(S), \A x, y \in S : ViewOf(x) = ViewOf(y) => x = y
  PROVE  Cardinality({ViewOf(x) : x \in S}) = Cardinality(S)
<1> DEFINE T == {ViewOf(x) : x \in S}
           g == [x \in S |-> ViewOf(x)]
<1>1. g \in Bijection(S, T)
  <2>1. g \in [S -> T] /\ \A x, y \in S : g[x] = g[y] => x = y
    OBVIOUS
  <2>2. \A v \in T : \E x \in S : g[x] = v
    OBVIOUS
  <2> HIDE DEF g, T
  <2>3. g \in Injection(S, T)
    BY <2>1 DEF Injection, IsInjective
  <2>4. g \in Surjection(S, T)
    BY <2>1, <2>2 DEF Surjection
  <2> QED BY <2>3, <2>4 DEF Bijection
<1> HIDE DEF g, T
<1>2. Cardinality(T) = Cardinality(S)
  BY <1>1, FS_Bijection DEF ExistsBijection
<1> QED BY <1>2 DEF T

LEMMA DigestsInv ==
  ASSUME TrendsTypeInv, TalliesInv
  PROVE  DigestCountsSightings
<1> SUFFICES ASSUME NEW days \in 1 .. Retention
             PROVE  /\ \A failing \in SUBSET Countries :
                         {d.country : d \in AllDigests(days, failing)} = {c \in Countries \ failing : Sighted(c, days) # {}}
                    /\ \A c \in Countries : \A limit \in 1 .. Cardinality(Topics) : \A top \in TopDigests(c, days, limit) :
                         LET given == {[term |-> x.term, category |-> x.category, count |-> x.count, weight |-> x.weight] : x \in top}
                         IN  /\ given \subseteq Sighted(c, days)
                             /\ Cardinality(given) = Min({limit, Cardinality(Sighted(c, days))})
                             /\ \A x \in given, y \in Sighted(c, days) \ given : ~Heavier(y, x)
  BY DEF DigestCountsSightings
<1>1. \A c \in Countries : Sighted(c, days) # {} <=> Digest(c, days) # {}
  BY DigestIsSighted
<1>2. ASSUME NEW failing \in SUBSET Countries
      PROVE  {d.country : d \in AllDigests(days, failing)} = {c \in Countries \ failing : Digest(c, days) # {}}
  <2> DEFINE A == AllDigests(days, failing)
             C == {c \in Countries \ failing : Digest(c, days) # {}}
  <2>1. ASSUME NEW e \in A PROVE e.country \in C
    BY DEF AllDigests
  <2>2. ASSUME NEW c \in C PROVE \E e \in A : e.country = c
    <3> DEFINE e == [country |-> c, terms |-> Digest(c, days)]
    <3>1. e \in A
      BY DEF AllDigests
    <3>2. e.country = c
      OBVIOUS
    <3> QED BY <3>1, <3>2
  <2> HIDE DEF A, C
  <2>3. {d.country : d \in A} = C
    BY <2>1, <2>2
  <2> QED BY <2>3 DEF A, C
<1>3. ASSUME NEW c \in Countries, NEW limit \in 1 .. Cardinality(Topics), NEW top \in TopDigests(c, days, limit)
      PROVE  LET given == {[term |-> x.term, category |-> x.category, count |-> x.count, weight |-> x.weight] : x \in top}
             IN  /\ given \subseteq Sighted(c, days)
                 /\ Cardinality(given) = Min({limit, Cardinality(Sighted(c, days))})
                 /\ \A x \in given, y \in Sighted(c, days) \ given : ~Heavier(y, x)
  <2> DEFINE D == Digest(c, days)
             G == {ViewOf(x) : x \in top}
  <2>1. /\ IsFiniteSet(D) /\ Sighted(c, days) = {ViewOf(x) : x \in D}
        /\ \A x, y \in D : ViewOf(x) = ViewOf(y) => x = y
    BY DigestIsSighted
  <2>2. /\ top \subseteq D /\ Cardinality(top) = Min({limit, Cardinality(D)})
        /\ \A x \in top, y \in D \ top : ~Heavier(y, x)
    BY DEF TopDigests, kSubset
  <2> HIDE DEF D
  <2>3. IsFiniteSet(top) /\ \A x, y \in top : ViewOf(x) = ViewOf(y) => x = y
    BY <2>1, <2>2, FS_Subset
  <2>4. Cardinality(Sighted(c, days)) = Cardinality(D)
    BY <2>1, AsMany
  <2>5. Cardinality(G) = Cardinality(top)
    BY <2>3, AsMany
  <2>6. G \subseteq Sighted(c, days)
    BY <2>1, <2>2
  <2>7. Cardinality(G) = Min({limit, Cardinality(Sighted(c, days))})
    BY <2>2, <2>4, <2>5
  <2>8. ASSUME NEW x \in G, NEW y \in Sighted(c, days) \ G PROVE ~Heavier(y, x)
    <3>1. PICK u \in top : x = ViewOf(u)
      OBVIOUS
    <3>2. PICK v \in D : y = ViewOf(v)
      BY <2>1
    <3>3. v \notin top
      BY <3>2
    <3>4. ~Heavier(v, u)
      BY <2>2, <3>2, <3>3
    <3>5. x.weight = u.weight /\ x.count = u.count /\ y.weight = v.weight /\ y.count = v.count
      BY <3>1, <3>2 DEF ViewOf
    <3> QED BY <3>4, <3>5 DEF Heavier
  <2>9. {[term |-> x.term, category |-> x.category, count |-> x.count, weight |-> x.weight] : x \in top} = G
    BY DEF ViewOf
  <2> HIDE DEF G
  <2> QED BY <2>6, <2>7, <2>8, <2>9
<1> QED BY <1>1, <1>2, <1>3

\* Digests are counts of sightings: a digest of a window that retention covers gives every
\* recorded sighting of the window once, weighed by its source, and its limit leaves out the
\* lightest terms, whatever number of alerts, terms and days, and whichever sweeps failed.
THEOREM DigestsCount == TrendsSpec => []DigestCountsSightings
<1>1. TrendsInit => TrendsTypeInv /\ TalliesInv
  BY TrendsStart
<1>2. TrendsTypeInv /\ TalliesInv /\ [TrendsNext]_trendVars => (TrendsTypeInv /\ TalliesInv)'
  BY TrendsTypes, TalliesStep
<1>3. TrendsTypeInv /\ TalliesInv => DigestCountsSightings
  BY DigestsInv
<1> QED BY <1>1, <1>2, <1>3, PTL DEF TrendsSpec
=============================================================================
