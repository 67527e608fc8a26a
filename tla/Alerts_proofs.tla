----------------------------- MODULE Alerts_proofs -----------------------------
(***************************************************************************)
(* What is made of the alerts: the incidents of IncidentClusters and what     *)
(* IncidentOverview draws of them, the budgets of RateLimiter, and the search *)
(* of AlertSearch.                                                           *)
(***************************************************************************)
EXTENDS IncidentOverview, AlertSearch, RateLimiter, FiniteSetTheorems, TLAPS

LEMMA LeastOf ==
  ASSUME NEW T \in SUBSET Nat, T # {}
  PROVE  \E x \in T : \A y \in T : x <= y
<1> DEFINE R == OpToRel(<, Nat)
<1>1. IsWellFoundedOn(R, Nat)
  BY NatLessThanWellFounded
<1>2. \A x, y \in Nat : x < y => <<x, y>> \in R
  BY DEF OpToRel
<1> HIDE DEF R
<1>3. PICK x \in T : \A y \in T : ~(<<y, x>> \in R)
  BY <1>1, WFMin
<1>4. x \in Nat /\ \A y \in T : y \in Nat /\ ~(y < x)
  BY <1>2, <1>3
<1>5. \A y \in T : x <= y
  BY <1>4
<1> QED BY <1>5

LEMMA SetInduction ==
  ASSUME NEW S, 0 \in S, \A n \in Nat : n \in S => n + 1 \in S
  PROVE  Nat \subseteq S
<1> SUFFICES ASSUME Nat \ S # {} PROVE FALSE
  OBVIOUS
<1>1. PICK x \in Nat \ S : \A y \in Nat \ S : x <= y
  BY LeastOf
<1>2. x # 0 /\ x - 1 \in Nat /\ x - 1 \in S
  BY <1>1
<1> QED BY <1>1, <1>2

-----------------------------------------------------------------------------
\* A pointer of the union-find forest leads to an alert that is not greater.
Forests == {p \in [Alerts -> Alerts] : \A x \in Alerts : p[x] <= x}

\* A set that no tree of a forest crosses.
Saturated(p, S) == \A x \in Alerts : x \in S <=> p[x] \in S

LEMMA Numbers == Alerts \subseteq Nat
  BY IncidentsTyped

LEMMA ForestInduction ==
  ASSUME NEW p \in Forests, NEW S, \A x \in Alerts : p[x] = x \/ p[x] \in S => x \in S
  PROVE  Alerts \subseteq S
<1> SUFFICES ASSUME Alerts \ S # {} PROVE FALSE
  OBVIOUS
<1>1. PICK x \in Alerts \ S : \A y \in Alerts \ S : x <= y
  BY LeastOf, Numbers
<1>2. p[x] # x /\ p[x] \in Alerts /\ p[x] <= x /\ p[x] \notin S
  BY <1>1 DEF Forests
<1>3. x \in Nat /\ p[x] \in Nat /\ x <= p[x]
  BY <1>1, <1>2, Numbers
<1> QED BY <1>2, <1>3

\* The recursive function of Way exists: the alerts that are in every set that holds the first and
\* is closed under the pointers.
LEMMA WayIs ==
  ASSUME NEW p \in Forests
  PROVE  \A a \in Alerts : Way(p, a) = IF p[a] = a THEN {a} ELSE {a} \cup Way(p, p[a])
<1> DEFINE Step(w) == [x \in Alerts |-> IF p[x] = x THEN {x} ELSE {x} \cup w[p[x]]]
           some == CHOOSE w : w = Step(w)
           Closed(x) == {S \in SUBSET Alerts : x \in S /\ \A z \in S : p[z] \in S}
           W == [x \in Alerts |-> {y \in Alerts : \A S \in Closed(x) : y \in S}]
<1>p. \A x \in Alerts : p[x] \in Alerts
  BY DEF Forests
<1>1. \A a : Way(p, a) = some[a]
  BY DEF Way
<1>2. ASSUME NEW x \in Alerts PROVE W[x] = Step(W)[x]
  <2>1. CASE p[x] = x
    <3>1. {x} \in Closed(x)
      BY <2>1
    <3> QED BY <2>1, <3>1
  <2>2. CASE p[x] # x
    <3> DEFINE V == {x} \cup W[p[x]]
    <3>1. Closed(x) \subseteq Closed(p[x])
      OBVIOUS
    <3>2. V \subseteq W[x]
      BY <1>p, <3>1
    <3>3. \A z \in W[p[x]] : p[z] \in W[p[x]]
      BY <1>p
    <3>4. p[x] \in W[p[x]]
      BY <1>p
    <3>5. V \in Closed(x)
      BY <1>p, <3>3, <3>4
    <3>6. W[x] \subseteq V
      BY <3>5
    <3>7. Step(W)[x] = V
      BY <2>2
    <3> HIDE DEF V, W, Step
    <3> QED BY ONLY <3>2, <3>6, <3>7
  <2> QED BY <2>1, <2>2
<1>3. W = Step(W)
  <2> HIDE DEF Closed
  <2> QED BY SMTT(60), <1>2
<1> HIDE DEF W
<1>4. some = Step(some)
  <2> HIDE DEF Step
  <2> QED BY <1>3
<1> HIDE DEF some
<1>5. \A a \in Alerts : some[a] = IF p[a] = a THEN {a} ELSE {a} \cup some[p[a]]
  BY <1>4
<1> QED BY <1>1, <1>5

\* On the way from an alert there is one root.
LEMMA RootIs ==
  ASSUME NEW p \in Forests
  PROVE  \A a \in Alerts : /\ Way(p, a) \subseteq Alerts /\ a \in Way(p, a)
                           /\ Root(p, a) \in Way(p, a) /\ p[Root(p, a)] = Root(p, a)
                           /\ Root(p, a) = IF p[a] = a THEN a ELSE Root(p, p[a])
<1> DEFINE Only(a) == \E r \in Way(p, a) : p[r] = r /\ \A s \in Way(p, a) : p[s] = s => s = r
           T == {a \in Alerts : Way(p, a) \subseteq Alerts /\ Only(a)}
<1>p. \A x \in Alerts : p[x] \in Alerts
  BY DEF Forests
<1>1. ASSUME NEW x \in Alerts, p[x] = x \/ p[x] \in T PROVE x \in T
  <2>1. CASE p[x] = x
    BY <2>1, WayIs
  <2>2. CASE p[x] # x
    BY <1>1, <2>2, WayIs
  <2> QED BY <2>1, <2>2
<1>2. \A a \in Alerts : a \in T
  <2> HIDE DEF T
  <2> QED BY <1>1, ForestInduction
<1>3. \A a \in Alerts : Root(p, a) \in Way(p, a) /\ p[Root(p, a)] = Root(p, a)
  BY <1>2 DEF Root
<1>4. ASSUME NEW a \in Alerts PROVE Root(p, a) = IF p[a] = a THEN a ELSE Root(p, p[a])
  <2>1. CASE p[a] = a
    BY <1>3, <2>1, WayIs
  <2>2. CASE p[a] # a
    <3>1. Root(p, p[a]) \in Way(p, a)
      BY <1>p, <1>3, <2>2, WayIs
    <3> QED BY <1>p, <1>2, <1>3, <2>2, <3>1
  <2> QED BY <2>1, <2>2
<1>5. \A a \in Alerts : a \in Way(p, a)
  BY WayIs
<1> QED BY <1>2, <1>3, <1>4, <1>5

LEMMA RootFacts ==
  ASSUME NEW p \in Forests
  PROVE  /\ \A x \in Alerts : Root(p, x) \in Alerts /\ Root(p, x) <= x /\ p[Root(p, x)] = Root(p, x)
         /\ \A x \in Alerts : Root(p, p[x]) = Root(p, x)
         /\ \A x \in Alerts : p[x] = x <=> Root(p, x) = x
         /\ \A x \in Alerts : Root(p, Root(p, x)) = Root(p, x)
         /\ \A a \in Alerts : \A x \in Way(p, a) : Root(p, x) = Root(p, a)
         /\ \A S : Saturated(p, S) => \A x \in Alerts : x \in S <=> Root(p, x) \in S
<1>p. \A x \in Alerts : p[x] \in Alerts /\ p[x] <= x
  BY DEF Forests
<1>r. \A a \in Alerts : /\ Root(p, a) \in Alerts /\ p[Root(p, a)] = Root(p, a)
                        /\ Root(p, a) = IF p[a] = a THEN a ELSE Root(p, p[a])
  BY RootIs
<1>1. \A x \in Alerts : Root(p, x) <= x
  <2> DEFINE T == {x \in Alerts : Root(p, x) <= x}
  <2>1. \A x \in Alerts : p[x] = x \/ p[x] \in T => x \in T
    <3> SUFFICES ASSUME NEW x \in Alerts, p[x] = x \/ Root(p, p[x]) <= p[x] PROVE Root(p, x) <= x
      BY <1>p
    <3>1. {x, p[x], Root(p, x), Root(p, p[x])} \subseteq Nat
      BY <1>p, <1>r, Numbers
    <3> QED BY <1>p, <1>r, <3>1
  <2> HIDE DEF T
  <2>2. Alerts \subseteq T
    BY <2>1, ForestInduction
  <2> QED BY <2>2 DEF T
<1>2. \A x \in Alerts : Root(p, p[x]) = Root(p, x)
  BY <1>p, <1>r
<1>3. \A x \in Alerts : p[x] = x <=> Root(p, x) = x
  BY <1>r
<1>4. \A x \in Alerts : Root(p, Root(p, x)) = Root(p, x)
  BY <1>r
<1>5. ASSUME NEW a \in Alerts, NEW x \in Way(p, a) PROVE Root(p, x) = Root(p, a)
  <2> DEFINE T == {y \in Alerts : \A z \in Way(p, y) : Root(p, z) = Root(p, y)}
  <2>1. \A y \in Alerts : p[y] = y \/ p[y] \in T => y \in T
    BY <1>p, <1>2, WayIs
  <2> HIDE DEF T
  <2>2. Alerts \subseteq T
    BY <2>1, ForestInduction
  <2> QED BY <1>5, <2>2 DEF T
<1>6. ASSUME NEW S, Saturated(p, S), NEW x \in Alerts PROVE x \in S <=> Root(p, x) \in S
  <2> DEFINE T == {y \in Alerts : y \in S <=> Root(p, y) \in S}
  <2>1. \A y \in Alerts : p[y] = y \/ p[y] \in T => y \in T
    BY <1>6, <1>r, <1>p DEF Saturated
  <2> HIDE DEF T
  <2>2. Alerts \subseteq T
    BY <2>1, ForestInduction
  <2> QED BY <2>2 DEF T
<1> HIDE DEF Forests
<1> QED BY <1>r, <1>1, <1>2, <1>3, <1>4, <1>5, <1>6

\* Pointing the whole way to the root changes no tree.
LEMMA FoundKeeps ==
  ASSUME NEW p \in Forests, NEW a \in Alerts
  PROVE  /\ Found(p, a) \in Forests
         /\ \A x \in Alerts : Root(Found(p, a), x) = Root(p, x)
         /\ \A S : Saturated(p, S) => Saturated(Found(p, a), S)
<1> DEFINE q == Found(p, a)
<1>p. \A x \in Alerts : p[x] \in Alerts /\ p[x] <= x
  BY DEF Forests
<1>1. q \in [Alerts -> Alerts] /\ \A x \in Alerts : q[x] \in {p[x], Root(p, x)}
  BY <1>p, RootFacts DEF Found
<1>2. q \in Forests
  <2>1. ASSUME NEW x \in Alerts PROVE q[x] <= x
    <3>1. CASE q[x] = p[x]
      BY <1>p, <3>1
    <3>2. CASE q[x] = Root(p, x)
      BY <3>2, RootFacts
    <3> QED BY <1>1, <3>1, <3>2
  <2> HIDE DEF q
  <2> QED BY <1>1, <2>1 DEF Forests
<1>3. \A x \in Alerts : q[x] = x <=> p[x] = x
  BY <1>1, RootFacts, <1>p DEF Found
<1> HIDE DEF q
<1>4. ASSUME NEW x \in Alerts PROVE Root(q, x) = Root(p, x)
  <2> DEFINE T == {y \in Alerts : Root(q, y) = Root(p, y)}
  <2>1. ASSUME NEW y \in Alerts, q[y] = y \/ q[y] \in T PROVE y \in T
    <3>1. CASE q[y] = y
      BY <1>2, <1>3, <3>1, RootFacts
    <3>2. CASE q[y] # y
      <4>1. Root(q, q[y]) = Root(p, q[y]) /\ Root(q, y) = Root(q, q[y])
        BY <1>2, <2>1, <3>2, RootFacts
      <4>2. Root(p, q[y]) = Root(p, y)
        BY <1>1, RootFacts
      <4> QED BY <4>1, <4>2
    <3> QED BY <3>1, <3>2
  <2> HIDE DEF T
  <2>2. Alerts \subseteq T
    BY <1>2, <2>1, ForestInduction
  <2> QED BY <2>2 DEF T
<1>5. ASSUME NEW S, Saturated(p, S) PROVE Saturated(q, S)
  <2>1. \A x \in Alerts : x \in S <=> Root(p, x) \in S
    BY <1>5, RootFacts
  <2> QED BY <1>1, <1>5, <2>1 DEF Saturated
<1> QED BY <1>2, <1>4, <1>5 DEF q

\* Pointing a root to a smaller one joins their trees.
LEMMA RootsJoined ==
  ASSUME NEW q \in Forests, NEW c \in Alerts, NEW d \in Alerts, c < d, q[c] = c, q[d] = d,
         NEW u \in [Alerts -> Alerts], u[d] = c, \A x \in Alerts : x # d => u[x] = q[x]
  PROVE  /\ u \in Forests
         /\ \A x \in Alerts : Root(u, x) = IF Root(q, x) = d THEN c ELSE Root(q, x)
         /\ \A S : Saturated(q, S) /\ (c \in S <=> d \in S) => Saturated(u, S)
<1>p. q \in [Alerts -> Alerts] /\ \A x \in Alerts : q[x] \in Alerts /\ q[x] <= x
  BY DEF Forests
<1>n. c \in Nat /\ d \in Nat
  BY Numbers
<1>1. u \in [Alerts -> Alerts] /\ u[d] = c /\ \A x \in Alerts : x # d => u[x] = q[x]
  OBVIOUS
<1>2. u \in Forests
  BY <1>1, <1>p, <1>n DEF Forests
<1>3. \A S : Saturated(q, S) /\ (c \in S <=> d \in S) => Saturated(u, S)
  BY <1>1 DEF Saturated
<1>4. ASSUME NEW x \in Alerts PROVE Root(u, x) = IF Root(q, x) = d THEN c ELSE Root(q, x)
  <2> DEFINE T == {y \in Alerts : Root(u, y) = IF Root(q, y) = d THEN c ELSE Root(q, y)}
  <2>c. Root(u, c) = c /\ Root(q, d) = d
    BY <1>1, <1>2, <1>n, RootFacts
  <2>1. ASSUME NEW y \in Alerts, u[y] = y \/ u[y] \in T PROVE y \in T
    <3>1. CASE y = d
      BY <1>1, <1>2, <2>c, <3>1, RootFacts
    <3>2. CASE y # d /\ q[y] = y
      <4>1. u[y] = y
        BY <1>1, <3>2
      <4>2. Root(u, y) = y
        BY ONLY <1>2, <4>1, y \in Alerts, RootFacts
      <4>3. Root(q, y) = y
        BY ONLY <3>2, q \in Forests, y \in Alerts, RootFacts
      <4> QED BY <3>2, <4>2, <4>3
    <3>3. CASE y # d /\ q[y] # y
      <4>1. u[y] = q[y] /\ u[y] # y
        BY <1>1, <3>3
      <4>2. Root(u, y) = Root(u, u[y])
        BY ONLY <1>2, y \in Alerts, RootFacts
      <4>4. Root(q, y) = Root(q, q[y])
        BY ONLY q \in Forests, y \in Alerts, RootFacts
      <4>3. Root(u, u[y]) = IF Root(q, u[y]) = d THEN c ELSE Root(q, u[y])
        BY <2>1, <4>1
      <4> QED BY <4>1, <4>2, <4>3, <4>4
    <3> QED BY <3>1, <3>2, <3>3
  <2> HIDE DEF T
  <2>2. Alerts \subseteq T
    BY <1>2, <2>1, ForestInduction
  <2> QED BY <2>2 DEF T
<1> QED BY <1>2, <1>3, <1>4

\* Union joins the trees of two alerts and no others.
LEMMA UnionJoins ==
  ASSUME NEW p \in Forests, NEW a \in Alerts, NEW b \in Alerts
  PROVE  /\ Union(p, a, b) \in Forests
         /\ Root(Union(p, a, b), a) = Root(Union(p, a, b), b)
         /\ \A x, y \in Alerts : Root(p, x) = Root(p, y) => Root(Union(p, a, b), x) = Root(Union(p, a, b), y)
         /\ \A S : Saturated(p, S) /\ (a \in S <=> b \in S) => Saturated(Union(p, a, b), S)
<1> DEFINE q  == Found(Found(p, a), b)
           ra == Root(p, a)
           rb == Root(p, b)
           u  == Union(p, a, b)
<1> SUFFICES /\ u \in Forests /\ Root(u, a) = Root(u, b)
             /\ \A x, y \in Alerts : Root(p, x) = Root(p, y) => Root(u, x) = Root(u, y)
             /\ \A S : Saturated(p, S) /\ (a \in S <=> b \in S) => Saturated(u, S)
  OBVIOUS
<1>1. /\ q \in Forests /\ \A x \in Alerts : Root(q, x) = Root(p, x)
      /\ \A S : Saturated(p, S) => Saturated(q, S)
  BY FoundKeeps
<1>2. u = IF ra < rb THEN [q EXCEPT ![rb] = ra] ELSE IF rb < ra THEN [q EXCEPT ![ra] = rb] ELSE q
  BY DEF Union
<1> HIDE DEF q, u
<1>3. ra \in Alerts /\ rb \in Alerts /\ q[ra] = ra /\ q[rb] = rb /\ ra \in Nat /\ rb \in Nat
  <2>1. ra \in Alerts /\ rb \in Alerts /\ Root(p, ra) = ra /\ Root(p, rb) = rb
    BY RootFacts
  <2> HIDE DEF ra, rb
  <2>2. Root(q, ra) = ra /\ Root(q, rb) = rb
    BY <1>1, <2>1
  <2> QED BY <1>1, <2>1, <2>2, RootFacts, Numbers
<1>4. \A S : Saturated(p, S) /\ (a \in S <=> b \in S) => (ra \in S <=> rb \in S)
  BY RootFacts
<1> HIDE DEF ra, rb
<1>q. q \in [Alerts -> Alerts]
  BY <1>1 DEF Forests
<1>5. CASE ra < rb
  <2>0. u \in [Alerts -> Alerts] /\ u[rb] = ra /\ \A x \in Alerts : x # rb => u[x] = q[x]
    BY <1>q, <1>2, <1>3, <1>5
  <2>1. /\ u \in Forests
        /\ \A x \in Alerts : Root(u, x) = IF Root(q, x) = rb THEN ra ELSE Root(q, x)
        /\ \A S : Saturated(q, S) /\ (ra \in S <=> rb \in S) => Saturated(u, S)
    BY <1>1, <1>3, <1>5, <2>0, RootsJoined
  <2> QED BY <1>1, <1>4, <2>1 DEF ra, rb
<1>6. CASE rb < ra
  <2>0. u \in [Alerts -> Alerts] /\ u[ra] = rb /\ \A x \in Alerts : x # ra => u[x] = q[x]
    BY <1>q, <1>2, <1>3, <1>6
  <2>1. /\ u \in Forests
        /\ \A x \in Alerts : Root(u, x) = IF Root(q, x) = ra THEN rb ELSE Root(q, x)
        /\ \A S : Saturated(q, S) /\ (rb \in S <=> ra \in S) => Saturated(u, S)
    BY <1>1, <1>3, <1>6, <2>0, RootsJoined
  <2> QED BY <1>1, <1>4, <2>1 DEF ra, rb
<1>7. CASE ra = rb
  <2>1. u = q
    BY <1>2, <1>3, <1>7
  <2> QED BY <1>1, <1>7, <2>1 DEF ra, rb
<1> QED BY <1>3, <1>5, <1>6, <1>7
-----------------------------------------------------------------------------
\* A function that begins with a and goes on by G.
Iterates(f, n, a, G) == f[0] = a /\ \A k \in 1 .. n : f[k] = G[f[k - 1]]

LEMMA Iteration ==
  ASSUME NEW S, NEW a \in S, NEW G \in [S -> S], NEW L \in Nat
  PROVE  \E f \in [0 .. L -> S] : Iterates(f, L, a, G)
<1> DEFINE Run(f, n) == Iterates(f, n, a, G)
           T == {n \in Nat : \E f \in [0 .. n -> S] : Run(f, n)}
<1> USE DEF Iterates
<1>1. 0 \in T
  <2> DEFINE f == [k \in 0 .. 0 |-> a]
  <2>1. f \in [0 .. 0 -> S] /\ Run(f, 0)
    OBVIOUS
  <2> QED BY <2>1
<1>2. ASSUME NEW n \in Nat, n \in T PROVE n + 1 \in T
  <2>1. PICK f \in [0 .. n -> S] : Run(f, n)
    BY <1>2
  <2> DEFINE g == [k \in 0 .. n + 1 |-> IF k <= n THEN f[k] ELSE G[f[n]]]
  <2>2. g \in [0 .. n + 1 -> S] /\ g[0] = a
    BY <2>1
  <2>3. \A k \in 1 .. n + 1 : g[k] = G[g[k - 1]]
    <3> TAKE k \in 1 .. n + 1
    <3>1. CASE k <= n
      <4>1. k \in 1 .. n /\ k - 1 \in 0 .. n /\ k \in 0 .. n + 1 /\ k - 1 \in 0 .. n + 1 /\ k - 1 <= n
        BY ONLY <3>1, n \in Nat, k \in 1 .. n + 1
      <4>2. g[k] = f[k] /\ g[k - 1] = f[k - 1]
        BY <3>1, <4>1
      <4>3. f[k] = G[f[k - 1]]
        BY <2>1, <4>1
      <4> HIDE DEF g
      <4> QED BY ONLY Zenon, <4>2, <4>3
    <3>2. CASE k = n + 1
      <4>1. k \in 0 .. n + 1 /\ n \in 0 .. n + 1 /\ ~(k <= n) /\ n <= n /\ k - 1 = n
        BY ONLY <3>2, n \in Nat
      <4>2. g[k] = G[f[n]] /\ g[n] = f[n]
        BY <4>1
      <4> HIDE DEF g
      <4> QED BY ONLY Zenon, <3>2, <4>1, <4>2
    <3> QED BY <3>1, <3>2
  <2> HIDE DEF g
  <2> QED BY <2>2, <2>3
<1> HIDE DEF T
<1>3. L \in T
  BY <1>1, <1>2, SetInduction
<1> QED BY <1>3 DEF T

\* The reference of ClustersAreComponents.
Widened(U, wires, s) == s \cup {b \in U : \E a \in s : {a, b} \in wires}
ReachStep(U, wires, N, f) == [n \in 0 .. N |-> [a \in U |-> IF n = 0 THEN {a} ELSE Widened(U, wires, f[n - 1][a])]]
Reach(U, wires, N) == CHOOSE f : f = ReachStep(U, wires, N, f)

LEMMA ReachFixed ==
  ASSUME NEW U, NEW wires, NEW N \in Nat
  PROVE  Reach(U, wires, N) = ReachStep(U, wires, N, Reach(U, wires, N))
<1> DEFINE Maps == [U -> SUBSET U]
           first == [x \in U |-> {x}]
           Wide == [h \in Maps |-> [x \in U |-> Widened(U, wires, h[x])]]
<1>1. first \in Maps /\ Wide \in [Maps -> Maps]
  BY DEF Widened
<1>2. \A h \in Maps : Wide[h] = [x \in U |-> Widened(U, wires, h[x])]
  OBVIOUS
<1> HIDE DEF Maps, Wide
<1>3. \E f \in [0 .. N -> Maps] : Iterates(f, N, first, Wide)
  <2> HIDE DEF first
  <2> QED BY <1>1, Iteration
<1>4. PICK f \in [0 .. N -> Maps] : f[0] = first /\ \A k \in 1 .. N : f[k] = Wide[f[k - 1]]
  BY <1>3 DEF Iterates
<1>5. f = ReachStep(U, wires, N, f)
  <2>1. ASSUME NEW n \in 0 .. N PROVE f[n] = [x \in U |-> IF n = 0 THEN {x} ELSE Widened(U, wires, f[n - 1][x])]
    <3>1. CASE n = 0
      BY <1>4, <3>1
    <3>2. CASE n # 0
      <4>1. n \in 1 .. N /\ n - 1 \in 0 .. N
        BY <3>2
      <4>2. f[n - 1] \in Maps /\ f[n] = Wide[f[n - 1]]
        BY <1>4, <4>1
      <4> QED BY <1>2, <3>2, <4>2
    <3> QED BY <3>1, <3>2
  <2> HIDE DEF first
  <2> QED BY <1>4, <2>1 DEF ReachStep
<1> QED BY <1>5 DEF Reach

LEMMA ReachIs ==
  ASSUME NEW U, NEW wires, NEW N \in Nat
  PROVE  LET r == Reach(U, wires, N) IN
         \A a \in U : /\ r[0][a] = {a}
                      /\ \A n \in 1 .. N : r[n][a] = Widened(U, wires, r[n - 1][a])
                      /\ \A n \in 0 .. N : r[n][a] \subseteq U
<1> DEFINE r == Reach(U, wires, N)
<1>4. r = ReachStep(U, wires, N, r)
  BY ReachFixed
<1> HIDE DEF r
<1>5. \A n \in 0 .. N, a \in U : r[n][a] = IF n = 0 THEN {a} ELSE Widened(U, wires, r[n - 1][a])
  <2> TAKE n \in 0 .. N, a \in U
  <2>1. r[n] = [x \in U |-> IF n = 0 THEN {x} ELSE Widened(U, wires, r[n - 1][x])]
    BY <1>4 DEF ReachStep
  <2> QED BY <2>1, Zenon
<1>6. ASSUME NEW a \in U PROVE r[0][a] = {a} /\ \A n \in 1 .. N : r[n][a] = Widened(U, wires, r[n - 1][a])
  <2>1. 0 \in 0 .. N /\ \A n \in 1 .. N : n \in 0 .. N /\ n # 0
    OBVIOUS
  <2>2. r[0][a] = {a}
    BY <1>5, <2>1
  <2>3. \A n \in 1 .. N : r[n][a] = Widened(U, wires, r[n - 1][a])
    BY <1>5, <2>1
  <2> QED BY <2>2, <2>3
<1>7. ASSUME NEW a \in U PROVE \A n \in 0 .. N : r[n][a] \subseteq U
  <2> DEFINE T == {n \in Nat : n <= N => r[n][a] \subseteq U}
  <2>1. 0 \in T
    BY <1>6
  <2>2. ASSUME NEW n \in Nat, n \in T PROVE n + 1 \in T
    BY <1>6, <2>2 DEF Widened
  <2> HIDE DEF T
  <2>3. Nat \subseteq T
    BY <2>1, <2>2, SetInduction
  <2> QED BY <2>3 DEF T
<1> QED BY <1>6, <1>7 DEF r

\* Within as many steps as there are alerts nothing new can be reached any more.
LEMMA ReachCloses ==
  ASSUME NEW U, IsFiniteSet(U), NEW wires, NEW N \in Nat, Cardinality(U) <= N, NEW a \in U
  PROVE  LET C == Reach(U, wires, N)[N][a] IN
         /\ a \in C /\ C \subseteq U
         /\ \A x \in C, y \in U : {x, y} \in wires => y \in C
         /\ \A S : a \in S /\ (\A x \in S \cap U, y \in U : {x, y} \in wires => y \in S) => C \subseteq S
<1> DEFINE r == Reach(U, wires, N)
           Done(s) == Widened(U, wires, s) = s
<1>1. /\ r[0][a] = {a} /\ \A n \in 1 .. N : r[n][a] = Widened(U, wires, r[n - 1][a])
      /\ \A n \in 0 .. N : r[n][a] \subseteq U
  BY ReachIs
<1> HIDE DEF r
<1>2. \A n \in 0 .. N : IsFiniteSet(r[n][a]) /\ Cardinality(r[n][a]) \in Nat
  BY <1>1, FS_Subset, FS_CardinalityType
<1>3. N \in {n \in Nat : n <= N => a \in r[n][a] /\ (Done(r[n][a]) \/ Cardinality(r[n][a]) >= n + 1)}
  <2> DEFINE T == {n \in Nat : n <= N => a \in r[n][a] /\ (Done(r[n][a]) \/ Cardinality(r[n][a]) >= n + 1)}
  <2>1. 0 \in T
    <3>1. Cardinality(r[0][a]) = 1 /\ a \in r[0][a]
      BY <1>1, FS_Singleton
    <3> QED BY <3>1
  <2>2. ASSUME NEW n \in Nat, n \in T PROVE n + 1 \in T
    <3> SUFFICES ASSUME n + 1 <= N
                 PROVE  a \in r[n + 1][a] /\ (Done(r[n + 1][a]) \/ Cardinality(r[n + 1][a]) >= n + 2)
      OBVIOUS
    <3> DEFINE old == r[n][a]
               new == r[n + 1][a]
    <3>1. new = Widened(U, wires, old) /\ old \subseteq U /\ new \subseteq U /\ a \in old
      BY <1>1, <2>2
    <3>2. IsFiniteSet(new) /\ IsFiniteSet(old) /\ Cardinality(new) \in Nat /\ Cardinality(old) \in Nat
      BY <1>2
    <3>3. Done(old) \/ Cardinality(old) >= n + 1
      BY <2>2
    <3> HIDE DEF old, new
    <3>4. CASE Done(old)
      BY <3>1, <3>4 DEF old, new
    <3>5. CASE ~Done(old)
      <4>1. old \subseteq new /\ old # new
        BY <3>1, <3>5 DEF Widened
      <4>2. Cardinality(old) <= Cardinality(new) /\ Cardinality(old) # Cardinality(new)
        BY <3>2, <4>1, FS_Subset
      <4>3. Cardinality(new) >= n + 2
        BY <3>2, <3>3, <3>5, <4>2
      <4> QED BY <3>1, <4>1, <4>3 DEF new, old
    <3> QED BY <3>4, <3>5
  <2> HIDE DEF T
  <2>3. Nat \subseteq T
    BY <2>1, <2>2, SetInduction
  <2> QED BY <2>3 DEF T
<1>4. Done(r[N][a]) /\ a \in r[N][a]
  <2>1. Cardinality(r[N][a]) <= Cardinality(U) /\ Cardinality(U) \in Nat
    BY <1>1, FS_Subset, FS_CardinalityType
  <2>2. Cardinality(r[N][a]) \in Nat
    BY <1>2
  <2> QED BY <1>3, <2>1, <2>2
<1>5. ASSUME NEW S, a \in S, \A x \in S \cap U, y \in U : {x, y} \in wires => y \in S
      PROVE  r[N][a] \subseteq S
  <2> DEFINE T == {n \in Nat : n <= N => r[n][a] \subseteq S}
  <2>1. 0 \in T
    BY <1>1, <1>5
  <2>2. ASSUME NEW n \in Nat, n \in T PROVE n + 1 \in T
    <3> SUFFICES ASSUME n + 1 <= N PROVE r[n + 1][a] \subseteq S
      OBVIOUS
    <3>1. r[n + 1][a] = Widened(U, wires, r[n][a]) /\ r[n][a] \subseteq U /\ r[n][a] \subseteq S
      BY <1>1, <2>2
    <3> QED BY <1>5, <3>1 DEF Widened
  <2> HIDE DEF T
  <2>3. Nat \subseteq T
    BY <2>1, <2>2, SetInduction
  <2> QED BY <2>3 DEF T
<1>6. \A x \in r[N][a], y \in U : {x, y} \in wires => y \in r[N][a]
  BY <1>4 DEF Widened
<1> QED BY <1>1, <1>4, <1>5, <1>6 DEF r
-----------------------------------------------------------------------------
\* A set that holds both alerts of each pair or neither.
Respects(S, ts) == \A t \in ts : t[1] \in S <=> t[2] \in S

\* While the pairs are united: the alerts of those that have been are in one tree, and no
\* tree crosses a set that respects them.
ForestInv ==
    /\ parent \in Forests /\ active \subseteq Alerts
    /\ at # "rest" => /\ todo \subseteq Pairs
                      /\ \A t \in Pairs \ todo : Root(parent, t[1]) = Root(parent, t[2])
                      /\ \A S \in SUBSET Alerts : Respects(S, Pairs \ todo) => Saturated(parent, S)
    /\ at = "save" => todo = {}

LEMMA PairsUsable ==
  ASSUME active \subseteq Alerts
  PROVE  \A t \in Pairs : t[1] \in Usable /\ t[2] \in Usable
<1>1. \A t \in JaccardPairs : t[1] \in Usable /\ t[2] \in Usable
  <2> TAKE t \in JaccardPairs
  <2>1. PICK p \in Usable \X Usable : t = <<p[1], p[2], "jaccard", "">>
    BY DEF JaccardPairs
  <2>2. t[1] = p[1] /\ t[2] = p[2]
    BY <2>1
  <2> QED BY <2>2
<1>2. \A t \in CVEPairs : t[1] \in Usable /\ t[2] \in Usable
  BY DEF CVEPairs, BucketPairs
<1>3. \A t \in ActorPairs : t[1] \in Usable /\ t[2] \in Usable
  BY DEF ActorPairs, BucketPairs
<1>4. \A t \in CountryPairs : t[1] \in Usable /\ t[2] \in Usable
  BY DEF CountryPairs, BucketPairs
<1>5. \A t \in MalwarePairs : t[1] \in Usable /\ t[2] \in Usable
  BY DEF MalwarePairs, BucketPairs
<1>6. \A t \in SectorPairs : t[1] \in Usable /\ t[2] \in Usable
  BY DEF SectorPairs, BucketPairs
<1>7. \A t \in SanctionPairs : t[1] \in Usable /\ t[2] \in Usable
  BY DEF SanctionPairs, BucketPairs
<1> QED BY <1>1, <1>2, <1>3, <1>4, <1>5, <1>6, <1>7 DEF Pairs

LEMMA PairsStay ==
  ASSUME active' = active
  PROVE  Pairs' = Pairs
<1>0. Usable' = Usable
  BY DEF Usable
<1>1. JaccardPairs' = JaccardPairs
  BY <1>0 DEF JaccardPairs
<1>2. CVEPairs' = CVEPairs
  BY <1>0 DEF CVEPairs, BucketPairs
<1>3. ActorPairs' = ActorPairs
  BY <1>0 DEF ActorPairs, BucketPairs
<1>4. CountryPairs' = CountryPairs
  BY <1>0 DEF CountryPairs, BucketPairs
<1>5. MalwarePairs' = MalwarePairs
  BY <1>0 DEF MalwarePairs, BucketPairs
<1>6. SectorPairs' = SectorPairs
  BY <1>0 DEF SectorPairs, BucketPairs
<1>7. SanctionPairs' = SanctionPairs
  BY <1>0 DEF SanctionPairs, BucketPairs
<1> QED BY <1>1, <1>2, <1>3, <1>4, <1>5, <1>6, <1>7 DEF Pairs

\* The forest of single alerts.
LEMMA SingleTrees ==
  LET p == [a \in Alerts |-> a] IN p \in Forests /\ \A S : Saturated(p, S)
BY Numbers DEF Forests, Saturated

LEMMA ForestInit == OverviewInit => ForestInv
BY SingleTrees DEF OverviewInit, IncidentsInit, ForestInv

LEMMA ForestStep == ForestInv /\ [OverviewNext]_overviewVars => ForestInv'
<1> SUFFICES ASSUME ForestInv, [OverviewNext]_overviewVars PROVE ForestInv'
  OBVIOUS
<1>1. CASE SweepSaved
  <2>1. active' \subseteq Alerts /\ parent' = [a \in Alerts |-> a] /\ todo' = Pairs' /\ at' = "link"
    BY <1>1 DEF SweepSaved, Sweep, Forgotten
  <2> QED BY <2>1, SingleTrees DEF ForestInv
<1>2. CASE AddReason
  <2>1. PICK t \in todo : parent' = Union(parent, t[1], t[2]) /\ todo' = todo \ {t}
    BY <1>2 DEF AddReason
  <2>2. active' = active /\ at' = at /\ at = "link"
    BY <1>2 DEF AddReason
  <2>3. Pairs' = Pairs
    BY <2>2, PairsStay
  <2>4. t \in Pairs /\ t[1] \in Alerts /\ t[2] \in Alerts /\ \A p \in Pairs : p[1] \in Alerts /\ p[2] \in Alerts
    BY <2>1, <2>2, PairsUsable DEF ForestInv, Usable
  <2>5. /\ parent' \in Forests
        /\ Root(parent', t[1]) = Root(parent', t[2])
        /\ \A x, y \in Alerts : Root(parent, x) = Root(parent, y) => Root(parent', x) = Root(parent', y)
        /\ \A S : Saturated(parent, S) /\ (t[1] \in S <=> t[2] \in S) => Saturated(parent', S)
    <3> DEFINE q == Union(parent, t[1], t[2])
    <3>1. /\ q \in Forests /\ Root(q, t[1]) = Root(q, t[2])
          /\ \A x, y \in Alerts : Root(parent, x) = Root(parent, y) => Root(q, x) = Root(q, y)
          /\ \A S : Saturated(parent, S) /\ (t[1] \in S <=> t[2] \in S) => Saturated(q, S)
      BY <2>4, UnionJoins DEF ForestInv
    <3> HIDE DEF q
    <3>2. parent' = q
      BY <2>1 DEF q
    <3> QED BY <3>1, <3>2
  <2>6. Pairs \ todo' = (Pairs \ todo) \cup {t}
    BY <2>1, <2>4
  <2>7. ASSUME NEW p \in Pairs \ todo' PROVE Root(parent', p[1]) = Root(parent', p[2])
    BY <2>2, <2>4, <2>5, <2>6 DEF ForestInv
  <2>8. ASSUME NEW S \in SUBSET Alerts, Respects(S, Pairs \ todo') PROVE Saturated(parent', S)
    <3>1. Respects(S, Pairs \ todo) /\ (t[1] \in S <=> t[2] \in S)
      BY <2>6, <2>8 DEF Respects
    <3> QED BY <2>2, <2>5, <3>1 DEF ForestInv
  <2>9. todo' \subseteq Pairs
    BY <2>1, <2>2 DEF ForestInv
  <2> QED BY <2>2, <2>3, <2>5, <2>7, <2>8, <2>9 DEF ForestInv, Respects
<1>3. CASE Finalize
  <2>1. active' = active /\ parent' = parent /\ todo' = todo /\ todo = {} /\ at = "link" /\ at' = "save"
    BY <1>3 DEF Finalize
  <2>2. Pairs' = Pairs
    BY <2>1, PairsStay
  <2> QED BY <2>1, <2>2 DEF ForestInv, Respects, Saturated
<1>4. CASE SaveIncidents \/ SaveFails
  <2>1. active' = active /\ parent' = [a \in Alerts |-> a] /\ at' = "rest"
    BY <1>4 DEF SaveIncidents, SaveFails, Forgotten
  <2> QED BY <2>1, SingleTrees DEF ForestInv
<1>5. CASE UNCHANGED overviewVars
  <2>1. active' = active /\ parent' = parent /\ todo' = todo /\ at' = at
    BY <1>5 DEF overviewVars, incidentVars
  <2>2. Pairs' = Pairs
    BY <2>1, PairsStay
  <2> QED BY <2>1, <2>2 DEF ForestInv, Respects, Saturated
<1> QED BY <1>1, <1>2, <1>3, <1>4, <1>5 DEF OverviewNext, SaveLinked

LEMMA Components == ForestInv => ClustersAreComponents
<1> SUFFICES ASSUME ForestInv, at = "save" PROVE ClustersAreComponents
  BY DEF ClustersAreComponents
<1> DEFINE N == Cardinality(Alerts)
           wires == {{t[1], t[2]} : t \in Pairs}
           C(a) == Reach(Usable, wires, N)[N][a]
           root(a) == Root(parent, a)
<1>1. ClustersAreComponents <=> Groups = {C(a) : a \in Usable}
  BY DEF ClustersAreComponents, Reach, ReachStep, Widened
<1>2. /\ Usable \subseteq Alerts /\ IsFiniteSet(Usable) /\ N \in Nat /\ Cardinality(Usable) <= N
  <2>1. Usable \subseteq Alerts
    BY DEF ForestInv, Usable
  <2> QED BY <2>1, IncidentsTyped, FS_Subset, FS_CardinalityType
<1>3. ASSUME NEW a \in Usable
      PROVE  /\ a \in C(a) /\ C(a) \subseteq Usable
             /\ \A x \in C(a), y \in Usable : {x, y} \in wires => y \in C(a)
             /\ \A S : a \in S /\ (\A x \in S \cap Usable, y \in Usable : {x, y} \in wires => y \in S) => C(a) \subseteq S
  <2> HIDE DEF wires, N
  <2>1. IsFiniteSet(Usable) /\ N \in Nat /\ Cardinality(Usable) <= N
    BY <1>2
  <2> QED BY ONLY <2>1, ReachCloses, ZenonT(60)
<1> HIDE DEF C, N
<1>4. ASSUME NEW t \in Pairs PROVE t[1] \in Usable /\ t[2] \in Usable /\ root(t[1]) = root(t[2])
  BY PairsUsable DEF ForestInv
<1>5. ASSUME NEW a \in Usable PROVE C(a) = {b \in Usable : root(b) = root(a)}
  <2>1. C(a) \subseteq {b \in Usable : root(b) = root(a)}
    <3> DEFINE S == {b \in Usable : root(b) = root(a)}
    <3>1. \A x \in S \cap Usable, y \in Usable : {x, y} \in wires => y \in S
      <4> SUFFICES ASSUME NEW x \in S, NEW y \in Usable, NEW t \in Pairs, {x, y} = {t[1], t[2]} PROVE y \in S
        OBVIOUS
      <4>1. root(t[1]) = root(t[2])
        BY <1>4
      <4>2. (x = t[1] \/ x = t[2]) /\ (y = t[1] \/ y = t[2]) /\ root(x) = root(a)
        OBVIOUS
      <4>3. root(y) = root(a)
        BY <4>1, <4>2
      <4> QED BY <4>3
    <3> QED BY <1>3, <3>1
  <2>2. Saturated(parent, C(a))
    <3>1. C(a) \in SUBSET Alerts
      BY <1>2, <1>3
    <3>2. Respects(C(a), Pairs)
      <4> SUFFICES ASSUME NEW t \in Pairs PROVE t[1] \in C(a) <=> t[2] \in C(a)
        BY DEF Respects
      <4>1. {t[1], t[2]} \in wires /\ {t[2], t[1]} \in wires
        OBVIOUS
      <4> HIDE DEF wires
      <4> QED BY <1>3, <1>4, <4>1
    <3>3. Pairs \ todo = Pairs
      BY DEF ForestInv
    <3> QED BY <3>1, <3>2, <3>3 DEF ForestInv
  <2>3. ASSUME NEW b \in Usable, root(b) = root(a) PROVE b \in C(a)
    <3>1. \A x \in Alerts : x \in C(a) <=> root(x) \in C(a)
      BY <2>2, RootFacts DEF ForestInv
    <3> QED BY <1>2, <1>3, <2>3, <3>1
  <2> QED BY <2>1, <2>3
<1>6. Groups = {{a \in Usable : root(a) = r} : r \in {root(a) : a \in Usable}}
  BY DEF Groups
<1>7. Groups = {{b \in Usable : root(b) = root(a)} : a \in Usable}
  BY <1>6
<1>8. Groups = {C(a) : a \in Usable}
  BY <1>5, <1>7
<1> QED BY <1>1, <1>8

\* For every set of alerts and whatever is extracted from them: the trees of the union-find forest, with
\* paths compressed and pairs united in any order, are the connected
\* components when the incidents are saved.
THEOREM ComponentsFound == OverviewSpec => []ClustersAreComponents
<1>1. OverviewSpec => []ForestInv
  BY ForestInit, ForestStep, PTL DEF OverviewSpec
<1> QED BY <1>1, Components, PTL
-----------------------------------------------------------------------------
LEMMA FiniteInduction ==
  ASSUME NEW S, IsFiniteSet(S), NEW F, {} \in F, \A T \in SUBSET S, x \in S : T \in F => T \cup {x} \in F
  PROVE  S \in F
<1>1. PICK n \in Nat : ExistsBijection(1 .. n, S)
  BY FS_NatBijection
<1>2. PICK f \in [1 .. n -> S] : \A x \in S : \E i \in 1 .. n : f[i] = x
  BY <1>1 DEF ExistsBijection, Bijection, Surjection, Injection
<1> DEFINE T(m) == {f[i] : i \in 1 .. m}
           M == {m \in Nat : m <= n => T(m) \in F}
<1>3. 0 \in M
  <2>1. T(0) = {}
    OBVIOUS
  <2> HIDE DEF T
  <2> QED BY <2>1
<1>4. ASSUME NEW m \in Nat, m \in M PROVE m + 1 \in M
  <2> SUFFICES ASSUME m + 1 <= n PROVE T(m + 1) \in F
    OBVIOUS
  <2>1. T(m + 1) = T(m) \cup {f[m + 1]} /\ T(m) \in SUBSET S /\ f[m + 1] \in S
    OBVIOUS
  <2>2. T(m) \in F
    BY <1>4
  <2> HIDE DEF T
  <2> QED BY <2>1, <2>2
<1>5. n \in M
  <2> HIDE DEF M
  <2> QED BY <1>3, <1>4, SetInduction
<1>6. T(n) = S
  BY <1>2
<1>7. T(n) \in F
  <2> HIDE DEF T
  <2> QED BY <1>5
<1> HIDE DEF T
<1> QED BY <1>6, <1>7

\* What Primary takes the first by.
Better(a, b) == Facts[a].score > Facts[b].score \/ (Facts[a].score = Facts[b].score /\ Before(a, b))

\* Of a few alerts one is the best.
LEMMA PrimaryIn ==
  ASSUME NEW ms \in SUBSET Alerts, ms # {}
  PROVE  Primary(ms) \in ms
<1>1. IsFiniteSet(ms)
  BY IncidentsTyped, FS_Subset
<1>n. \A a \in Alerts : a \in Nat /\ Facts[a].score \in Nat /\ Facts[a].time \in Nat
  BY IncidentsTyped
<1>2. \A a, b \in Alerts : a = b \/ Better(a, b) \/ Better(b, a)
  BY <1>n DEF Better, Before
<1>3. \A a, b, c \in Alerts : Better(a, b) /\ Better(b, c) => Better(a, c)
  BY <1>n DEF Better, Before
<1> DEFINE F == {T \in SUBSET Alerts : T = {} \/ \E a \in T : \A b \in T \ {a} : Better(a, b)}
<1>4. ASSUME NEW T \in SUBSET ms, NEW x \in ms, T \in F PROVE T \cup {x} \in F
  <2>1. CASE T = {}
    BY <2>1
  <2>2. ASSUME NEW a \in T, \A b \in T \ {a} : Better(a, b) PROVE T \cup {x} \in F
    <3>1. CASE x = a \/ Better(a, x)
      BY <2>2, <3>1
    <3>2. CASE Better(x, a) /\ x # a
      BY <1>3, <2>2, <3>2
    <3> QED BY <1>2, <3>1, <3>2
  <2> QED BY <1>4, <2>1, <2>2
<1>5. ms \in F
  <2>1. {} \in F
    OBVIOUS
  <2> HIDE DEF F
  <2> QED BY <1>1, <1>4, <2>1, FiniteInduction
<1>6. \E a \in ms : \A b \in ms \ {a} : Better(a, b)
  BY <1>5
<1> QED BY <1>6 DEF Primary, Better

\* An alert has one row and one edition in force, and the latter is the row; an incident has its primary
\* alert among its members, which are in force as long as no alerts were saved since.
StoredInv == /\ active \subseteq rows /\ rows \subseteq Alerts /\ OneEdition(rows)
             /\ \A i \in incidents : i.primary \in i.members
             /\ linked => \A i \in incidents : i.members \subseteq active

LEMMA StoredInit == OverviewInit => StoredInv
BY DEF OverviewInit, IncidentsInit, StoredInv, OneEdition

LEMMA StoredStep == StoredInv /\ [OverviewNext]_overviewVars => StoredInv'
<1> SUFFICES ASSUME StoredInv, [OverviewNext]_overviewVars PROVE StoredInv'
  OBVIOUS
<1>1. CASE SweepSaved
  <2>1. /\ active' \subseteq Alerts /\ OneEdition(active') /\ incidents' = incidents /\ linked' = FALSE
    BY <1>1 DEF SweepSaved, Sweep
  <2>2. PICK kept \in {rows, {}} : rows' = active' \cup {r \in kept : \A a \in active' : AlertId(a) # AlertId(r)}
    BY <1>1 DEF SweepSaved
  <2>3. kept \subseteq Alerts /\ OneEdition(kept)
    BY DEF StoredInv, OneEdition
  <2>4. OneEdition(rows')
    <3> SUFFICES ASSUME NEW a \in rows', NEW b \in rows', AlertId(a) = AlertId(b) PROVE a = b
      BY DEF OneEdition
    <3>1. CASE a \in active' /\ b \in active'
      BY <2>1, <3>1 DEF OneEdition
    <3>2. CASE a \in kept /\ b \in kept
      BY <2>3, <3>2 DEF OneEdition
    <3>3. a \in active' \/ (a \in kept /\ \A x \in active' : AlertId(x) # AlertId(a))
      BY <2>2
    <3>4. b \in active' \/ (b \in kept /\ \A x \in active' : AlertId(x) # AlertId(b))
      BY <2>2
    <3> QED BY <3>1, <3>2, <3>3, <3>4
  <2>5. (OneEdition(rows))' <=> OneEdition(rows')
    BY DEF OneEdition, AlertId
  <2> QED BY <2>1, <2>2, <2>3, <2>4, <2>5 DEF StoredInv
<1>2. CASE (AddReason \/ Finalize \/ SaveFails) /\ UNCHANGED <<rows, linked>>
  BY <1>2 DEF AddReason, Finalize, SaveFails, StoredInv, OneEdition, AlertId
<1>3. CASE SaveLinked
  <2>1. ASSUME NEW ms \in Groups, Cardinality(ms) >= 2
        PROVE  Incident(ms).primary \in Incident(ms).members /\ Incident(ms).members \subseteq active
    <3>1. ms \in SUBSET active
      BY DEF Groups, Usable
    <3>2. ms # {}
      BY <2>1, FS_EmptySet
    <3>3. ms \in SUBSET Alerts
      BY <3>1 DEF StoredInv
    <3> QED BY <3>1, <3>2, <3>3, PrimaryIn DEF Incident
  <2>2. incidents' = Bundles /\ active' = active /\ rows' = rows
    BY <1>3 DEF SaveLinked, SaveIncidents
  <2>3. \A i \in Bundles : i.primary \in i.members /\ i.members \subseteq active
    BY <2>1 DEF Bundles
  <2> QED BY <2>2, <2>3 DEF StoredInv, OneEdition, AlertId
<1>4. CASE UNCHANGED overviewVars
  BY <1>4 DEF overviewVars, incidentVars, StoredInv, OneEdition, AlertId
<1> QED BY <1>1, <1>2, <1>3, <1>4 DEF OverviewNext

LEMMA Hangs == StoredInv => OverviewHangsTogether
<1> SUFFICES ASSUME StoredInv, linked, NEW i \in incidents PROVE HangsTogether(Overview(i), AlertId(i.primary))
  BY DEF OverviewHangsTogether
<1>1. i.primary \in i.members /\ i.members \subseteq rows /\ OneEdition(rows)
  BY DEF StoredInv
<1>2. Timeline(i) = i.members
  BY <1>1 DEF Timeline, OneEdition
<1>3. ASSUME NEW s \in Shared(i) PROVE \E r \in i.members : s \in Evidence(r)
  <2>1. CASE s \in UNION {{k} \X UNION {Facts[a][k] : a \in i.members} : k \in Kinds}
    <3>1. PICK k \in Kinds : s \in {k} \X UNION {Facts[a][k] : a \in i.members}
      BY <2>1
    <3>2. PICK a \in i.members : s \in {k} \X Facts[a][k]
      BY <3>1
    <3> QED BY <3>2 DEF Evidence
  <2>2. CASE s \in {"country"} \X CountriesOf(i.members)
    <3>1. PICK a \in i.members : s \in {"country"} \X Facts[a].country
      BY <2>2 DEF CountriesOf
    <3>2. Facts[a].country = Facts[a]["country"]
      OBVIOUS
    <3> QED BY <3>1, <3>2 DEF Evidence
  <2> QED BY <1>2, <2>1, <2>2 DEF Shared, Stored
<1>4. ASSUME NEW s \in Shared(i) PROVE \E e \in Overview(i).edges : e[2] = s
  <2>1. PICK r \in i.members : s \in Evidence(r)
    BY <1>3
  <2>2. <<r, s>> \in Links(i)
    BY <1>2, <2>1 DEF Links
  <2>3. <<AlertId(r), s>> \in {<<AlertId(l[1]), l[2]>> : l \in Links(i)}
    BY <2>2
  <2> QED BY <2>3 DEF Overview
<1>5. \A e \in Spokes(i) : {e[1], e[2]} \subseteq {AlertId(r) : r \in Timeline(i)}
  BY <1>1, <1>2 DEF Spokes
<1>6. \A a \in {AlertId(r) : r \in Timeline(i)} : a = AlertId(i.primary) \/ <<a, AlertId(i.primary)>> \in Spokes(i)
  BY DEF Spokes
<1> QED BY <1>4, <1>5, <1>6 DEF HangsTogether, Overview

\* However alerts are edited, leave force or lose their rows, and whichever saves of incidents failed: from a
\* save of the incidents until alerts are saved again every graph that the API draws hangs
\* together, whatever the alerts share.
THEOREM OverviewsHang == OverviewSpec => []OverviewHangsTogether
BY StoredInit, StoredStep, Hangs, PTL DEF OverviewSpec

-----------------------------------------------------------------------------
(* Budgets of clients                                                        *)

\* What a client has been served of a window, and what its bucket holds, together stay within
\* the budget; a client without a bucket would be given a full one, so it
\* must have been served no more than was refilled.
Room(c) == /\ c \in known => Refilled(c) + spent[c] <= Burst + (now - since[c])
           /\ c \notin known => spent[c] <= now - since[c]
LimiterInv == LimiterTypeOK /\ \A c \in Clients : Room(c)

LEMMA RefilledBounds ==
    ASSUME LimiterTypeOK, NEW c \in Clients
    PROVE  /\ Refilled(c) \in 0 .. Burst /\ tokens[c] <= Refilled(c)
           /\ Refilled(c) = tokens[c] + (now - last[c]) \/ Refilled(c) = Burst
BY LimiterTyped DEF LimiterTypeOK, Refilled

LEMMA HeldBounds ==
    ASSUME LimiterTypeOK, NEW c \in Clients
    PROVE  Held(c) \in 0 .. Burst
BY RefilledBounds, LimiterTyped DEF Held

LEMMA InitInv == LimiterInit => LimiterInv
BY LimiterTyped DEF LimiterInit, LimiterInv, LimiterTypeOK, Room

LEMMA TypeStep == LimiterTypeOK /\ [LimiterNext]_limiterVars => LimiterTypeOK'
<1> SUFFICES ASSUME LimiterTypeOK, [LimiterNext]_limiterVars PROVE LimiterTypeOK'
    OBVIOUS
<1> USE LimiterTyped
<1>1. CASE Tick
      BY <1>1 DEF Tick, LimiterTypeOK
<1>2. CASE Evict
      BY <1>2 DEF Evict, LimiterTypeOK
<1>3. ASSUME NEW c \in Clients, Allow(c) PROVE LimiterTypeOK'
  <2>1. Held(c) \in 0 .. Burst
        BY HeldBounds
  <2>2. tokens' \in [Clients -> 0 .. Burst] /\ spent' \in [Clients -> Nat] /\ refused' \in [Clients -> BOOLEAN]
    <3>1. CASE Serve(c)
          BY <2>1, <3>1 DEF Serve, LimiterTypeOK
    <3>2. CASE Refuse(c)
          BY <2>1, <3>2 DEF Refuse, LimiterTypeOK
    <3> QED BY <1>3, <3>1, <3>2 DEF Allow
  <2>3. now' = now /\ known' \subseteq Clients /\ since' = since
        BY <1>3 DEF Allow, LimiterTypeOK
  <2>4. last' \in [Clients -> 0 .. now]
        BY <1>3 DEF Allow, LimiterTypeOK
  <2> QED BY <2>2, <2>3, <2>4 DEF LimiterTypeOK
<1>4. ASSUME NEW c \in Clients, Mark(c) PROVE LimiterTypeOK'
      BY <1>4 DEF Mark, LimiterTypeOK
<1>5. CASE UNCHANGED limiterVars
      BY <1>5 DEF limiterVars, LimiterTypeOK
<1> QED BY <1>1, <1>2, <1>3, <1>4, <1>5 DEF LimiterNext

LEMMA RoomStep ==
    ASSUME LimiterInv, [LimiterNext]_limiterVars, NEW d \in Clients
    PROVE  Room(d)'
<1> USE LimiterTyped
<1>0. LimiterTypeOK /\ Room(d) /\ LimiterTypeOK'
      BY TypeStep DEF LimiterInv
<1>1. CASE Tick
      BY <1>0, <1>1 DEF Tick, Room, Refilled, LimiterTypeOK
<1>2. CASE Evict
  <2>1. CASE d \in known'
        BY <1>0, <1>2, <2>1 DEF Evict, Room, Refilled, LimiterTypeOK
  <2>2. CASE d \in known /\ d \notin known'
    \* A bucket that is evicted is full.
    <3>1. last[d] < now - Stale
          BY <1>2, <2>2 DEF Evict, Evictable
    <3>2. Refilled(d) = Burst
          BY <1>0, <3>1 DEF Refilled, LimiterTypeOK
    <3> QED BY <1>0, <1>2, <2>2, <3>2 DEF Evict, Room, LimiterTypeOK
  <2>3. CASE d \notin known
        BY <1>0, <1>2, <2>3 DEF Evict, Room, LimiterTypeOK
  <2> QED BY <2>1, <2>2, <2>3
<1>3. ASSUME NEW c \in Clients, Allow(c) PROVE Room(d)'
  <2>1. CASE d = c
    <3>1. Held(d) \in 0 .. Burst /\ Held(d) + spent[d] <= Burst + (now - since[d])
          BY <1>0, HeldBounds DEF Room, Held, LimiterTypeOK
    <3>2. d \in known' /\ last'[d] = now /\ now' = now /\ since' = since
          BY <1>0, <1>3, <2>1 DEF Allow, LimiterTypeOK
    <3>3. tokens'[d] + spent'[d] <= Burst + (now - since[d])
      <4>1. CASE Serve(c)
            BY <1>0, <2>1, <3>1, <4>1 DEF Serve, LimiterTypeOK
      <4>2. CASE Refuse(c)
            BY <1>0, <2>1, <3>1, <4>2 DEF Refuse, LimiterTypeOK
      <4> QED BY <1>3, <4>1, <4>2 DEF Allow
    <3>4. Refilled(d)' = tokens'[d]
          BY <1>0, <3>2 DEF Refilled, LimiterTypeOK
    <3> QED BY <3>2, <3>3, <3>4 DEF Room
  <2>2. CASE d # c
    <3>1. tokens'[d] = tokens[d] /\ spent'[d] = spent[d]
          BY <1>0, <1>3, <2>2 DEF Allow, Serve, Refuse, LimiterTypeOK
    <3>2. last'[d] = last[d] /\ now' = now /\ since' = since /\ (d \in known' <=> d \in known)
          BY <1>0, <1>3, <2>2 DEF Allow, LimiterTypeOK
    <3> QED BY <1>0, <3>1, <3>2 DEF Room, Refilled
  <2> QED BY <2>1, <2>2
<1>4. ASSUME NEW c \in Clients, Mark(c) PROVE Room(d)'
  <2>1. Refilled(d) \in 0 .. Burst /\ Refilled(d)' = Refilled(d)
        BY <1>0, <1>4, RefilledBounds DEF Mark, Refilled
  <2>2. CASE d = c
        BY <1>0, <1>4, <2>1, <2>2 DEF Mark, Room, LimiterTypeOK
  <2>3. CASE d # c
        BY <1>0, <1>4, <2>1, <2>3 DEF Mark, Room, LimiterTypeOK
  <2> QED BY <2>2, <2>3
<1>5. CASE UNCHANGED limiterVars
      BY <1>0, <1>5 DEF limiterVars, Room, Refilled
<1> QED BY <1>1, <1>2, <1>3, <1>4, <1>5 DEF LimiterNext

\* The buckets are what they should be, at every moment.
THEOREM LimiterTypeCorrect == LimiterSpec => []LimiterTypeOK
<1>1. LimiterInit => LimiterTypeOK
      BY InitInv DEF LimiterInv
<1> QED BY <1>1, TypeStep, PTL DEF LimiterSpec

LEMMA InvHolds == LimiterSpec => []LimiterInv
<1>1. LimiterInv /\ [LimiterNext]_limiterVars => LimiterInv'
      BY TypeStep, RoomStep DEF LimiterInv
<1> QED BY <1>1, InitInv, PTL DEF LimiterSpec

\* Every client, in every window: no more than a full bucket and the refill of the window.
THEOREM Budget == LimiterSpec => []BudgetHolds
<1>1. LimiterInv => BudgetHolds
  <2> SUFFICES ASSUME LimiterInv, NEW c \in Clients PROVE spent[c] <= Burst + (now - since[c])
      BY DEF BudgetHolds
  <2>1. LimiterTypeOK /\ Room(c)
        BY DEF LimiterInv
  <2>2. Refilled(c) \in 0 .. Burst
        BY <2>1, RefilledBounds
  <2> QED BY <2>1, <2>2, LimiterTyped DEF Room, LimiterTypeOK
<1> QED BY <1>1, InvHolds, PTL

\* Who comes back after Retry-After is served.
THEOREM Retry == LimiterSpec => RetryIsServed
<1>1. LimiterTypeOK /\ [LimiterNext]_limiterVars =>
        [\A c \in Clients : refused[c] /\ last'[c] = now /\ now >= last[c] + RetryAfter => ~refused'[c]]_limiterVars
  <2> SUFFICES ASSUME LimiterTypeOK, LimiterNext, NEW d \in Clients,
                      refused[d], last'[d] = now, now >= last[d] + RetryAfter
               PROVE  ~refused'[d]
      OBVIOUS
  <2> USE LimiterTyped
  <2>0. last'[d] # last[d]
        BY DEF LimiterTypeOK
  <2>1. Allow(d)
        BY <2>0 DEF LimiterNext, Tick, Evict, Mark, Allow, LimiterTypeOK
  <2>2. Held(d) >= Cost
        BY DEF Held, Refilled, LimiterTypeOK
  <2>3. Serve(d)
        BY <2>1, <2>2, HeldBounds DEF Allow, Refuse
  <2> QED BY <2>3 DEF Serve, LimiterTypeOK
<1> QED BY <1>1, LimiterTypeCorrect, PTL DEF LimiterSpec, RetryIsServed

-----------------------------------------------------------------------------
(* The search                                                                *)

\* In a strict order a finite set is ranked from 0 on, each rank once.
StrictOrder(K, R) == /\ \A a, b \in K : a # b => <<a, b>> \in R \/ <<b, a>> \in R
                     /\ \A a \in K : <<a, a>> \notin R
                     /\ \A a, b, c \in K : <<a, b>> \in R /\ <<b, c>> \in R => <<a, c>> \in R
Upper(K, R, a)    == {b \in K : <<b, a>> \in R}
RankedBy(K, R, rank) == \A a \in K : rank[a] = Cardinality(Upper(K, R, a))
Numbered(K, rank) == /\ \A a \in K : rank[a] \in 0 .. Cardinality(K) - 1
                     /\ \A a, b \in K : rank[a] = rank[b] => a = b
                     /\ \A n \in 0 .. Cardinality(K) - 1 : \E a \in K : rank[a] = n

LEMMA Ranks ==
  ASSUME NEW K, IsFiniteSet(K), NEW R, StrictOrder(K, R),
         NEW rank, RankedBy(K, R, rank)
  PROVE  Numbered(K, rank)
<1> DEFINE N == Cardinality(K)
<1>0. \A a \in K : rank[a] = Cardinality(Upper(K, R, a))
  BY DEF RankedBy
<1>1. N \in Nat
  BY FS_CardinalityType
<1>2. ASSUME NEW a \in K PROVE IsFiniteSet(Upper(K, R, a)) /\ rank[a] \in 0 .. N - 1
  <2>1. Upper(K, R, a) \subseteq K /\ a \notin Upper(K, R, a)
    BY DEF Upper, StrictOrder
  <2>2. IsFiniteSet(Upper(K, R, a)) /\ rank[a] \in Nat /\ rank[a] <= N /\ rank[a] # N
    BY <1>0, <2>1, FS_Subset, FS_CardinalityType
  <2> HIDE DEF N
  <2> QED BY <1>1, <2>2
<1>3. ASSUME NEW a \in K, NEW b \in K, <<a, b>> \in R PROVE rank[a] < rank[b]
  <2>1. Upper(K, R, a) \subseteq Upper(K, R, b) /\ Upper(K, R, a) # Upper(K, R, b)
    BY <1>3 DEF Upper, StrictOrder
  <2>2. rank[a] <= rank[b] /\ rank[a] # rank[b]
    BY <1>0, <1>2, <2>1, FS_Subset
  <2> HIDE DEF N
  <2> QED BY <1>1, <1>2, <2>2
<1>4. ASSUME NEW a \in K, NEW b \in K, rank[a] = rank[b] PROVE a = b
  <2>1. CASE a # b
    <3>1. <<a, b>> \in R \/ <<b, a>> \in R
      BY <2>1 DEF StrictOrder
    <3>2. rank[a] < rank[b] \/ rank[b] < rank[a]
      BY <1>3, <3>1
    <3> HIDE DEF N
    <3> QED BY <1>1, <1>2, <1>4, <3>2
  <2> QED BY <2>1
<1>5. ASSUME NEW n \in 0 .. N - 1 PROVE \E a \in K : rank[a] = n
  <2> DEFINE I == {rank[a] : a \in K}
             f == [a \in K |-> rank[a]]
  <2>1. I \subseteq 0 .. N - 1
    BY <1>2
  <2>2. f \in Injection(K, I)
    BY <1>4 DEF Injection, IsInjective
  <2>3. IsFiniteSet(0 .. N - 1) /\ Cardinality(0 .. N - 1) = N
    BY <1>1, FS_Interval
  <2>4. IsFiniteSet(I) /\ Cardinality(I) <= N
    BY <2>1, <2>3, FS_Subset
  <2> HIDE DEF I, f
  <2>5. Cardinality(K) <= Cardinality(I)
    BY <2>2, <2>4, FS_Injection
  <2>6. Cardinality(I) = N
    <3>1. Cardinality(I) \in Nat
      BY <2>4, FS_CardinalityType
    <3> QED BY <1>1, <2>4, <2>5, <3>1
  <2>7. I = 0 .. N - 1
    BY <2>1, <2>3, <2>6, FS_Subset
  <2> QED BY <2>7 DEF I
<1> HIDE DEF N
<1> QED BY <1>2, <1>4, <1>5 DEF N, Numbered

\* Of finitely many numbered ones one has the most.
LEMMA MostOf ==
  ASSUME NEW S, S \subseteq Nat, IsFiniteSet(S), S # {}, NEW f, \A x \in S : f[x] \in Int
  PROVE  \E x \in S : \A y \in S : f[x] >= f[y]
<1> DEFINE R == {p \in S \X S : f[p[1]] > f[p[2]] \/ (f[p[1]] = f[p[2]] /\ p[1] < p[2])}
           rank == [a \in S |-> Cardinality(Upper(S, R, a))]
<1>0. \A a, b \in S : <<a, b>> \in R <=> f[a] > f[b] \/ (f[a] = f[b] /\ a < b)
  OBVIOUS
<1>1. StrictOrder(S, R)
  <2> HIDE DEF R
  <2>1. \A a, b \in S : a # b => <<a, b>> \in R \/ <<b, a>> \in R
    BY <1>0
  <2>2. \A a \in S : <<a, a>> \notin R
    BY <1>0
  <2>3. \A a, b, c \in S : <<a, b>> \in R /\ <<b, c>> \in R => <<a, c>> \in R
    BY <1>0
  <2> QED BY <2>1, <2>2, <2>3 DEF StrictOrder
<1>2. Cardinality(S) \in Nat /\ Cardinality(S) # 0
  BY FS_CardinalityType, FS_EmptySet
<1>3. 0 \in 0 .. Cardinality(S) - 1
  BY <1>2
<1>4. /\ RankedBy(S, R, rank)
      /\ \A a \in S : rank[a] = Cardinality(Upper(S, R, a))
  BY DEF RankedBy
<1> HIDE DEF R, rank
<1>5. PICK x \in S : rank[x] = 0
  <2>1. Numbered(S, rank)
    BY <1>1, <1>4, Ranks
  <2> QED BY <1>3, <2>1 DEF Numbered
<1>6. Upper(S, R, x) = {}
  <2>1. IsFiniteSet(Upper(S, R, x))
    BY FS_Subset DEF Upper
  <2> QED BY <1>4, <1>5, <2>1, FS_EmptySet
<1>7. ASSUME NEW y \in S PROVE f[x] >= f[y]
  <2>1. <<y, x>> \notin R
    BY <1>6 DEF Upper
  <2> QED BY <1>0, <2>1
<1> QED BY <1>7

LEMMA MaxMin ==
  ASSUME NEW as \in SUBSET Items, as # {}
  PROVE  LET T == {Traits[b].rank : b \in as}
         IN  /\ Max(T) \in Int /\ \A a \in as : Traits[a].rank <= Max(T)
             /\ Min(T) \in Int /\ \A a \in as : Traits[a].rank >= Min(T)
<1> DEFINE T == {Traits[b].rank : b \in as}
           up == [a \in as |-> Traits[a].rank]
           down == [a \in as |-> 0 - Traits[a].rank]
<1>1. as \subseteq Nat /\ IsFiniteSet(as) /\ \A a \in as : Traits[a].rank \in Int
  BY SearchTyped, FS_Subset
<1>2. ASSUME NEW a \in as PROVE up[a] = Traits[a].rank /\ up[a] \in Int /\ down[a] = 0 - Traits[a].rank /\ down[a] \in Int
  <2>1. Traits[a].rank \in Int
    BY <1>1
  <2> HIDE DEF T
  <2> QED BY <2>1
<1>3. \E x \in as : \A y \in as : up[x] >= up[y]
  <2> HIDE DEF up
  <2> QED BY <1>1, <1>2, MostOf
<1>4. \E x \in as : \A y \in as : down[x] >= down[y]
  <2> HIDE DEF down
  <2> QED BY <1>1, <1>2, MostOf
<1>5. \E m \in T : \A n \in T : m >= n
  BY <1>1, <1>3
<1>6. \E m \in T : \A n \in T : m <= n
  <2>1. PICK x \in as : \A y \in as : down[x] >= down[y]
    BY <1>4
  <2>2. ASSUME NEW y \in as PROVE Traits[x].rank <= Traits[y].rank
    <3> HIDE DEF T, up, down
    <3>1. down[x] >= down[y] /\ down[x] = 0 - Traits[x].rank /\ down[y] = 0 - Traits[y].rank
      BY <1>2, <2>1
    <3>2. Traits[x].rank \in Int /\ Traits[y].rank \in Int
      BY <1>1
    <3> QED BY <3>1, <3>2
  <2> QED BY <2>2
<1>7. Max(T) \in T /\ \A n \in T : Max(T) >= n
  BY <1>5 DEF Max
<1>8. Min(T) \in T /\ \A n \in T : Min(T) <= n
  BY <1>6 DEF Min
<1>9. T \subseteq Int /\ \A a \in as : Traits[a].rank \in T
  BY <1>1
<1> HIDE DEF T
<1>10. /\ Max(T) \in Int /\ \A a \in as : Traits[a].rank <= Max(T)
       /\ Min(T) \in Int /\ \A a \in as : Traits[a].rank >= Min(T)
  BY <1>1, <1>7, <1>8, <1>9
<1> QED BY <1>10 DEF T

LEMMA ScoreTyped ==
  ASSUME NEW word, NEW as \in SUBSET Items, NEW a \in as
  PROVE  Score(word, as, a) \in Int
<1> DEFINE worst == Max({Traits[b].rank : b \in as})
           best  == Min({Traits[b].rank : b \in as})
           bm25  == IF worst = best THEN 100 ELSE (100 * (worst - Traits[a].rank)) \div (worst - best)
           relevance == IF Traits[a].triage = <<>> THEN 50 ELSE Traits[a].triage[1]
<1>1. worst \in Int /\ best \in Int /\ best <= Traits[a].rank /\ Traits[a].rank <= worst
  BY MaxMin
<1>2. Traits[a].rank \in Int /\ Traits[a].seen \in Nat /\ Traits[a].trust \in Nat
  BY SearchTyped
<1>3. bm25 \in Int
  <2> HIDE DEF worst, best
  <2>1. CASE worst # best
    <3>1. worst - best \in Int /\ worst - best > 0 /\ 100 * (worst - Traits[a].rank) \in Int
      BY <1>1, <1>2, <2>1
    <3>2. \A x, y \in Int : y > 0 => x \div y \in Int
      OBVIOUS
    <3> QED BY <2>1, <3>1, <3>2
  <2> QED BY <2>1
<1>4. relevance \in Int
  <2>1. Traits[a].triage = <<>> \/ \E n \in 0 .. 100 : Traits[a].triage = <<n>>
    BY SearchTyped
  <2>2. CASE Traits[a].triage = <<>>
    BY <2>2
  <2>3. CASE Traits[a].triage # <<>>
    <3>1. PICK n \in 0 .. 100 : Traits[a].triage = <<n>>
      BY <2>1, <2>3
    <3>2. relevance = n
      <4>1. Traits[a].triage[1] = n
        BY <3>1
      <4> QED BY <2>3, <4>1
    <3> QED BY <3>2
  <2> QED BY <2>2, <2>3
<1>5. Score(word, as, a) = IF word = NoWord THEN 45 * Traits[a].seen + 35 * Traits[a].trust + 20 * relevance
                           ELSE 45 * bm25 + 25 * Traits[a].seen + 20 * Traits[a].trust + 10 * relevance
  BY DEF Score
<1> HIDE DEF bm25, relevance
<1>6. /\ 45 * bm25 \in Int /\ 10 * relevance \in Int /\ 20 * relevance \in Int
      /\ \A n \in {20, 25, 35, 45} : n * Traits[a].seen \in Int /\ n * Traits[a].trust \in Int
  BY <1>2, <1>3, <1>4
<1>7. \A x, y, z, w \in Int : x + y + z \in Int /\ x + y + z + w \in Int
  OBVIOUS
<1> QED BY <1>5, <1>6, <1>7

LEMMA SortedGives ==
  ASSUME NEW word, NEW as \in SUBSET Items, NEW kept \in SUBSET as
  PROVE  ToSet(Sorted(word, as, kept)) = kept
<1> DEFINE R == {p \in kept \X kept : Above(word, as, p[1], p[2])}
           rank == [a \in kept |-> Cardinality(Upper(kept, R, a))]
           s == Sorted(word, as, kept)
           N == Cardinality(kept)
           sc == [a \in kept |-> Score(word, as, a)]
           tm == [a \in kept |-> Traits[a].seen]
<1>0. IsFiniteSet(kept) /\ kept \subseteq Nat
  BY SearchTyped, FS_Subset
<1>1. \A a, b \in kept : <<a, b>> \in R <=> sc[a] > sc[b] \/ (sc[a] = sc[b] /\ (tm[a] > tm[b] \/ (tm[a] = tm[b] /\ a < b)))
  BY DEF Above, Later
<1>2. \A a \in kept : sc[a] \in Int /\ tm[a] \in Int
  <2>1. \A a \in kept : Score(word, as, a) \in Int
    BY ScoreTyped
  <2>2. ASSUME NEW a \in kept PROVE Traits[a].seen \in Int
    <3>1. a \in Items
      OBVIOUS
    <3>2. Traits[a].seen \in Nat
      BY <3>1, SearchTyped
    <3> QED BY <3>2
  <2> HIDE DEF R
  <2> QED BY <2>1, <2>2
<1>3. StrictOrder(kept, R)
  <2> HIDE DEF R, sc, tm
  <2>1. \A a, b \in kept : a # b => <<a, b>> \in R \/ <<b, a>> \in R
    BY <1>0, <1>1, <1>2
  <2>2. \A a \in kept : <<a, a>> \notin R
    BY <1>0, <1>1, <1>2
  <2>3. \A a, b, c \in kept : <<a, b>> \in R /\ <<b, c>> \in R => <<a, c>> \in R
    BY <1>0, <1>1, <1>2
  <2> QED BY <2>1, <2>2, <2>3 DEF StrictOrder
<1>4. /\ RankedBy(kept, R, rank)
      /\ \A a \in kept : rank[a] = Cardinality(Upper(kept, R, a))
  BY DEF RankedBy
<1>5. \A a \in kept : rank[a] = Cardinality({b \in kept : Above(word, as, b, a)})
  <2>1. \A a \in kept : Upper(kept, R, a) = {b \in kept : Above(word, as, b, a)}
    BY DEF Upper
  <2> QED BY <1>4, <2>1
<1> HIDE DEF R, rank
<1>6. /\ \A a \in kept : rank[a] \in 0 .. N - 1
      /\ \A a, b \in kept : rank[a] = rank[b] => a = b
      /\ \A n \in 0 .. N - 1 : \E a \in kept : rank[a] = n
  <2>1. Numbered(kept, rank)
    BY <1>0, <1>3, <1>4, Ranks
  <2> QED BY <2>1 DEF Numbered
<1>7. N \in Nat
  BY <1>0, FS_CardinalityType
<1>8. DOMAIN s = 1 .. N /\ \A n \in 1 .. N : s[n] = CHOOSE a \in kept : rank[a] = n - 1
  BY <1>5 DEF Sorted
<1> HIDE DEF s, N
<1>9. ASSUME NEW n \in 1 .. N PROVE s[n] \in kept /\ rank[s[n]] = n - 1
  <2>1. n - 1 \in 0 .. N - 1
    BY <1>7
  <2>2. \E a \in kept : rank[a] = n - 1
    BY <1>6, <2>1
  <2> QED BY <1>8, <2>2
<1>10. ASSUME NEW a \in kept PROVE \E n \in 1 .. N : s[n] = a
  <2>1. rank[a] \in 0 .. N - 1
    BY <1>6
  <2>2. rank[a] + 1 \in 1 .. N /\ (rank[a] + 1) - 1 = rank[a]
    BY <1>7, <2>1
  <2>3. s[rank[a] + 1] \in kept /\ rank[s[rank[a] + 1]] = rank[a]
    BY <1>9, <2>2
  <2> QED BY <1>6, <2>2, <2>3
<1>11. ToSet(s) = {s[n] : n \in 1 .. N}
  BY <1>8 DEF ToSet
<1> QED BY ZenonT(60), <1>9, <1>10, <1>11 DEF s

\* What no limit cuts off is what was selected.
LEMMA LimitedKeeps ==
  ASSUME NEW word, NEW as \in SUBSET Items, NEW n \in Nat, n >= Cardinality(as)
  PROVE  Limited(word, as, n) = as
<1> SUFFICES ASSUME NEW a \in as PROVE Cardinality({b \in as : Sooner(word, b, a) \/ (~Sooner(word, a, b) /\ b < a)}) < n
  BY DEF Limited
<1> DEFINE D == {b \in as : Sooner(word, b, a) \/ (~Sooner(word, a, b) /\ b < a)}
<1>1. IsFiniteSet(as) /\ a \in Nat /\ Traits[a].rank \in Int /\ Traits[a].seen \in Nat
  BY SearchTyped, FS_Subset
<1>2. ~Sooner(word, a, a) /\ ~(a < a)
  BY <1>1 DEF Sooner
<1>3. D \subseteq as /\ a \notin D
  BY <1>2
<1>4. D # as
  BY <1>3
<1> HIDE DEF D
<1>5. Cardinality(D) <= Cardinality(as) /\ Cardinality(D) # Cardinality(as) /\ Cardinality(D) \in Nat /\ Cardinality(as) \in Nat
  BY <1>1, <1>3, <1>4, FS_Subset, FS_CardinalityType
<1>6. Cardinality(D) < n
  <2> DEFINE c == Cardinality(as)
             d == Cardinality(D)
  <2>1. n >= c /\ d <= c /\ d # c /\ d \in Nat /\ c \in Nat
    BY <1>5
  <2> HIDE DEF c, d
  <2>2. d < n
    BY <2>1
  <2> QED BY <2>2 DEF d
<1> QED BY <1>6 DEF D

\* The index holds the words of every row.
IndexInv == index = WordsOf(table)

LEMMA IndexFinds == IndexInv => SearchFindsTheRows
<1> SUFFICES ASSUME IndexInv, NEW q \in Queries, q.limit >= Cardinality(There(table)), q.word # NoWord \/ q.category # "" \/ q.region # ""
             PROVE  ToSet(Search(q)) =
            {a \in There(table) :
                /\ q.word # NoWord => \E w \in table[a].words \cup Traits[a].tags : w \in Begins[q.word]
                /\ q.category = "" \/ Traits[a].category = q.category
                /\ q.region = "" \/ Traits[a].region = q.region
                /\ q.status # "" => table[a].status = q.status
                /\ (q.status = "" /\ ~q.filtered /\ ~q.removed) => table[a].status = "active"
                /\ (q.status = "" /\ table[a].status \in {"filtered", "removed"}) =>
                       (q.filtered /\ table[a].status = "filtered") \/ (q.removed /\ table[a].status = "removed")
                /\ q.lane # "" => Lane(a) = q.lane
                /\ Traits[a].local => q.local \/ q.region # ""}
  BY DEF SearchFindsTheRows
<1> DEFINE S == Selected(q.word, q.category, q.region, Asked(q))
           as == Limited(q.word, S, q.limit)
           kept == {a \in as : KeepsStatus(q, Asked(q), a) /\ KeepsLane(q, a) /\ KeepsLocal(q, a)}
<1>1. /\ q.limit \in Nat /\ q.status \in {"", "filtered"} /\ q.region \in {"", "r"}
      /\ q.filtered \in BOOLEAN /\ q.removed \in BOOLEAN /\ q.local \in BOOLEAN
  BY SearchTyped DEF Queries
<1>2. S \subseteq There(table) /\ There(table) \subseteq Items
  BY DEF Selected, There
<1>3. Cardinality(S) <= q.limit
  <2>1. IsFiniteSet(There(table))
    BY <1>2, SearchTyped, FS_Subset
  <2>2. Cardinality(S) <= Cardinality(There(table)) /\ Cardinality(S) \in Nat /\ Cardinality(There(table)) \in Nat
    BY <1>2, <2>1, FS_Subset, FS_CardinalityType
  <2> DEFINE c == Cardinality(There(table))
             d == Cardinality(S)
             l == q.limit
  <2>3. l >= c /\ d <= c /\ d \in Nat /\ c \in Nat /\ l \in Nat
    BY <1>1, <2>2
  <2> HIDE DEF c, d, l
  <2>4. d <= l
    BY ONLY <2>3
  <2> QED BY <2>4 DEF d, l
<1>4. as = S
  <2> HIDE DEF S
  <2> QED BY <1>1, <1>2, <1>3, LimitedKeeps
<1>5. kept \subseteq as /\ as \subseteq Items
  BY <1>2, <1>4
<1>6. Search(q) = Sorted(q.word, as, kept)
  BY DEF Search
<1>7. ToSet(Search(q)) = kept
  <2> HIDE DEF as, kept
  <2>1. ToSet(Sorted(q.word, as, kept)) = kept
    BY <1>5, SortedGives
  <2> QED BY <1>6, <2>1
<1>8. kept = {a \in S : KeepsStatus(q, Asked(q), a) /\ KeepsLane(q, a) /\ KeepsLocal(q, a)}
  BY <1>4
<1>9. ASSUME NEW a \in There(table)
      PROVE  a \in S <=> /\ q.word # NoWord => \E w \in table[a].words \cup Traits[a].tags : w \in Begins[q.word]
                         /\ q.category = "" \/ Traits[a].category = q.category
                         /\ q.region = "" \/ Traits[a].region = q.region
                         /\ Asked(q) = "" \/ Asked(q) = table[a].status
  <2>1. index[a] = table[a].words \cup Traits[a].tags
    BY <1>2 DEF IndexInv, WordsOf, There
  <2>2. index[a] \cap Begins[q.word] # {} <=> \E w \in table[a].words \cup Traits[a].tags : w \in Begins[q.word]
    BY <2>1
  <2> QED BY <2>2 DEF Selected
<1>10. ASSUME NEW a \in There(table)
       PROVE  (Asked(q) = "" \/ Asked(q) = table[a].status) /\ KeepsStatus(q, Asked(q), a) <=>
                /\ q.status # "" => table[a].status = q.status
                /\ (q.status = "" /\ ~q.filtered /\ ~q.removed) => table[a].status = "active"
                /\ (q.status = "" /\ table[a].status \in {"filtered", "removed"}) =>
                       (q.filtered /\ table[a].status = "filtered") \/ (q.removed /\ table[a].status = "removed")
  BY <1>1 DEF Asked, KeepsStatus
<1>11. ASSUME NEW a \in There(table)
       PROVE  /\ KeepsLane(q, a) <=> (q.lane # "" => Lane(a) = q.lane)
              /\ KeepsLocal(q, a) <=> (Traits[a].local => q.local \/ q.region # "")
  BY <1>1 DEF KeepsLane, KeepsLocal
<1> HIDE DEF S, as, kept
<1> QED BY <1>2, <1>7, <1>8, <1>9, <1>10, <1>11

LEMMA IndexStep == IndexInv /\ [SearchNext]_searchVars => IndexInv'
<1> SUFFICES ASSUME IndexInv, [SearchNext]_searchVars PROVE IndexInv'
  OBVIOUS
<1>1. CASE UNCHANGED <<table, index>>
  BY <1>1 DEF IndexInv, WordsOf
<1>2. CASE Save
  BY <1>2 DEF Save, Indexed, IndexInv, WordsOf
<1>3. UNCHANGED <<table, index>> \/ Save
  BY DEF SearchNext, Collect, Blend, Write, GiveUp, searchVars
<1> QED BY <1>1, <1>2, <1>3

\* At any moment of a sweep, and after one that gave up, a search that is not cut off gives exactly the
\* rows it describes: whatever the alerts, their titles and ranks, and however often the rows were written.
THEOREM SearchesFindRows == SearchSpec => []SearchFindsTheRows
<1>1. SearchInit => IndexInv
  BY DEF SearchInit, IndexInv
<1> QED BY <1>1, IndexStep, IndexFinds, PTL DEF SearchSpec
=============================================================================
