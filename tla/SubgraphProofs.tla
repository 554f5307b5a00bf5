--------------------------- MODULE SubgraphProofs ---------------------------
(***************************************************************************)
(* Proofs about Subgraph: what a breadth-first search of a graph finds in  *)
(* a number of hops, and that the handler, which searches a store that     *)
(* grows, answers with what was there when the request arrived, and with   *)
(* no more than hangs together.  An induction over hops is a look at the   *)
(* least number of them with which a claim fails.                          *)
(***************************************************************************)
EXTENDS Subgraph, TLAPS, FiniteSetTheorems, WellFoundedInduction

\* A set of numbers that is not empty has a least one.
LEMMA LeastNumber ==
    ASSUME NEW T \in SUBSET Nat, T # {}
    PROVE  \E x \in T : \A y \in T : x <= y
<1> DEFINE R == OpToRel(<, Nat)
<1>1. IsWellFoundedOn(R, Nat)
  BY NatLessThanWellFounded
<1>2. \A x \in Nat, y \in Nat : x < y => <<x, y>> \in R
  BY DEF OpToRel
<1> HIDE DEF R
<1>3. PICK x \in T : \A y \in T : ~(<<y, x>> \in R)
  BY <1>1, WFMin
<1>4. \A y \in T : ~(y < x)
  BY <1>2, <1>3
<1> QED
  BY <1>3, <1>4
-----------------------------------------------------------------------------
(***************************************************************************)
(* Hops.                                                                   *)
(***************************************************************************)

\* f has what lies n edges from S, for each n up to k.
IsHops(f, E, S, k) ==
    f = [n \in 0 .. k |-> IF n = 0 THEN S ELSE f[n - 1] \union Neighbours(E, f[n - 1])]

LEMMA HopsIsAt ==
    ASSUME NEW E, NEW S, NEW k
    PROVE  Hops(E, S, k) = (CHOOSE f : IsHops(f, E, S, k))[k]
  BY DEF Hops, IsHops

LEMMA HopsStart ==
    ASSUME NEW E, NEW S, NEW k \in Nat, NEW f, IsHops(f, E, S, k)
    PROVE  f[0] = S
  BY DEF IsHops

LEMMA HopsStep ==
    ASSUME NEW E, NEW S, NEW k \in Nat, NEW f, IsHops(f, E, S, k), NEW n \in 1 .. k
    PROVE  f[n] = f[n - 1] \union Neighbours(E, f[n - 1])
<1> DEFINE F(g) == [m \in 0 .. k |-> IF m = 0 THEN S ELSE g[m - 1] \union Neighbours(E, g[m - 1])]
<1>1. F(f)[n] = f[n - 1] \union Neighbours(E, f[n - 1])
  OBVIOUS
<1>2. f = F(f)
  BY DEF IsHops
<1> HIDE DEF F
<1> QED
  BY <1>1, <1>2

\* However many hops the recursion is for, it gives a smaller number the same set.
LEMMA OneHops ==
    ASSUME NEW E, NEW S, NEW k \in Nat, NEW l \in Nat, k <= l,
           NEW f, NEW g, IsHops(f, E, S, k), IsHops(g, E, S, l)
    PROVE  f[k] = g[k]
<1>1. f[0] = S /\ g[0] = S
  BY HopsStart
<1>2. ASSUME NEW m \in 1 .. k
      PROVE  /\ f[m] = f[m - 1] \union Neighbours(E, f[m - 1])
             /\ g[m] = g[m - 1] \union Neighbours(E, g[m - 1])
  <2>1. m \in 1 .. l
    OBVIOUS
  <2>2. f[m] = f[m - 1] \union Neighbours(E, f[m - 1])
    BY HopsStep
  <2>3. g[m] = g[m - 1] \union Neighbours(E, g[m - 1])
    BY <2>1, HopsStep
  <2> QED
    BY <2>2, <2>3
<1> DEFINE T == {n \in 0 .. k : f[n] # g[n]}
<1> SUFFICES ASSUME T # {} PROVE FALSE
  OBVIOUS
<1>3. PICK n \in T : \A m \in T : n <= m
  <2>1. T \in SUBSET Nat
    OBVIOUS
  <2> HIDE DEF T
  <2> QED
    BY <2>1, LeastNumber
<1>4. n # 0
  BY <1>1
<1>5. n - 1 \in 0 .. k /\ n - 1 \notin T /\ n \in 1 .. k
  BY <1>3, <1>4
<1>6. f[n - 1] = g[n - 1]
  BY <1>5
<1> QED
  BY <1>2, <1>5, <1>6

\* The recursion has a solution for every number of hops.
LEMMA HopsExist ==
    ASSUME NEW E, NEW S, NEW k \in Nat
    PROVE  IsHops(CHOOSE f : IsHops(f, E, S, k), E, S, k)
<1> DEFINE T == {n \in Nat : ~\E f : IsHops(f, E, S, n)}
<1>1. SUFFICES T = {}
  BY DEF IsHops
<1>2. SUFFICES ASSUME T # {} PROVE FALSE
  OBVIOUS
<1>3. PICK n \in T : \A m \in T : n <= m
  BY <1>2, LeastNumber
<1>4. CASE n = 0
  <2> DEFINE f == [m \in 0 .. 0 |-> S]
  <2>1. IsHops(f, E, S, 0)
    BY DEF IsHops
  <2> QED
    BY <1>4, <2>1
<1>5. CASE n # 0
  <2>1. n - 1 \in Nat /\ n - 1 \notin T
    BY <1>3, <1>5
  <2>2. PICK g : IsHops(g, E, S, n - 1)
    BY <2>1
  <2> DEFINE f == [m \in 0 .. n |-> IF m = n THEN g[n - 1] \union Neighbours(E, g[n - 1]) ELSE g[m]]
  <2>3. ASSUME NEW m \in 0 .. n
        PROVE  f[m] = IF m = 0 THEN S ELSE f[m - 1] \union Neighbours(E, f[m - 1])
    <3>1. CASE m = n
      BY <1>5, <2>1, <3>1
    <3>2. CASE m # n
      <4>1. m \in 0 .. n - 1 /\ f[m] = g[m] /\ (m # 0 => f[m - 1] = g[m - 1])
        BY <2>1, <3>2
      <4>2. g[m] = IF m = 0 THEN S ELSE g[m - 1] \union Neighbours(E, g[m - 1])
        BY <2>2, <4>1 DEF IsHops
      <4> HIDE DEF f
      <4> QED
        BY <4>1, <4>2
    <3> QED
      BY <3>1, <3>2
  <2>4. DOMAIN f = 0 .. n /\ f = [m \in 0 .. n |-> f[m]]
    OBVIOUS
  <2> HIDE DEF f
  <2>5. IsHops(f, E, S, n)
    BY <2>3, <2>4 DEF IsHops
  <2> QED
    BY <2>5
<1> QED
  BY <1>4, <1>5

\* No hop leads nowhere else, and one hop more leads to the neighbours.
LEMMA HopsFacts ==
    ASSUME NEW E, NEW S
    PROVE  /\ Hops(E, S, 0) = S
           /\ \A k \in Nat : Hops(E, S, k + 1) = Hops(E, S, k) \union Neighbours(E, Hops(E, S, k))
<1>1. Hops(E, S, 0) = S
  <2> DEFINE g == CHOOSE f : IsHops(f, E, S, 0)
  <2>1. IsHops(g, E, S, 0) /\ Hops(E, S, 0) = g[0]
    BY HopsExist, HopsIsAt
  <2> HIDE DEF g
  <2> QED
    BY <2>1, HopsStart
<1>2. ASSUME NEW k \in Nat
      PROVE  Hops(E, S, k + 1) = Hops(E, S, k) \union Neighbours(E, Hops(E, S, k))
  <2> DEFINE g == CHOOSE f : IsHops(f, E, S, k)
             h == CHOOSE f : IsHops(f, E, S, k + 1)
  <2>1. IsHops(g, E, S, k) /\ IsHops(h, E, S, k + 1)
    BY HopsExist
  <2>2. Hops(E, S, k) = g[k] /\ Hops(E, S, k + 1) = h[k + 1]
    BY HopsIsAt
  <2> HIDE DEF g, h
  <2>3. g[k] = h[k]
    BY <2>1, OneHops
  <2>4. h[k + 1] = h[k] \union Neighbours(E, h[k])
    <3>1. k + 1 \in Nat /\ k + 1 \in 1 .. k + 1 /\ (k + 1) - 1 = k
      OBVIOUS
    <3>2. h[k + 1] = h[(k + 1) - 1] \union Neighbours(E, h[(k + 1) - 1])
      BY <2>1, <3>1, HopsStep
    <3> QED
      BY <3>1, <3>2
  <2> QED
    BY <2>2, <2>3, <2>4
<1> QED
  BY <1>1, <1>2

LEMMA NeighbourIs ==
    ASSUME NEW E, NEW S, NEW v
    PROVE  v \in Neighbours(E, S) <=> \E e \in E : e[1] \in S /\ v = e[2]
  BY DEF Neighbours

\* More hops lead further.
LEMMA HopsGrow ==
    ASSUME NEW E, NEW S, NEW k \in Nat, NEW l \in Nat, k <= l
    PROVE  Hops(E, S, k) \subseteq Hops(E, S, l)
<1> DEFINE T == {n \in Nat : k <= n /\ ~(Hops(E, S, k) \subseteq Hops(E, S, n))}
<1>1. SUFFICES ASSUME T # {} PROVE FALSE
  OBVIOUS
<1>2. PICK n \in T : \A m \in T : n <= m
  BY <1>1, LeastNumber
<1>3. n - 1 \in Nat /\ k <= n - 1 /\ n - 1 \notin T
  BY <1>2
<1>4. Hops(E, S, k) \subseteq Hops(E, S, n - 1) /\ (n - 1) + 1 = n
  BY <1>3
<1>5. Hops(E, S, n - 1) \subseteq Hops(E, S, (n - 1) + 1)
  BY <1>3, HopsFacts
<1> QED
  BY <1>4, <1>5

\* What has S and, of what k hops lead to, all that it has an edge to, has all that
\* k hops lead to.
LEMMA HopsWithin ==
    ASSUME NEW E, NEW S, NEW k \in Nat, NEW W, S \subseteq W,
           \A e \in E : e[1] \in W /\ e[2] \in Hops(E, S, k) => e[2] \in W
    PROVE  Hops(E, S, k) \subseteq W
<1> DEFINE T == {n \in 0 .. k : ~(Hops(E, S, n) \subseteq W)}
<1>1. SUFFICES ASSUME T # {} PROVE FALSE
  OBVIOUS
<1>2. PICK n \in T : \A m \in T : n <= m
  <2>1. T \in SUBSET Nat
    OBVIOUS
  <2> HIDE DEF T
  <2> QED
    BY <1>1, <2>1, LeastNumber
<1>3. n # 0
  BY HopsFacts
<1>4. n - 1 \in Nat /\ n - 1 \in 0 .. k /\ n - 1 \notin T /\ (n - 1) + 1 = n
  BY <1>2, <1>3
<1>5. Hops(E, S, n - 1) \subseteq W
  BY <1>4
<1>6. Hops(E, S, n) = Hops(E, S, n - 1) \union Neighbours(E, Hops(E, S, n - 1))
  <2>1. Hops(E, S, (n - 1) + 1) = Hops(E, S, n - 1) \union Neighbours(E, Hops(E, S, n - 1))
    BY <1>4, HopsFacts
  <2> QED
    BY <1>4, <2>1
<1>7. Hops(E, S, n) \subseteq Hops(E, S, k)
  BY HopsGrow
<1>8. ASSUME NEW v \in Hops(E, S, n) PROVE v \in W
  <2>1. CASE v \in Hops(E, S, n - 1)
    BY <1>5, <2>1
  <2>2. CASE v \in Neighbours(E, Hops(E, S, n - 1))
    <3>1. PICK e \in E : e[1] \in Hops(E, S, n - 1) /\ v = e[2]
      BY <2>2, NeighbourIs
    <3> QED
      BY <1>5, <1>7, <1>8, <3>1
  <2> QED
    BY <1>6, <2>1, <2>2
<1> QED
  BY <1>8

\* Of a finite graph a search of as many hops as it has nodes leaves no edge out: a hop
\* that finds nothing is the last, and each other finds one at least.
LEMMA SearchCloses ==
    ASSUME NEW G, IsFiniteSet(G), NEW E, E \subseteq G \X G, NEW S, S \subseteq G
    PROVE  LET C == Hops(E, S, Cardinality(G)) IN
           S \subseteq C /\ C \subseteq G /\ \A e \in E : e[1] \in C => e[2] \in C
<1> DEFINE c == Cardinality(G)
           H(n) == Hops(E, S, n)
           Last(n) == \A e \in E : e[1] \in H(n) => e[2] \in H(n)
<1>1. c \in Nat
  BY FS_CardinalityType
<1>2. \A e \in E : e[1] \in G /\ e[2] \in G
  OBVIOUS
<1> HIDE DEF c
<1>3. ASSUME NEW n \in Nat PROVE H(n) \subseteq G /\ S \subseteq H(n)
  <2>1. H(n) \subseteq G
    BY <1>2, HopsWithin
  <2>2. H(0) \subseteq H(n)
    BY HopsGrow
  <2> QED
    BY <2>1, <2>2, HopsFacts
<1>4. Last(c)
  <2> SUFFICES ASSUME ~Last(c) PROVE FALSE
    OBVIOUS
  <2>1. ASSUME NEW n \in 0 .. c PROVE ~Last(n)
    <3> SUFFICES ASSUME Last(n) PROVE FALSE
      OBVIOUS
    <3>1. H(c) \subseteq H(n) /\ H(n) \subseteq H(c)
      BY <1>1, <1>3, HopsWithin, HopsGrow
    <3> QED
      BY <3>1
  <2>2. ASSUME NEW n \in 0 .. c
        PROVE  /\ IsFiniteSet(H(n + 1)) /\ Cardinality(H(n)) \in Nat
               /\ Cardinality(H(n + 1)) \in Nat /\ Cardinality(H(n)) + 1 <= Cardinality(H(n + 1))
    <3>1. PICK e \in E : e[1] \in H(n) /\ e[2] \notin H(n)
      BY <2>1
    <3>2. H(n + 1) = H(n) \union Neighbours(E, H(n))
      <4>1. \A m \in Nat : H(m + 1) = H(m) \union Neighbours(E, H(m))
        BY HopsFacts
      <4>2. n \in Nat
        BY <1>1
      <4> QED
        BY <4>1, <4>2
    <3>3. e[2] \in H(n + 1) /\ H(n) \subseteq H(n + 1)
      BY <3>1, <3>2, NeighbourIs
    <3>4. H(n + 1) \subseteq G /\ n + 1 \in Nat
      BY <1>1, <1>3
    <3> HIDE DEF H
    <3>5. IsFiniteSet(H(n + 1))
      BY <3>4, FS_Subset
    <3>6. /\ Cardinality(H(n)) \in Nat /\ Cardinality(H(n + 1)) \in Nat
          /\ Cardinality(H(n)) <= Cardinality(H(n + 1))
          /\ Cardinality(H(n)) = Cardinality(H(n + 1)) => H(n) = H(n + 1)
      BY <3>3, <3>5, FS_Subset, FS_CardinalityType
    <3> QED
      BY <3>1, <3>3, <3>5, <3>6
  <2> DEFINE T == {n \in 0 .. c + 1 : ~(n <= Cardinality(H(n)))}
  <2>3. T = {}
    <3> SUFFICES ASSUME T # {} PROVE FALSE
      OBVIOUS
    <3>1. PICK n \in T : \A m \in T : n <= m
      <4>1. T \in SUBSET Nat
        BY <1>1
      <4> HIDE DEF T
      <4> QED
        BY <4>1, LeastNumber
    <3>2. n # 0
      <4>1. Cardinality(H(0)) \in Nat
        BY <1>1, <2>2
      <4> QED
        BY <4>1
    <3>3. n - 1 \in 0 .. c /\ n - 1 \notin T /\ (n - 1) + 1 = n
      BY <1>1, <3>1, <3>2
    <3>4. /\ n - 1 <= Cardinality(H(n - 1)) /\ Cardinality(H(n - 1)) \in Nat
          /\ Cardinality(H((n - 1) + 1)) \in Nat
          /\ Cardinality(H(n - 1)) + 1 <= Cardinality(H((n - 1) + 1))
      BY <1>1, <2>2, <3>3
    <3> HIDE DEF H
    <3>5. n <= Cardinality(H(n))
      BY <1>1, <3>3, <3>4
    <3> QED
      BY <3>5
  <2>4. H(c + 1) \subseteq G
    BY <1>1, <1>3
  <2>5. Cardinality(H(c + 1)) \in Nat /\ Cardinality(H(c + 1)) <= c
    BY <2>4, FS_Subset, FS_CardinalityType DEF c
  <2>6. c + 1 <= Cardinality(H(c + 1))
    BY <1>1, <2>3
  <2> QED
    BY <1>1, <2>5, <2>6
<1> QED
  BY <1>1, <1>3, <1>4 DEF c

\* What that search finds is what can be reached, no less and no more: the least set with
\* S that no edge leaves.
THEOREM SearchEnds ==
    ASSUME NEW G, IsFiniteSet(G), NEW E, E \subseteq G \X G, NEW S, S \subseteq G
    PROVE  LET C == Hops(E, S, Cardinality(G)) IN
           /\ S \subseteq C /\ C \subseteq G /\ \A e \in E : e[1] \in C => e[2] \in C
           /\ \A W : S \subseteq W /\ (\A e \in E : e[1] \in W => e[2] \in W) => C \subseteq W
<1> DEFINE C == Hops(E, S, Cardinality(G))
<1>1. Cardinality(G) \in Nat
  BY FS_CardinalityType
<1>2. S \subseteq C /\ C \subseteq G /\ \A e \in E : e[1] \in C => e[2] \in C
  BY SearchCloses
<1>3. ASSUME NEW W, S \subseteq W, \A e \in E : e[1] \in W => e[2] \in W
      PROVE  C \subseteq W
  BY <1>1, <1>3, HopsWithin
<1> QED
  BY <1>2, <1>3
-----------------------------------------------------------------------------
(***************************************************************************)
(* Searches of one graph and of a part of it.                              *)
(***************************************************************************)

\* What a search of all of G finds, a search of any part of G finds that has it.
LEMMA PartHasAll ==
    ASSUME NEW G, IsFiniteSet(G), NEW E, E \subseteq G \X G, NEW S, S \subseteq G,
           NEW A, A \subseteq G, Hops(E, S, Cardinality(G)) \subseteq A,
           NEW D, D = {e \in E : e[1] \in A /\ e[2] \in A}
    PROVE  Hops(D, S, Cardinality(A)) = Hops(E, S, Cardinality(G))
<1> DEFINE C == Hops(E, S, Cardinality(G))
           B == Hops(D, S, Cardinality(A))
<1>1. IsFiniteSet(A) /\ Cardinality(A) \in Nat /\ Cardinality(G) \in Nat
  BY FS_Subset, FS_CardinalityType
<1>2. S \subseteq C /\ C \subseteq A /\ \A e \in E : e[1] \in C => e[2] \in C
  BY SearchCloses
<1>3. D \subseteq A \X A /\ S \subseteq A
  BY <1>2
<1>4. S \subseteq B /\ B \subseteq A /\ \A e \in D : e[1] \in B => e[2] \in B
  BY <1>1, <1>3, SearchCloses
<1>5. B \subseteq C
  BY <1>1, <1>2, HopsWithin
<1>6. \A e \in E : e[1] \in B /\ e[2] \in C => e[2] \in B
  BY <1>2, <1>4
<1>7. C \subseteq B
  BY <1>1, <1>4, <1>6, HopsWithin
<1> QED
  BY <1>5, <1>7

\* Of the search of a graph, a search of another that has all this one finds, and the
\* edges between, finds no less.
LEMMA SearchIsMet ==
    ASSUME NEW G, IsFiniteSet(G), NEW E, E \subseteq G \X G,
           NEW D, NEW S, NEW k \in Nat, Hops(D, S, k) \subseteq G,
           \A e \in D : e[1] \in G /\ e[2] \in G => e \in E,
           NEW R, S \subseteq R, R \subseteq G
    PROVE  Hops(D, S, k) \subseteq Hops(E, R, Cardinality(G))
<1> DEFINE C == Hops(E, R, Cardinality(G))
<1>1. R \subseteq C /\ C \subseteq G /\ \A e \in E : e[1] \in C => e[2] \in C
  BY SearchCloses
<1>2. S \subseteq C
  BY <1>1
<1>3. \A e \in D : e[1] \in C /\ e[2] \in Hops(D, S, k) => e[2] \in C
  BY <1>1
<1> HIDE DEF C
<1>4. Hops(D, S, k) \subseteq C
  BY <1>2, <1>3, HopsWithin
<1> QED
  BY <1>4 DEF C

\* The edges between the units of a set, and between those of a part of it.
LEMMA EdgesAre ==
    ASSUME NEW G
    PROVE  /\ Outgoing(G) \subseteq G \X G /\ Incoming(G) \subseteq G \X G
           /\ \A u \in G, v \in G : References(u, v) => <<u, v>> \in Outgoing(G)
           /\ \A e \in Outgoing(G) : e[1] \in G /\ e[2] \in G /\ e = <<e[1], e[2]>> /\ References(e[1], e[2])
           /\ \A u \in G, v \in G : References(v, u) => <<u, v>> \in Incoming(G)
           /\ \A e \in Incoming(G) : e[1] \in G /\ e[2] \in G /\ e = <<e[1], e[2]>> /\ References(e[2], e[1])
  BY DEF Outgoing, Incoming

\* Ancestors and descendants in the whole of a graph are those in what one answers.
THEOREM AnswerStands ==
    ASSUME NEW G, IsFiniteSet(G), NEW i,
           NEW A, A = SubgraphOf(G, i)
    PROVE  /\ A \subseteq G /\ WithId(A, i) = WithId(G, i)
           /\ A = Up(A, i, LongestPath(A)) \union Down(A, i, LongestPath(A))
<1> DEFINE S == WithId(G, i)
           U == Hops(Outgoing(G), S, Cardinality(G))
           V == Hops(Incoming(G), S, Cardinality(G))
<1>1. A = U \union V
  BY DEF SubgraphOf, Up, Down, LongestPath
<1>2. S \subseteq G
  BY DEF WithId
<1>3. S \subseteq U /\ U \subseteq G /\ S \subseteq V /\ V \subseteq G
  BY <1>2, EdgesAre, SearchCloses
<1>4. A \subseteq G /\ U \subseteq A /\ V \subseteq A /\ S \subseteq A
  BY <1>1, <1>3
<1>5. WithId(A, i) = S
  BY <1>4 DEF WithId
<1>6. Outgoing(A) = {e \in Outgoing(G) : e[1] \in A /\ e[2] \in A}
  BY <1>4 DEF Outgoing
<1>7. Incoming(A) = {e \in Incoming(G) : e[1] \in A /\ e[2] \in A}
  BY <1>4 DEF Incoming
<1> HIDE DEF S
<1>8. Hops(Outgoing(A), S, Cardinality(A)) = U
  BY <1>2, <1>4, <1>6, EdgesAre, PartHasAll
<1>9. Hops(Incoming(A), S, Cardinality(A)) = V
  BY <1>2, <1>4, <1>7, EdgesAre, PartHasAll
<1>10. Up(A, i, LongestPath(A)) = U /\ Down(A, i, LongestPath(A)) = V
  BY <1>5, <1>8, <1>9 DEF Up, Down, LongestPath
<1> QED
  BY <1>1, <1>4, <1>5, <1>10 DEF S
-----------------------------------------------------------------------------
(***************************************************************************)
(* The handler.                                                            *)
(***************************************************************************)

LEMMA UnitFacts ==
    ASSUME NEW u \in Unit
    PROVE  u.id \in Nat \ {0} /\ u.id \in Id /\ u.body \subseteq UNION Body
  BY UnitAssumption DEF UnitRecord, Id

\* 0 is no id.
LEMMA NoIdIsZero == 0 \notin Id
  BY UnitFacts DEF Id

LEMMA InitHolds == Init => IInv
<1> SUFFICES ASSUME Init PROVE IInv
  OBVIOUS
<1>1. TypeOK
  BY SubgraphAssumption DEF Init, TypeOK
<1>2. StoreInv
  BY FS_EmptySet DEF Init, StoreInv
<1>3. PlaceInv /\ SearchInv /\ AnswerIsComplete /\ AnswerIsConnected
  BY DEF Init, PlaceInv, SearchInv, Searching, AnswerIsComplete, AnswerIsConnected
<1> QED
  BY <1>1, <1>2, <1>3 DEF IInv

\* A unit that arrives takes nothing from what the handler has.
LEMMA SubmitKeeps ==
    ASSUME IInv, NEW u \in Unit, Submit(u)
    PROVE  IInv'
<1>1. TypeOK'
  BY SubgraphAssumption DEF IInv, TypeOK, Submit, searchVars
<1>2. StoreInv'
  <2>1. IsFiniteSet(store')
    BY FS_AddElement DEF IInv, StoreInv, Submit
  <2> QED
    BY <2>1 DEF IInv, StoreInv, Submit, searchVars, HasId
<1>3. PlaceInv' /\ SearchInv' /\ AnswerIsComplete' /\ AnswerIsConnected'
  BY DEF IInv, Submit, searchVars, PlaceInv, SearchInv, Searching, AnswerIsComplete, AnswerIsConnected,
         AllReferenced, AllReferencing
<1> QED
  BY <1>1, <1>2, <1>3 DEF IInv

LEMMA RequestKeeps ==
    ASSUME IInv, NEW i \in Id, Request(i)
    PROVE  IInv'
<1>1. TypeOK' /\ StoreInv'
  BY DEF IInv, TypeOK, StoreInv, PlaceInv, Request, searchVars
<1>2. PlaceInv' /\ SearchInv' /\ AnswerIsComplete' /\ AnswerIsConnected'
  BY DEF IInv, PlaceInv, SearchInv, Searching, AnswerIsComplete, AnswerIsConnected, Request, searchVars
<1> QED
  BY <1>1, <1>2 DEF IInv

\* With no hop made, only the unit asked for had to be found.
LEMMA LoadRootKeeps ==
    ASSUME IInv, LoadRoot
    PROVE  IInv'
<1>1. CASE pc' = "failed" /\ UNCHANGED <<graph, frontier>> /\ (faults' = faults \/ Fault)
  <2>1. TypeOK' /\ StoreInv'
    BY <1>1 DEF IInv, TypeOK, StoreInv, LoadRoot, Fault
  <2>2. PlaceInv' /\ SearchInv' /\ AnswerIsComplete' /\ AnswerIsConnected'
    BY <1>1 DEF IInv, PlaceInv, SearchInv, Searching, AnswerIsComplete, AnswerIsConnected, LoadRoot
  <2> QED
    BY <2>1, <2>2 DEF IInv
<1>2. CASE \E u \in store : u.id = root /\ pc' = "search" /\ graph' = {u} /\ frontier' = {root} /\ faults' = faults
  <2>1. PICK u \in store : u.id = root /\ pc' = "search" /\ graph' = {u} /\ frontier' = {root} /\ faults' = faults
    BY <1>2
  <2>2. /\ pc = "root" /\ depth = 0 /\ ahead = {} /\ current = 0 /\ answer = {}
        /\ depth' = 0 /\ ahead' = {} /\ current' = 0 /\ answer' = {}
        /\ store' = store /\ root' = root /\ refs' = refs /\ start' = start
    BY DEF IInv, PlaceInv, LoadRoot
  <2>3. u \in Unit /\ u.id \in Id
    BY UnitFacts DEF IInv, TypeOK
  <2>4. TypeOK' /\ StoreInv'
    BY <2>1, <2>2, <2>3 DEF IInv, TypeOK, StoreInv
  <2>5. PlaceInv'
    BY <2>1, <2>2 DEF PlaceInv, Searching, HasId
  <2>6. Up(start, root, 0) = WithId(start, root) /\ Down(start, root, 0) = WithId(start, root)
    BY HopsFacts DEF Up, Down
  <2>7. WithId(start, root) \subseteq {u}
    BY <2>1 DEF IInv, StoreInv, WithId
  <2>8. SearchInv'
    BY <2>1, <2>2, <2>6, <2>7 DEF SearchInv
  <2>9. AnswerIsComplete' /\ AnswerIsConnected'
    BY <2>1 DEF AnswerIsComplete, AnswerIsConnected
  <2> QED
    BY <2>4, <2>5, <2>8, <2>9 DEF IInv
<1> QED
  BY <1>1, <1>2 DEF LoadRoot

\* The unit whose edges are followed next leaves the frontier and is the current one.
LEMMA ExpandKeeps ==
    ASSUME IInv, NEW i \in frontier, Expand(i)
    PROVE  IInv'
<1>1. refs' \subseteq UNION Body
  <2>1. \A u \in graph : u.body \subseteq UNION Body
    BY UnitFacts DEF IInv, TypeOK
  <2> QED
    BY <2>1 DEF Expand
<1>2. TypeOK' /\ StoreInv'
  BY <1>1 DEF IInv, TypeOK, StoreInv, Expand
<1>3. PlaceInv'
  BY DEF IInv, TypeOK, PlaceInv, Searching, Expand
<1>4. AnswerIsComplete' /\ AnswerIsConnected'
  BY DEF AnswerIsComplete, AnswerIsConnected, Expand
<1>5. SearchInv'
  <2> SUFFICES ASSUME faults = 0 PROVE SearchInv'
    BY DEF SearchInv, Expand
  <2>1. /\ Up(start, root, depth) \union Down(start, root, depth) \subseteq {u \in graph : u.id \notin ahead}
        /\ \A u \in graph :
              u.id \notin frontier \union ahead \union {current} => AllReferenced(u) /\ AllReferencing(u)
    BY DEF IInv, SearchInv, Searching, Expand
  <2>2. \A u \in graph : (AllReferenced(u) => AllReferenced(u)') /\ (AllReferencing(u) => AllReferencing(u)')
    BY DEF AllReferenced, AllReferencing, Expand
  <2>3. \A u \in graph : u.id # 0
    BY UnitFacts DEF IInv, TypeOK
  <2>4. ASSUME NEW u \in graph, u.id \notin (frontier \union ahead \union {current})'
        PROVE  AllReferenced(u)' /\ AllReferencing(u)'
    <3>1. u.id \notin frontier \union ahead \union {current}
      BY <2>3, <2>4 DEF IInv, PlaceInv, Expand
    <3> QED
      BY <2>1, <2>2, <3>1
  <2>5. ASSUME NEW u \in WithId(graph, i), NEW v \in start, References(u, v)
        PROVE  v.id \in refs'
    BY <2>5 DEF WithId, References, Expand
  <2> QED
    BY <2>1, <2>4, <2>5 DEF SearchInv, Expand
<1> QED
  BY <1>2, <1>3, <1>4, <1>5 DEF IInv

\* A reference is looked at: the unit with that id is loaded, or was, or was not there.
LEMMA LoadReferencedKeeps ==
    ASSUME IInv, NEW i \in refs, LoadReferenced(i)
    PROVE  IInv'
<1>1. /\ pc = "references" /\ pc' = pc /\ refs' = refs \ {i}
      /\ store' = store /\ root' = root /\ depth' = depth /\ frontier' = frontier
      /\ current' = current /\ answer' = answer /\ start' = start
  BY DEF LoadReferenced
<1>2. /\ graph \subseteq graph' /\ graph' \subseteq graph \union {w \in store : w.id = i}
      /\ ahead \subseteq ahead' /\ ahead' \subseteq ahead \union {i}
      /\ \/ graph' = graph /\ ahead' = ahead
         \/ ~HasId(graph, i) /\ HasId(graph', i) /\ ahead' = ahead \union {i}
      /\ i \in ahead' => HasId(graph', i) \/ i \in ahead
      /\ faults' \in Nat
  BY DEF LoadReferenced, Fault, HasId, IInv, TypeOK
<1>3. TypeOK' /\ StoreInv'
  <2>1. ahead' # ahead => i \in Id
    BY <1>2, UnitFacts DEF HasId, IInv, TypeOK
  <2>2. graph' \subseteq store
    BY <1>2 DEF IInv, StoreInv
  <2> QED
    BY <1>1, <1>2, <2>1, <2>2 DEF IInv, TypeOK, StoreInv
<1>4. PlaceInv'
  <2>1. \A j : HasId(graph, j) => HasId(graph', j)
    BY <1>2 DEF HasId
  <2>2. depth < MaxDepth /\ HasId(graph, root) /\ HasId(graph, current)
    BY <1>1 DEF IInv, PlaceInv, Searching
  <2>3. \A j \in frontier' \union ahead' : HasId(graph', j)
    BY <1>1, <1>2, <2>1 DEF IInv, PlaceInv
  <2> QED
    BY <1>1, <2>1, <2>2, <2>3 DEF PlaceInv
<1>5. AnswerIsComplete' /\ AnswerIsConnected'
  BY <1>1 DEF AnswerIsComplete, AnswerIsConnected
<1>6. SearchInv'
  <2> SUFFICES ASSUME faults' = 0 PROVE SearchInv'
    BY DEF SearchInv
  <2>1. faults = 0 /\ ~Fault
    BY DEF LoadReferenced, Fault, IInv, TypeOK
  <2>2. /\ Up(start, root, depth) \union Down(start, root, depth) \subseteq {u \in graph : u.id \notin ahead}
        /\ \A u \in graph :
              u.id \notin frontier \union ahead \union {current} => AllReferenced(u) /\ AllReferencing(u)
        /\ \A u \in WithId(graph, current) :
              \A v \in start : References(u, v) => v \in graph \/ v.id \in refs
    BY <1>1, <2>1 DEF IInv, SearchInv, Searching
  <2>3. ASSUME NEW v \in start, v.id = i PROVE v \in graph'
    <3>1. v \in store /\ graph' \subseteq store
      BY <1>3, <1>1 DEF IInv, StoreInv
    <3>2. HasId(graph', i)
      <4>1. HasId(store, i)
        BY <2>3, <3>1 DEF HasId
      <4> QED
        BY <2>1, <4>1 DEF LoadReferenced, HasId
    <3> QED
      BY <2>3, <3>1, <3>2 DEF IInv, StoreInv, HasId
  <2>4. \A u : (AllReferenced(u) => AllReferenced(u)') /\ (AllReferencing(u) => AllReferencing(u)')
    BY <1>1, <1>2 DEF AllReferenced, AllReferencing
  <2>5. (Up(start, root, depth) \union Down(start, root, depth))' \subseteq {u \in graph' : u.id \notin ahead'}
    <3>1. \A u \in graph : u.id \notin ahead => u.id \notin ahead'
      BY <1>2 DEF HasId
    <3> QED
      BY <1>1, <1>2, <2>2, <3>1
  <2>6. ASSUME NEW u \in graph', u.id \notin (frontier \union ahead \union {current})'
        PROVE  AllReferenced(u)' /\ AllReferencing(u)'
    <3>1. u \in graph
      BY <1>2, <2>6
    <3> QED
      BY <1>1, <1>2, <2>2, <2>4, <2>6, <3>1
  <2>7. ASSUME NEW u \in WithId(graph', current), NEW v \in start, References(u, v)
        PROVE  v \in graph' \/ v.id \in refs'
    <3>1. u \in WithId(graph, current)
      <4>1. HasId(graph, current)
        BY <1>1 DEF IInv, PlaceInv
      <4> QED
        BY <1>1, <1>2, <1>3, <2>7, <4>1 DEF WithId, HasId, StoreInv
    <3> QED
      BY <1>1, <1>2, <2>2, <2>3, <2>7, <3>1
  <2> QED
    BY <1>1, <2>5, <2>6, <2>7 DEF SearchInv
<1> QED
  BY <1>3, <1>4, <1>5, <1>6 DEF IInv

LEMMA ReferencesDoneKeeps ==
    ASSUME IInv, ReferencesDone
    PROVE  IInv'
<1>1. TypeOK' /\ StoreInv' /\ PlaceInv'
  BY DEF IInv, TypeOK, StoreInv, PlaceInv, Searching, ReferencesDone, searchVars
<1>2. AnswerIsComplete' /\ AnswerIsConnected'
  BY DEF AnswerIsComplete, AnswerIsConnected, ReferencesDone
<1>3. SearchInv'
  <2> SUFFICES ASSUME faults = 0 PROVE SearchInv'
    BY DEF SearchInv, ReferencesDone
  <2>1. /\ Up(start, root, depth) \union Down(start, root, depth) \subseteq {u \in graph : u.id \notin ahead}
        /\ \A u \in graph :
              u.id \notin frontier \union ahead \union {current} => AllReferenced(u) /\ AllReferencing(u)
        /\ \A u \in WithId(graph, current) : AllReferenced(u)
    BY DEF IInv, SearchInv, Searching, ReferencesDone, AllReferenced
  <2> QED
    BY <2>1 DEF SearchInv, ReferencesDone, searchVars, AllReferenced, AllReferencing
<1> QED
  BY <1>1, <1>2, <1>3 DEF IInv

\* With what references it loaded too, the current unit has all its neighbours.
LEMMA LoadReferencingKeeps ==
    ASSUME IInv, LoadReferencing
    PROVE  IInv'
<1> DEFINE found == {u \in store : current \in u.body /\ ~HasId(graph, u.id)}
<1>1. CASE Fault /\ pc' = "failed" /\ UNCHANGED <<graph, ahead, current>>
  <2>1. TypeOK' /\ StoreInv' /\ PlaceInv'
    BY <1>1 DEF IInv, TypeOK, StoreInv, PlaceInv, Searching, LoadReferencing, Fault
  <2>2. SearchInv' /\ AnswerIsComplete' /\ AnswerIsConnected'
    BY <1>1 DEF SearchInv, Searching, AnswerIsComplete, AnswerIsConnected
  <2> QED
    BY <2>1, <2>2 DEF IInv
<1>2. CASE /\ graph' = graph \union found
           /\ ahead' = ahead \union {u.id : u \in found}
           /\ pc' = "search" /\ current' = 0 /\ faults' = faults
  <2>1. /\ pc = "referencing"
        /\ store' = store /\ root' = root /\ depth' = depth /\ frontier' = frontier
        /\ refs' = refs /\ answer' = answer /\ start' = start
    BY DEF LoadReferencing
  <2>2. found \subseteq store /\ \A u \in found : ~HasId(graph, u.id)
    OBVIOUS
  <2>3. \A u \in store : current \in u.body => u \in found \/ HasId(graph, u.id)
    OBVIOUS
  <2> HIDE DEF found
  <2>5. TypeOK' /\ StoreInv'
    <3>1. \A u \in found : u \in Unit /\ u.id \in Id
      BY <2>2, UnitFacts DEF IInv, TypeOK
    <3> QED
      BY <1>2, <2>1, <2>2, <3>1 DEF IInv, TypeOK, StoreInv
  <2>6. PlaceInv'
    <3>1. depth < MaxDepth /\ HasId(graph, root)
      BY <2>1 DEF IInv, PlaceInv, Searching
    <3>2. \A j \in frontier' \union ahead' : HasId(graph', j)
      BY <1>2, <2>1 DEF IInv, PlaceInv, HasId
    <3>3. HasId(graph', root)
      BY <1>2, <3>1 DEF HasId
    <3> QED
      BY <1>2, <2>1, <3>1, <3>2, <3>3 DEF PlaceInv
  <2>7. AnswerIsComplete' /\ AnswerIsConnected'
    BY <1>2 DEF AnswerIsComplete, AnswerIsConnected
  <2>8. SearchInv'
    <3> SUFFICES ASSUME faults = 0 PROVE SearchInv'
      BY <1>2 DEF SearchInv
    <3>1. /\ Up(start, root, depth) \union Down(start, root, depth) \subseteq {u \in graph : u.id \notin ahead}
          /\ \A u \in graph :
                u.id \notin frontier \union ahead \union {current} => AllReferenced(u) /\ AllReferencing(u)
          /\ \A u \in WithId(graph, current) : AllReferenced(u)
      BY <2>1 DEF IInv, SearchInv, Searching
    <3>2. \A u : (AllReferenced(u) => AllReferenced(u)') /\ (AllReferencing(u) => AllReferencing(u)')
      BY <1>2, <2>1 DEF AllReferenced, AllReferencing
    <3>3. (Up(start, root, depth) \union Down(start, root, depth))' \subseteq {u \in graph' : u.id \notin ahead'}
      <4>1. \A u \in graph : u.id \notin ahead => u.id \notin ahead'
        BY <1>2, <2>2 DEF HasId
      <4> QED
        BY <1>2, <2>1, <3>1, <4>1
    <3>4. ASSUME NEW u \in graph', u.id \notin (frontier \union ahead \union {current})'
          PROVE  AllReferenced(u)' /\ AllReferencing(u)'
      <4>1. u \in graph /\ u.id \notin frontier \union ahead
        BY <1>2, <2>1, <3>4
      <4>2. CASE u.id # current
        BY <3>1, <3>2, <4>1, <4>2
      <4>3. CASE u.id = current
        <5>1. AllReferenced(u)'
          BY <3>1, <3>2, <4>1, <4>3 DEF WithId
        <5>2. ASSUME NEW v \in start, References(v, u) PROVE v \in graph'
          <6>1. v \in store /\ current \in v.body
            BY <4>3, <5>2 DEF References, IInv, StoreInv
          <6>2. CASE v \in found
            BY <1>2, <6>2
          <6>3. CASE HasId(graph, v.id)
            BY <1>2, <6>1, <6>3 DEF HasId, IInv, StoreInv
          <6> QED
            BY <2>3, <6>1, <6>2, <6>3
        <5> QED
          BY <2>1, <5>1, <5>2 DEF AllReferencing
      <4> QED
        BY <4>2, <4>3
    <3> QED
      BY <1>2, <3>3, <3>4 DEF SearchInv
  <2> QED
    BY <2>5, <2>6, <2>7, <2>8 DEF IInv
<1> QED
  BY <1>1, <1>2 DEF LoadReferencing

\* All that was found `depth' hops away has been followed: one hop more is loaded.
LEMMA EndHopKeeps ==
    ASSUME IInv, EndHop
    PROVE  IInv'
<1>1. /\ pc = "search" /\ pc' = pc /\ frontier = {} /\ ahead # {} /\ current = 0
      /\ depth' = depth + 1 /\ frontier' = ahead /\ ahead' = {}
      /\ store' = store /\ root' = root /\ current' = current /\ refs' = refs /\ graph' = graph
      /\ answer' = answer /\ start' = start /\ faults' = faults
      /\ depth \in Nat /\ depth < MaxDepth
  BY DEF EndHop, IInv, TypeOK, PlaceInv
<1>2. TypeOK' /\ StoreInv'
  BY <1>1, SubgraphAssumption DEF IInv, TypeOK, StoreInv
<1>3. PlaceInv'
  BY <1>1 DEF IInv, PlaceInv, Searching
<1>4. AnswerIsComplete' /\ AnswerIsConnected'
  BY <1>1 DEF AnswerIsComplete, AnswerIsConnected
<1>5. SearchInv'
  <2> SUFFICES ASSUME faults = 0 PROVE SearchInv'
    BY <1>1 DEF SearchInv
  <2>1. /\ Up(start, root, depth) \union Down(start, root, depth) \subseteq {u \in graph : u.id \notin ahead}
        /\ \A u \in graph :
              u.id \notin frontier \union ahead \union {current} => AllReferenced(u) /\ AllReferencing(u)
    BY <1>1 DEF IInv, SearchInv, Searching
  <2>2. \A u \in graph : u.id # 0
    BY UnitFacts DEF IInv, TypeOK
  <2>3. \A u \in graph : u.id \notin ahead => AllReferenced(u) /\ AllReferencing(u)
    BY <1>1, <2>1, <2>2
  <2>4. Up(start, root, depth + 1) \subseteq graph
    <3>1. Up(start, root, depth + 1)
            = Up(start, root, depth) \union Neighbours(Outgoing(start), Up(start, root, depth))
      <4> DEFINE H(k) == Hops(Outgoing(start), WithId(start, root), k)
      <4>1. \A k \in Nat : H(k + 1) = H(k) \union Neighbours(Outgoing(start), H(k))
        BY HopsFacts
      <4>2. depth \in Nat
        BY <1>1
      <4> QED
        BY <4>1, <4>2 DEF Up
    <3>2. ASSUME NEW v \in Neighbours(Outgoing(start), Up(start, root, depth)) PROVE v \in graph
      <4>1. PICK e \in Outgoing(start) : e[1] \in Up(start, root, depth) /\ v = e[2]
        BY <3>2, NeighbourIs
      <4>2. References(e[1], v) /\ v \in start
        BY <4>1, EdgesAre
      <4> QED
        BY <2>1, <2>3, <4>1, <4>2 DEF AllReferenced
    <3> QED
      BY <2>1, <3>1, <3>2
  <2>5. Down(start, root, depth + 1) \subseteq graph
    <3>1. Down(start, root, depth + 1)
            = Down(start, root, depth) \union Neighbours(Incoming(start), Down(start, root, depth))
      <4> DEFINE H(k) == Hops(Incoming(start), WithId(start, root), k)
      <4>1. \A k \in Nat : H(k + 1) = H(k) \union Neighbours(Incoming(start), H(k))
        BY HopsFacts
      <4>2. depth \in Nat
        BY <1>1
      <4> QED
        BY <4>1, <4>2 DEF Down
    <3>2. ASSUME NEW v \in Neighbours(Incoming(start), Down(start, root, depth)) PROVE v \in graph
      <4>1. PICK e \in Incoming(start) : e[1] \in Down(start, root, depth) /\ v = e[2]
        BY <3>2, NeighbourIs
      <4>2. References(v, e[1]) /\ v \in start
        BY <4>1, EdgesAre
      <4> QED
        BY <2>1, <2>3, <4>1, <4>2 DEF AllReferencing
    <3> QED
      BY <2>1, <3>1, <3>2
  <2>6. \A u \in graph' :
            u.id \notin (frontier \union ahead \union {current})' => AllReferenced(u)' /\ AllReferencing(u)'
    BY <1>1, <2>1 DEF AllReferenced, AllReferencing
  <2>7. (Up(start, root, depth) \union Down(start, root, depth))' \subseteq {u \in graph' : u.id \notin ahead'}
    BY <1>1, <2>4, <2>5
  <2> QED
    BY <1>1, <2>6, <2>7 DEF SearchInv
<1> QED
  BY <1>2, <1>3, <1>4, <1>5 DEF IInv

\* The search is over: either the hops allowed are made, or nothing is left to follow.
LEMMA AllIsLoaded ==
    ASSUME IInv, pc = "search", faults = 0, depth = MaxDepth \/ (frontier = {} /\ ahead = {})
    PROVE  Up(start, root, MaxDepth) \subseteq graph /\ Down(start, root, MaxDepth) \subseteq graph
<1>1. /\ Up(start, root, depth) \union Down(start, root, depth) \subseteq {u \in graph : u.id \notin ahead}
      /\ \A u \in graph :
            u.id \notin frontier \union ahead \union {current} => AllReferenced(u) /\ AllReferencing(u)
  BY DEF IInv, SearchInv, Searching
<1>2. CASE depth = MaxDepth
  BY <1>1, <1>2
<1>3. CASE frontier = {} /\ ahead = {}
  <2>1. \A u \in graph : AllReferenced(u) /\ AllReferencing(u)
    <3>1. current = 0 /\ \A u \in graph : u.id # 0
      BY UnitFacts DEF IInv, TypeOK, PlaceInv
    <3> QED
      BY <1>1, <1>3, <3>1
  <2>2. depth \in Nat /\ MaxDepth \in Nat
    BY SubgraphAssumption DEF IInv, TypeOK
  <2>3. WithId(start, root) \subseteq graph
    <3>1. Hops(Outgoing(start), WithId(start, root), 0) \subseteq Up(start, root, depth)
      BY <2>2, HopsGrow DEF Up
    <3> QED
      BY <1>1, <3>1, HopsFacts
  <2>4. \A e \in Outgoing(start) : e[1] \in graph => e[2] \in graph
    BY <2>1, EdgesAre DEF AllReferenced
  <2>5. \A e \in Incoming(start) : e[1] \in graph => e[2] \in graph
    BY <2>1, EdgesAre DEF AllReferencing
  <2>6. Hops(Outgoing(start), WithId(start, root), MaxDepth) \subseteq graph
    BY <2>2, <2>3, <2>4, HopsWithin
  <2>7. Hops(Incoming(start), WithId(start, root), MaxDepth) \subseteq graph
    BY <2>2, <2>3, <2>5, HopsWithin
  <2> QED
    BY <2>6, <2>7 DEF Up, Down
<1> QED
  BY <1>2, <1>3

LEMMA RespondKeeps ==
    ASSUME IInv, Respond
    PROVE  IInv'
<1>1. /\ pc = "search" /\ pc' = "done"
      /\ depth = MaxDepth \/ (frontier = {} /\ ahead = {})
      /\ answer' = SubgraphOf(graph, root)
      /\ store' = store /\ root' = root /\ depth' = depth /\ frontier' = frontier /\ ahead' = ahead
      /\ current' = current /\ refs' = refs /\ graph' = graph /\ start' = start /\ faults' = faults
  BY DEF Respond, searchVars
<1>2. IsFiniteSet(graph)
  BY FS_Subset DEF IInv, StoreInv
<1>3. /\ answer' \subseteq graph /\ WithId(answer', root) = WithId(graph, root)
      /\ answer' = Up(answer', root, LongestPath(answer')) \union Down(answer', root, LongestPath(answer'))
  BY <1>1, <1>2, AnswerStands
<1>4. TypeOK' /\ StoreInv'
  BY <1>1, <1>3 DEF IInv, TypeOK, StoreInv
<1>5. PlaceInv'
  BY <1>1 DEF IInv, PlaceInv, Searching
<1>6. SearchInv'
  BY <1>1 DEF SearchInv, Searching
<1>7. AnswerIsConnected'
  <2>1. HasId(answer', root)
    BY <1>1, <1>3 DEF IInv, PlaceInv, Searching, HasId, WithId
  <2> QED
    BY <1>1, <1>3, <2>1 DEF AnswerIsConnected
<1>8. AnswerIsComplete'
  <2> SUFFICES ASSUME faults = 0
               PROVE  Up(start, root, MaxDepth) \union Down(start, root, MaxDepth) \subseteq answer'
    BY <1>1 DEF AnswerIsComplete
  <2>1. Up(start, root, MaxDepth) \subseteq graph /\ Down(start, root, MaxDepth) \subseteq graph
    BY <1>1, AllIsLoaded
  <2>2. MaxDepth \in Nat
    BY SubgraphAssumption
  <2>3. WithId(graph, root) \subseteq graph
    BY DEF WithId
  <2>4. WithId(start, root) \subseteq WithId(graph, root)
    <3>1. Hops(Outgoing(start), WithId(start, root), 0) \subseteq Up(start, root, MaxDepth)
      BY <2>2, HopsGrow DEF Up
    <3>2. WithId(start, root) \subseteq graph
      BY <2>1, <3>1, HopsFacts
    <3> QED
      BY <3>2 DEF WithId
  <2>5. Up(start, root, MaxDepth) \subseteq Up(graph, root, LongestPath(graph))
    <3>1. \A e \in Outgoing(start) : e[1] \in graph /\ e[2] \in graph => e \in Outgoing(graph)
      BY EdgesAre
    <3>2. Outgoing(graph) \subseteq graph \X graph
      BY EdgesAre
    <3>3. Hops(Outgoing(start), WithId(start, root), MaxDepth) \subseteq graph
      BY <2>1 DEF Up
    <3> QED
      BY <1>2, <2>2, <2>3, <2>4, <3>1, <3>2, <3>3, SearchIsMet DEF Up, LongestPath
  <2>6. Down(start, root, MaxDepth) \subseteq Down(graph, root, LongestPath(graph))
    <3>1. \A e \in Incoming(start) : e[1] \in graph /\ e[2] \in graph => e \in Incoming(graph)
      BY EdgesAre
    <3>2. Incoming(graph) \subseteq graph \X graph
      BY EdgesAre
    <3>3. Hops(Incoming(start), WithId(start, root), MaxDepth) \subseteq graph
      BY <2>1 DEF Down
    <3> QED
      BY <1>2, <2>2, <2>3, <2>4, <3>1, <3>2, <3>3, SearchIsMet DEF Down, LongestPath
  <2> QED
    BY <1>1, <2>5, <2>6 DEF SubgraphOf
<1> QED
  BY <1>4, <1>5, <1>6, <1>7, <1>8 DEF IInv

LEMMA StutterKeeps ==
    ASSUME IInv, UNCHANGED vars
    PROVE  IInv'
  BY DEF vars, searchVars, IInv, TypeOK, StoreInv, PlaceInv, Searching, SearchInv, AllReferenced, AllReferencing,
         AnswerIsComplete, AnswerIsConnected

LEMMA StepKeeps == IInv /\ [Next]_vars => IInv'
<1> SUFFICES ASSUME IInv, [Next]_vars PROVE IInv'
  OBVIOUS
<1>1. ASSUME NEW u \in Unit, Submit(u) PROVE IInv'
  BY <1>1, SubmitKeeps
<1>2. ASSUME NEW i \in Id, Request(i) PROVE IInv'
  BY <1>2, RequestKeeps
<1>3. CASE LoadRoot
  BY <1>3, LoadRootKeeps
<1>4. ASSUME NEW i \in frontier, Expand(i) PROVE IInv'
  BY <1>4, ExpandKeeps
<1>5. ASSUME NEW i \in refs, LoadReferenced(i) PROVE IInv'
  BY <1>5, LoadReferencedKeeps
<1>6. CASE ReferencesDone
  BY <1>6, ReferencesDoneKeeps
<1>7. CASE LoadReferencing
  BY <1>7, LoadReferencingKeeps
<1>8. CASE EndHop
  BY <1>8, EndHopKeeps
<1>9. CASE Respond
  BY <1>9, RespondKeeps
<1>10. CASE UNCHANGED vars
  BY <1>10, StutterKeeps
<1> QED
  BY <1>1, <1>2, <1>3, <1>4, <1>5, <1>6, <1>7, <1>8, <1>9, <1>10 DEF Next, HandlerStep

\* In every state the store has one unit per id, what is loaded was read from it, and
\* all that the search owes for the hops it has made is loaded.
THEOREM Invariance == Spec => []IInv
<1> QED
  BY InitHolds, StepKeeps, PTL DEF Spec

\* The locals of the handler have their types, whatever the units, the depth asked for
\* and the faults; the answer is part of what was loaded.
THEOREM TypeCorrect == Spec => []TypeOK
<1>1. IInv => TypeOK
  BY DEF IInv
<1> QED
  BY <1>1, Invariance, PTL

\* GET /v1/units/{id}/subgraph: a request no storage call failed for is answered with
\* every unit that was within the depth asked for when it arrived, for any units and any
\* depth, whatever is submitted between the calls of the handler.
THEOREM AnswerIsCompleteHolds == Spec => []AnswerIsComplete
<1>1. IInv => AnswerIsComplete
  BY DEF IInv
<1> QED
  BY <1>1, Invariance, PTL

\* Graph::subgraph: the answer has the root, and ancestors and descendants are reached
\* inside the answer, faults or not: no intermediate unit is missing from it.
THEOREM AnswerIsConnectedHolds == Spec => []AnswerIsConnected
<1>1. IInv => AnswerIsConnected
  BY DEF IInv
<1> QED
  BY <1>1, Invariance, PTL
=============================================================================
