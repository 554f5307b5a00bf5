--------------------------- MODULE PeerTableProofs ---------------------------
(***************************************************************************)
(* Proofs about PeerTable, for any set of peers, any number of votes and   *)
(* verifications in flight, any cap, any gain and penalty, and either      *)
(* backend.                                                                *)
(***************************************************************************)
EXTENDS PeerTable, TLAPS, FiniteSetTheorems, WellFoundedInduction

-----------------------------------------------------------------------------
(***************************************************************************)
(* Least counterexamples, which stand for inductions over numbers and      *)
(* finite sets.                                                            *)
(***************************************************************************)

\* A set of numbers that is not empty has a least one.
LEMMA LeastNumber ==
    ASSUME NEW T \in SUBSET Nat, T # {}
    PROVE  \E x \in T : \A y \in T : x <= y
<1> DEFINE R == OpToRel(<, Nat)
<1>1. IsWellFoundedOn(R, Nat)
  BY NatLessThanWellFounded
<1>2. \A x \in Nat, y \in Nat : x < y => <<x, y>> \in R
  BY DEF OpToRel
<1> HIDE DEF R
<1>3. PICK x \in T : \A y \in T : ~(<<y, x>> \in R)
  BY <1>1, WFMin
<1>4. \A y \in T : ~(y < x)
  BY <1>2, <1>3
<1> QED
  BY <1>3, <1>4

\* A finite one has a greatest: the one above which there are the fewest.
LEMMA GreatestOfNumbers ==
    ASSUME NEW S \in SUBSET Nat, IsFiniteSet(S), S # {}
    PROVE  \E x \in S : \A y \in S : y <= x
<1> DEFINE Above(x) == {y \in S : y > x}
           T == {Cardinality(Above(x)) : x \in S}
<1>1. \A x : IsFiniteSet(Above(x)) /\ Cardinality(Above(x)) \in Nat
  <2>1. \A x : Above(x) \in SUBSET S
    OBVIOUS
  <2> HIDE DEF Above
  <2> QED
    BY <2>1, FS_Subset, FS_CardinalityType
<1>2. T \in SUBSET Nat /\ T # {}
  BY <1>1
<1>3. PICK n \in T : \A m \in T : n <= m
  BY <1>2, LeastNumber
<1>4. PICK x \in S : n = Cardinality(Above(x))
  BY <1>3
<1>5. ASSUME NEW y \in S, y > x PROVE FALSE
  <2>1. Above(y) \in SUBSET Above(x) /\ y \in Above(x) /\ y \notin Above(y)
    BY <1>4, <1>5
  <2>2. Cardinality(Above(x)) <= Cardinality(Above(y))
    BY <1>3, <1>4
  <2> HIDE DEF Above
  <2>3. Cardinality(Above(y)) <= Cardinality(Above(x))
    BY <1>1, <2>1, FS_Subset
  <2>4. Cardinality(Above(y)) = Cardinality(Above(x))
    BY <1>1, <2>2, <2>3
  <2>5. Above(x) = Above(y)
    BY <1>1, <2>1, <2>4, FS_Subset
  <2> QED
    BY <2>1, <2>5
<1> QED
  BY <1>5

\* Of the finite sets with a property there is one none of whose proper subsets has it.
LEMMA SmallestSet ==
    ASSUME NEW C, \A s \in C : IsFiniteSet(s), C # {}
    PROVE  \E s \in C : \A t \in C : t \subseteq s => t = s
<1> DEFINE T == {Cardinality(s) : s \in C}
<1>1. T \in SUBSET Nat /\ T # {}
  BY FS_CardinalityType
<1>2. PICK n \in T : \A m \in T : n <= m
  BY <1>1, LeastNumber
<1>3. PICK s \in C : n = Cardinality(s)
  BY <1>2
<1>4. ASSUME NEW t \in C, t \subseteq s PROVE t = s
  <2>1. Cardinality(s) <= Cardinality(t)
    BY <1>2, <1>3
  <2>2. IsFiniteSet(s) /\ t \in SUBSET s
    BY <1>4
  <2>3. Cardinality(t) <= Cardinality(s) /\ Cardinality(t) \in Nat /\ Cardinality(s) \in Nat
    BY <2>2, FS_Subset, FS_CardinalityType
  <2>4. Cardinality(t) = Cardinality(s)
    BY <2>1, <2>3
  <2> QED
    BY <2>2, <2>4, FS_Subset
<1> QED
  BY <1>3, <1>4
-----------------------------------------------------------------------------
(***************************************************************************)
(* Sums.                                                                   *)
(***************************************************************************)

\* The sum of the numbers f[x] over a set, as the community modules define it: pick an
\* element, and go on with the rest.
Total(f, S) == MapThenSumSet(LAMBDA x : f[x], S)

Pick(s) == CHOOSE x \in s : TRUE

\* g has the sums over all subsets of S.
IsTotal(g, f, S) ==
    g = [s \in SUBSET S |-> IF s = {} THEN 0 ELSE f[Pick(s)] + g[s \ {Pick(s)}]]

LEMMA TotalIsAt ==
    ASSUME NEW f, NEW S
    PROVE  Total(f, S) = (CHOOSE g : IsTotal(g, f, S))[S]
  BY DEF Total, MapThenSumSet, MapThenFoldSet, IsTotal, Pick

LEMMA PickIn == ASSUME NEW s, s # {} PROVE Pick(s) \in s
  BY DEF Pick

\* Whatever set the recursion begins with, it gives a subset the same value.
LEMMA OneTotal ==
    ASSUME NEW f, NEW S, NEW T, IsFiniteSet(S), NEW g, NEW h, IsTotal(g, f, S), IsTotal(h, f, T)
    PROVE  \A s \in SUBSET (S \intersect T) : g[s] = h[s]
<1> DEFINE C == {s \in SUBSET (S \intersect T) : g[s] # h[s]}
<1>1. SUFFICES ASSUME C # {} PROVE FALSE
  OBVIOUS
<1>2. \A s \in C : IsFiniteSet(s)
  BY FS_Subset
<1>3. PICK s \in C : \A t \in C : t \subseteq s => t = s
  <2> HIDE DEF C
  <2> QED
    BY <1>1, <1>2, SmallestSet
<1>4. /\ g[s] = (IF s = {} THEN 0 ELSE f[Pick(s)] + g[s \ {Pick(s)}])
      /\ h[s] = (IF s = {} THEN 0 ELSE f[Pick(s)] + h[s \ {Pick(s)}])
  BY DEF IsTotal
<1>5. s # {}
  BY <1>4
<1>6. s \ {Pick(s)} \notin C
  BY <1>3, <1>5, PickIn
<1>7. g[s \ {Pick(s)}] = h[s \ {Pick(s)}]
  BY <1>6
<1> QED
  BY <1>4, <1>5, <1>7

\* The recursion has a solution on every finite set.
LEMMA TotalExists ==
    ASSUME NEW f, NEW S, IsFiniteSet(S)
    PROVE  \E g : IsTotal(g, f, S)
<1> DEFINE C == {s \in SUBSET S : ~ \E g : IsTotal(g, f, s)}
<1>1. SUFFICES ASSUME C # {} PROVE FALSE
  OBVIOUS
<1>2. \A s \in C : IsFiniteSet(s)
  BY FS_Subset
<1>3. PICK T \in C : \A t \in C : t \subseteq T => t = T
  <2> HIDE DEF C
  <2> QED
    BY <1>1, <1>2, SmallestSet
<1> DEFINE Solution(s) == CHOOSE g : IsTotal(g, f, s)
<1>4. ASSUME NEW s \in SUBSET T, s # T PROVE IsTotal(Solution(s), f, s)
  <2>1. \E g : IsTotal(g, f, s)
    BY <1>3, <1>4
  <2> QED
    BY <2>1
<1> HIDE DEF Solution
<1> DEFINE V(s) == Solution(s)[s]
           rest == T \ {Pick(T)}
           G == [s \in SUBSET T |->
                    IF s = T THEN IF T = {} THEN 0 ELSE f[Pick(T)] + V(rest) ELSE V(s)]
<1>5. ASSUME NEW s \in SUBSET T, s # T
      PROVE  V(s) = (IF s = {} THEN 0 ELSE f[Pick(s)] + V(s \ {Pick(s)}))
  <2>1. CASE s = {}
    BY <1>4, <1>5, <2>1 DEF IsTotal
  <2>2. CASE s # {}
    <3> DEFINE t == s \ {Pick(s)}
    <3>1. t \in SUBSET T /\ t # T /\ t \in SUBSET (s \intersect t)
      BY <1>5
    <3>2. IsTotal(Solution(s), f, s) /\ IsTotal(Solution(t), f, t)
      BY <1>4, <1>5, <3>1
    <3>3. IsFiniteSet(s)
      BY <1>2, <1>3, FS_Subset
    <3>4. Solution(s)[t] = Solution(t)[t]
      BY <3>1, <3>2, <3>3, OneTotal
    <3>5. Solution(s)[s] = f[Pick(s)] + Solution(s)[t]
      BY <2>2, <3>2 DEF IsTotal
    <3> QED
      BY <2>2, <3>4, <3>5
  <2> QED
    BY <2>1, <2>2
<1>6. ASSUME NEW s \in SUBSET T
      PROVE  G[s] = (IF s = {} THEN 0 ELSE f[Pick(s)] + G[s \ {Pick(s)}])
  <2>1. s # {} => s \ {Pick(s)} \in SUBSET T /\ s \ {Pick(s)} # T
    BY PickIn
  <2> HIDE DEF V
  <2>2. CASE s = T
    BY <2>1, <2>2
  <2>3. CASE s # T
    BY <1>5, <2>1, <2>3
  <2> QED
    BY <2>2, <2>3
<1>7. G = [s \in SUBSET T |-> G[s]]
  OBVIOUS
<1> HIDE DEF G
<1>8. G = [s \in SUBSET T |-> IF s = {} THEN 0 ELSE f[Pick(s)] + G[s \ {Pick(s)}]]
  BY <1>6, <1>7
<1>9. IsTotal(G, f, T)
  BY <1>8 DEF IsTotal
<1> QED
  BY <1>3, <1>9

\* The sum over a set is that over what is left when one is picked, and that one.
LEMMA TotalByPick ==
    ASSUME NEW f, NEW S, IsFiniteSet(S)
    PROVE  Total(f, S) = IF S = {} THEN 0 ELSE f[Pick(S)] + Total(f, S \ {Pick(S)})
<1> DEFINE Solution(s) == CHOOSE g : IsTotal(g, f, s)
           t == S \ {Pick(S)}
<1>1. \A s \in SUBSET S : IsTotal(Solution(s), f, s)
  <2>1. ASSUME NEW s \in SUBSET S PROVE IsTotal(Solution(s), f, s)
    <3>1. \E g : IsTotal(g, f, s)
      BY FS_Subset, TotalExists
    <3> QED
      BY <3>1
  <2> QED
    BY <2>1
<1>2. \A s : Total(f, s) = Solution(s)[s]
  BY TotalIsAt
<1> HIDE DEF Solution
<1>3. Solution(S)[S] = IF S = {} THEN 0 ELSE f[Pick(S)] + Solution(S)[t]
  <2>1. IsTotal(Solution(S), f, S)
    BY <1>1
  <2> QED
    BY <2>1 DEF IsTotal
<1>4. Solution(S)[t] = Solution(t)[t]
  <2>1. t \in SUBSET (S \intersect t) /\ t \in SUBSET S
    OBVIOUS
  <2> QED
    BY <1>1, <2>1, OneTotal
<1> QED
  BY <1>2, <1>3, <1>4

\* An element may be taken out wherever it is.
LEMMA TotalWithout ==
    ASSUME NEW f, NEW S, IsFiniteSet(S), \A x \in S : f[x] \in Nat
    PROVE  Total(f, S) \in Nat /\ \A x \in S : Total(f, S) = f[x] + Total(f, S \ {x})
<1> DEFINE Good(s) == Total(f, s) \in Nat /\ \A x \in s : Total(f, s) = f[x] + Total(f, s \ {x})
           C == {s \in SUBSET S : ~Good(s)}
<1>1. SUFFICES ASSUME C # {} PROVE FALSE
  OBVIOUS
<1>2. \A s \in C : IsFiniteSet(s)
  BY FS_Subset
<1>3. PICK s \in C : \A t \in C : t \subseteq s => t = s
  <2> HIDE DEF C
  <2> QED
    BY <1>1, <1>2, SmallestSet
<1>4. s \in SUBSET S /\ ~Good(s)
  OBVIOUS
<1>5. ASSUME NEW x \in s PROVE Good(s \ {x})
  BY <1>3, <1>4, <1>5
<1> DEFINE p == Pick(s)
<1>6. s # {}
  <2>1. SUFFICES ASSUME s = {} PROVE FALSE
    OBVIOUS
  <2>2. Total(f, s) = 0
    BY <1>2, <2>1, TotalByPick
  <2> QED
    BY <1>4, <2>1, <2>2
<1>7. p \in s /\ Total(f, s) = f[p] + Total(f, s \ {p})
  BY <1>2, <1>6, PickIn, TotalByPick
<1> HIDE DEF p, C
<1>8. Total(f, s) \in Nat
  BY <1>4, <1>5, <1>7
<1>9. ASSUME NEW x \in s PROVE Total(f, s) = f[x] + Total(f, s \ {x})
  <2>1. CASE x = p
    BY <1>7, <2>1
  <2>2. CASE x # p
    <3>1. Total(f, s \ {p}) = f[x] + Total(f, (s \ {p}) \ {x})
      BY <1>5, <1>7, <2>2
    <3>2. Total(f, s \ {x}) = f[p] + Total(f, (s \ {x}) \ {p}) /\ Total(f, s \ {x}) \in Nat
      BY <1>5, <1>7, <2>2
    <3>3. (s \ {p}) \ {x} = (s \ {x}) \ {p}
      OBVIOUS
    <3>4. Total(f, (s \ {x}) \ {p}) \in Nat
      <4>1. (s \ {x}) \ {p} \in SUBSET s /\ (s \ {x}) \ {p} # s
        OBVIOUS
      <4>2. (s \ {x}) \ {p} \in SUBSET S /\ (s \ {x}) \ {p} \notin C
        BY <1>3, <1>4, <4>1
      <4> QED
        BY <4>2 DEF C
    <3>5. f[x] \in Nat /\ f[p] \in Nat
      BY <1>4, <1>7
    <3>6. Total(f, (s \ {p}) \ {x}) = Total(f, (s \ {x}) \ {p})
      BY <3>3
    <3> QED
      BY <1>7, <3>1, <3>2, <3>4, <3>5, <3>6
  <2> QED
    BY <2>1, <2>2
<1> QED
  BY <1>4, <1>8, <1>9

LEMMA TotalOfNone == ASSUME NEW f PROVE Total(f, {}) = 0
  BY FS_EmptySet, TotalByPick

\* The mean lies between the least and the greatest.
LEMMA TotalBounds ==
    ASSUME NEW f, NEW S, IsFiniteSet(S), NEW low \in Nat, NEW high \in Nat,
           \A x \in S : f[x] \in low .. high
    PROVE  /\ Cardinality(S) \in Nat /\ Total(f, S) \in Nat
           /\ low * Cardinality(S) <= Total(f, S) /\ Total(f, S) <= high * Cardinality(S)
<1> DEFINE Good(s) == /\ low * Cardinality(s) <= Total(f, s)
                      /\ Total(f, s) <= high * Cardinality(s)
           C == {s \in SUBSET S : ~Good(s)}
<1>1. \A s \in SUBSET S : IsFiniteSet(s) /\ Cardinality(s) \in Nat /\ Total(f, s) \in Nat
  <2>1. ASSUME NEW s \in SUBSET S PROVE IsFiniteSet(s) /\ Cardinality(s) \in Nat /\ Total(f, s) \in Nat
    <3>1. IsFiniteSet(s) /\ \A x \in s : f[x] \in Nat
      BY FS_Subset
    <3> QED
      BY <3>1, FS_CardinalityType, TotalWithout
  <2> QED
    BY <2>1
<1>2. ASSUME C # {} PROVE FALSE
  <2>1. PICK s \in C : \A t \in C : t \subseteq s => t = s
    <3> HIDE DEF C
    <3>1. \A s \in C : IsFiniteSet(s)
      BY <1>1 DEF C
    <3> QED
      BY <1>2, <3>1, SmallestSet
  <2>2. s \in SUBSET S /\ ~Good(s)
    OBVIOUS
  <2>3. s # {}
    <3>1. SUFFICES ASSUME s = {} PROVE FALSE
      OBVIOUS
    <3>2. Cardinality(s) = 0 /\ Total(f, s) = 0
      BY <3>1, FS_EmptySet, TotalOfNone
    <3> QED
      BY <2>2, <3>2
  <2> DEFINE x == Pick(s)
             t == s \ {x}
  <2>4. x \in s /\ t \in SUBSET S /\ Good(t)
    BY <2>1, <2>2, <2>3, PickIn
  <2>5. Total(f, s) = f[x] + Total(f, t)
    BY <1>1, <2>2, <2>3, TotalByPick
  <2>6. Cardinality(s) = Cardinality(t) + 1
    <3>1. IsFiniteSet(s)
      BY <1>1, <2>2
    <3>2. Cardinality(t) = Cardinality(s) - 1
      BY <2>4, <3>1, FS_RemoveElement
    <3>3. Cardinality(s) \in Nat
      BY <1>1, <2>2
    <3> QED
      BY <3>2, <3>3
  <2> HIDE DEF x, t, C
  <2>7. /\ Cardinality(t) \in Nat /\ Total(f, t) \in Nat /\ f[x] \in Nat
        /\ low <= f[x] /\ f[x] <= high
    BY <1>1, <2>2, <2>4
  <2>8. /\ low * Cardinality(s) = low * Cardinality(t) + low
        /\ high * Cardinality(s) = high * Cardinality(t) + high
        /\ low * Cardinality(t) \in Nat /\ high * Cardinality(t) \in Nat
    BY <2>6, <2>7, SMT
  <2>9. low * Cardinality(t) <= Total(f, t) /\ Total(f, t) <= high * Cardinality(t)
    BY <2>4
  <2>10. low * Cardinality(s) <= Total(f, s) /\ Total(f, s) <= high * Cardinality(s)
    <3> DEFINE a == low * Cardinality(t)
               b == high * Cardinality(t)
    <3>1. a \in Nat /\ b \in Nat /\ a <= Total(f, t) /\ Total(f, t) <= b
      BY <2>8, <2>9
    <3>2. low * Cardinality(s) = a + low /\ high * Cardinality(s) = b + high
      BY <2>8
    <3> HIDE DEF a, b
    <3> QED
      BY <2>5, <2>7, <3>1, <3>2
  <2> QED
    BY <2>2, <2>10
<1>3. Good(S)
  BY <1>2
<1> QED
  BY <1>1, <1>3
-----------------------------------------------------------------------------
(***************************************************************************)
(* Votes and the gate on them.                                             *)
(***************************************************************************)

\* Multiplication by a natural number preserves the order.
LEMMA Monotone ==
    ASSUME NEW x \in Nat, NEW y \in Nat, NEW z \in Nat, x <= y
    PROVE  x * z \in Nat /\ x * z <= y * z
  BY SMT

\* A quotient lies between the bounds whose multiples enclose the dividend.
LEMMA DivBounds ==
    ASSUME NEW n \in Nat, NEW t \in Nat \ {0}, NEW low \in Nat, NEW high \in Nat,
           low * t <= n, n <= high * t
    PROVE  n \div t \in low .. high
<1> DEFINE q == n \div t
<1>1. q \in Int /\ n = (t * q) + (n % t) /\ n % t \in 0 .. (t - 1)
  BY SMT
<1>2. q >= low
  <2>1. SUFFICES ASSUME q + 1 <= low PROVE FALSE
    BY <1>1
  <2>2. (t * q) + t <= low * t
    BY <1>1, <2>1, SMT
  <2> QED
    BY <1>1, <2>2
<1>3. q <= high
  <2>1. SUFFICES ASSUME high + 1 <= q PROVE FALSE
    BY <1>1
  <2>2. (high * t) + t <= t * q
    BY <1>1, <2>1, SMT
  <2> QED
    BY <1>1, <2>2
<1> QED
  BY <1>1, <1>2, <1>3

\* A vote moves a reputation towards what it proposes and not past it: the new
\* value lies between the two, whatever the voter's weight.
THEOREM VoteNeverOvershoots ==
    ASSUME NEW top \in Nat \ {0}, NEW weight \in 0 .. top,
           NEW low \in Nat, NEW high \in Nat,
           NEW current \in low .. high, NEW proposed \in low .. high
    PROVE  Weighted(top, current, proposed, weight) \in low .. high
<1> DEFINE x == current * (top - weight)
           y == proposed * weight
<1>1. x \in Nat /\ low * (top - weight) <= x /\ x <= high * (top - weight)
  BY Monotone
<1>2. y \in Nat /\ low * weight <= y /\ y <= high * weight
  BY Monotone
<1>3. /\ low * (top - weight) + low * weight = low * top
      /\ high * (top - weight) + high * weight = high * top
  BY SMT
<1> HIDE DEF x, y
<1>4. /\ low * (top - weight) \in Nat /\ low * weight \in Nat
      /\ high * (top - weight) \in Nat /\ high * weight \in Nat
  BY SMT
<1>5. x + y \in Nat /\ low * top <= x + y /\ x + y <= high * top
  BY <1>1, <1>2, <1>3, <1>4
<1>6. (x + y) \div top \in low .. high
  BY <1>5, DivBounds
<1> QED
  BY <1>6 DEF Weighted, x, y

\* The gate shuts nobody's table: the member with the greatest reputation is not
\* below the mean, so that it passes, whatever the deviation; and when all
\* reputations are the same everyone passes.
THEOREM GateIsOpen ==
    ASSUME NEW table, NEW sigma, IsFiniteSet(DOMAIN table),
           \A e \in DOMAIN table : table[e] \in Nat
    PROVE  /\ DOMAIN table # {} => \E e \in DOMAIN table : AtThreshold(table, sigma, table[e])
           /\ (\A d, e \in DOMAIN table : table[d] = table[e]) =>
                 \A e \in DOMAIN table : AtThreshold(table, sigma, table[e])
<1> DEFINE S == DOMAIN table
           n == Cardinality(S)
           sum == Total(table, S)
<1>1. ASSUME NEW m \in S, \A e \in S : table[e] <= table[m]
      PROVE  AtThreshold(table, sigma, table[m])
  <2>1. table[m] \in Nat /\ \A e \in S : table[e] \in 0 .. table[m]
    BY <1>1
  <2>2. n \in Nat /\ sum \in Nat /\ sum <= table[m] * n
    BY <2>1, TotalBounds
  <2> DEFINE t == table[m] * n
  <2>3. t \in Nat
    BY <2>1, <2>2, SMT
  <2>4. sum - t <= 0
    BY <2>2, <2>3
  <2> QED
    BY <2>4 DEF AtThreshold, Total
<1>2. ASSUME S # {} PROVE \E m \in S : \A e \in S : table[e] <= table[m]
  <2> DEFINE T == {table[e] : e \in S}
             U == {k \in Nat : \A x \in T : x <= k}
  <2>1. IsFiniteSet(T) /\ T \in SUBSET Nat /\ T # {}
    <3> DEFINE f == [e \in S |-> table[e]]
    <3>1. f \in [S -> T] /\ \A x \in T : \E e \in S : f[e] = x
      OBVIOUS
    <3>2. f \in Surjection(S, T)
      BY <3>1 DEF Surjection
    <3>3. IsFiniteSet(T)
      BY <3>2, FS_Surjection
    <3> QED
      BY <1>2, <3>3
  <2> HIDE DEF T
  <2>2. \E x \in T : \A y \in T : y <= x
    BY <2>1, GreatestOfNumbers
  <2> QED
    BY <2>2 DEF T
<1>3. ASSUME \A d, e \in S : table[d] = table[e], NEW m \in S
      PROVE  AtThreshold(table, sigma, table[m])
  BY <1>1, <1>3
<1> QED
  BY <1>1, <1>2, <1>3
-----------------------------------------------------------------------------
(***************************************************************************)
(* Steps.                                                                  *)
(***************************************************************************)

\* A step is a stuttering step or one of the actions.
LEMMA StepCases ==
    ASSUME [Next]_vars
    PROVE  \/ UNCHANGED vars
           \/ \E v \in Vote, caller \in Peer, target \in Peer, r \in Proposed : VoteList(v, caller, target, r)
           \/ \E v \in Vote : VoteStats(v)
           \/ \E v \in Vote : VoteWrite(v)
           \/ \E c \in Check, p \in Peer, claim \in Claimed : Announce(c, p, claim)
           \/ \E c \in Check, delta \in {Gain, -Penalty} : NudgeRead(c, delta)
           \/ \E c \in Check : NudgeNothing(c)
           \/ \E c \in Check : NudgeWrite(c)
           \/ \E p \in Peer, claim \in Claimed : Candidate(p, claim)
           \/ DiscoveryList
           \/ DiscoveryRemove
           \/ DiscoveryAdd
           \/ Crash
  BY DEF Next
-----------------------------------------------------------------------------
(***************************************************************************)
(* What handlers remember, and what the storage calls do.                  *)
(***************************************************************************)
LEMMA VoteFields ==
    ASSUME NEW m \in VoteTask
    PROVE  /\ m.at = "listed" => /\ m.target \in Peer /\ m.weight \in Reputation
                                 /\ m.old \in Reputation /\ m.proposed \in Proposed
           /\ m.at = "write" => m.target \in Peer /\ m.new \in Reputation
  BY DEF VoteTask, Idle

LEMMA CheckFields ==
    ASSUME NEW m \in CheckTask
    PROVE  /\ m.at = "verify" => m.peer \in Peer
           /\ m.at = "write" => m.peer \in Peer /\ m.new \in Reputation
  BY DEF CheckTask, Idle

LEMMA SweepFields ==
    ASSUME NEW m \in Sweep
    PROVE  /\ m.at \in {"list", "remove", "add"} => m.peer \in Peer /\ m.claim \in Claimed
           /\ m.at = "remove" => m.worst \in Peer
  BY DEF Sweep, Idle

LEMMA NeutralIsReputation == Neutral \in Reputation
  BY PeerTableAssumption, SMT DEF Neutral, Reputation

\* The sum of a reputation and a nudge is clamped.
LEMMA NudgedType ==
    ASSUME NEW r \in Reputation, NEW delta \in {Gain, -Penalty}
    PROVE  Nudged(r, delta) \in Reputation
<1> DEFINE sum == r + delta
           low == Min({Top, sum})
<1>1. sum \in Int /\ Top \in Nat
  BY PeerTableAssumption DEF Reputation
<1> HIDE DEF sum
<1>2. low \in Int /\ low <= Top
  <2>1. \E x \in {Top, sum} : \A y \in {Top, sum} : x <= y
    BY <1>1
  <2>2. low \in {Top, sum} /\ \A y \in {Top, sum} : low <= y
    BY <2>1 DEF Min
  <2> QED
    BY <1>1, <2>2
<1> HIDE DEF low
<1>3. Max({0, low}) \in 0 .. Top
  <2>1. \E x \in {0, low} : \A y \in {0, low} : x >= y
    BY <1>2
  <2>2. Max({0, low}) \in {0, low} /\ \A y \in {0, low} : Max({0, low}) >= y
    BY <2>1 DEF Max
  <2> QED
    BY <1>1, <1>2, <2>2
<1> QED
  BY <1>3 DEF Nudged, Reputation, low, sum

\* add_peer: known peers keep their reputation, and at most one is new.
LEMMA AddPeerFacts ==
    ASSUME TypeOK, NEW p \in Peer, NEW claim \in Claimed, AddPeer(p, claim)
    PROVE  /\ Known' = Known \union {p} /\ Known' \subseteq Peer
           /\ score' \in [Known' -> Reputation]
           /\ \A q \in Known : score'[q] = score[q]
<1>1. Known' = Known \union {p} /\ Known' \subseteq Peer /\ \A q \in Known : score'[q] = score[q]
  BY DEF AddPeer, Known, TypeOK
<1>2. score' = [q \in Known' |-> IF q \in Known THEN score[q] ELSE IF KeepsClaim THEN claim ELSE Neutral]
  BY <1>1 DEF AddPeer
<1>3. claim \in Reputation /\ Neutral \in Reputation /\ score \in [Known -> Reputation]
  BY NeutralIsReputation, PeerTableAssumption DEF TypeOK
<1>4. score' \in [Known' -> Reputation]
  BY <1>2, <1>3
<1> QED
  BY <1>1, <1>4

\* update_peer_reputation: no other reputation changes, and nobody comes or goes.
LEMMA UpdateFacts ==
    ASSUME TypeOK, NEW p, NEW r \in Reputation, UpdateReputation(p, r)
    PROVE  /\ Known' = Known /\ score' \in [Known -> Reputation]
           /\ \A q \in Known : q # p => score'[q] = score[q]
  BY DEF UpdateReputation, Known, TypeOK

\* remove_peer: one peer goes, the others keep their reputation.
LEMMA RemoveFacts ==
    ASSUME TypeOK, NEW p, RemovePeer(p)
    PROVE  /\ Known' = Known \ {p} /\ score' \in [Known' -> Reputation]
           /\ \A q \in Known' : score'[q] = score[q]
<1>1. score' = [q \in Known \ {p} |-> score[q]]
  BY DEF RemovePeer, Restrict
<1>2. Known' = Known \ {p}
  BY <1>1 DEF Known
<1>3. \A q \in Known \ {p} : score[q] \in Reputation
  BY DEF TypeOK
<1> QED
  BY <1>1, <1>2, <1>3

\* The history counts up, and so does the room there may be.
LEMMA RoomFacts ==
    ASSUME TypeOK
    PROVE  Room \in Nat /\ (IF MaxPeers = 0 THEN 1 ELSE MaxPeers) <= Room
  BY PeerTableAssumption DEF TypeOK, Room

LEMMA FaultRoom ==
    ASSUME TypeOK, Fault, UNCHANGED entered
    PROVE  faults' \in Nat /\ Room' = Room + 1
  BY PeerTableAssumption DEF TypeOK, Fault, Room

\* One more element makes a finite set larger by one at most.
LEMMA OneMore ==
    ASSUME NEW S, IsFiniteSet(S), NEW x
    PROVE  /\ IsFiniteSet(S \union {x}) /\ Cardinality(S) \in Nat
           /\ Cardinality(S \union {x}) \in Nat
           /\ Cardinality(S) <= Cardinality(S \union {x})
           /\ Cardinality(S \union {x}) <= Cardinality(S) + 1
<1>1. /\ IsFiniteSet(S \union {x})
      /\ Cardinality(S \union {x}) = IF x \in S THEN Cardinality(S) ELSE Cardinality(S) + 1
  BY FS_AddElement
<1>2. Cardinality(S) \in Nat
  BY FS_CardinalityType
<1> QED
  BY <1>1, <1>2

\* A step that leaves the table and the sweep alone, or changes reputations only.
LEMMA SameTable ==
    ASSUME IInv, TypeOK', Known' = Known, UNCHANGED discovery, Room <= Room'
    PROVE  IInv'
<1>1. Room \in Nat /\ Room' \in Nat
  <2>1. entered' \in Nat /\ faults' \in Nat
    BY DEF TypeOK
  <2>2. ASSUME NEW e \in Nat, NEW f \in Nat
        PROVE  (IF MaxPeers = 0 THEN 1 ELSE MaxPeers) + e + f \in Nat
    BY PeerTableAssumption
  <2>3. Room' \in Nat
    BY <2>1, <2>2 DEF Room
  <2>4. Room \in Nat
    BY RoomFacts DEF IInv
  <2> QED
    BY <2>3, <2>4
<1>2. Cardinality(Known) \in Nat /\ \A x : Cardinality(Known \union {x}) \in Nat
  BY OneMore DEF IInv
<1>3. CapHolds'
  BY <1>1, <1>2 DEF IInv, CapHolds
<1>4. SweepInv'
  BY <1>1, <1>2 DEF IInv, SweepInv
<1> QED
  BY <1>3, <1>4 DEF IInv
-----------------------------------------------------------------------------
(***************************************************************************)
(* Votes and nudges.                                                       *)
(***************************************************************************)
LEMMA VoteListKeeps ==
    ASSUME IInv, NEW v \in Vote, NEW caller \in Peer, NEW target \in Peer, NEW r \in Proposed,
           VoteList(v, caller, target, r)
    PROVE  IInv'
<1> USE DEF VoteList
<1>1. TypeOK
  BY DEF IInv
<1> DEFINE m == [at |-> "listed", target |-> target, proposed |-> r,
                 weight |-> score[caller], old |-> score[target]]
<1>2. m \in VoteTask
  BY <1>1 DEF TypeOK, VoteTask
<1> HIDE DEF m
<1>3. vote' = [vote EXCEPT ![v] = m]
  BY DEF m
<1>4. TypeOK' /\ Known' = Known /\ Room' = Room
  BY <1>1, <1>2, <1>3 DEF TypeOK, Room, Known
<1> QED
  BY <1>1, <1>4, RoomFacts, SameTable

LEMMA VoteStatsKeeps ==
    ASSUME IInv, NEW v \in Vote, VoteStats(v)
    PROVE  IInv'
<1>1. TypeOK /\ vote[v] \in VoteTask
  BY DEF IInv, TypeOK
<1> DEFINE n == Weighted(Top, vote[v].old, vote[v].proposed, vote[v].weight)
           m == [at |-> "write", target |-> vote[v].target, new |-> n]
<1>2. /\ vote[v].target \in Peer /\ vote[v].weight \in Reputation
      /\ vote[v].old \in Reputation /\ vote[v].proposed \in Proposed
  BY <1>1, VoteFields DEF VoteStats
<1>3. n \in 0 .. Top
  BY <1>2, PeerTableAssumption, VoteNeverOvershoots DEF Reputation
<1> HIDE DEF n
<1>4. m \in VoteTask /\ Idle \in VoteTask
  BY <1>2, <1>3 DEF VoteTask, Reputation
<1> HIDE DEF m
<1>5. /\ vote' = [vote EXCEPT ![v] = m] \/ vote' = [vote EXCEPT ![v] = Idle]
      /\ UNCHANGED <<score, check, discovery, entered>>
      /\ Fault \/ UNCHANGED faults
  BY DEF VoteStats, m, n
<1>6. faults' \in Nat /\ Room <= Room'
  BY <1>1, <1>5, FaultRoom, RoomFacts DEF TypeOK, Room
<1>7. TypeOK' /\ Known' = Known
  BY <1>1, <1>4, <1>5, <1>6 DEF TypeOK, Known
<1> QED
  BY <1>5, <1>6, <1>7, SameTable

\* A write of a reputation, or an error in its place.
LEMMA WriteKeeps ==
    ASSUME IInv, NEW p, NEW r \in Reputation,
           \/ UpdateReputation(p, r) /\ UNCHANGED faults
           \/ Fault /\ UNCHANGED score,
           vote' \in [Vote -> VoteTask], check' \in [Check -> CheckTask],
           UNCHANGED <<discovery, entered>>
    PROVE  IInv'
<1>1. TypeOK
  BY DEF IInv
<1>2. Known' = Known /\ score' \in [Known -> Reputation]
  BY <1>1, UpdateFacts DEF Known, TypeOK
<1>3. faults' \in Nat /\ Room <= Room'
  <2>1. CASE UNCHANGED faults
    BY <1>1, <2>1, RoomFacts DEF TypeOK, Room
  <2>2. CASE Fault
    BY <1>1, <2>2, FaultRoom, RoomFacts
  <2> QED
    BY <2>1, <2>2
<1>4. TypeOK'
  BY <1>1, <1>2, <1>3 DEF TypeOK
<1> QED
  BY <1>2, <1>3, <1>4, SameTable

LEMMA VoteWriteKeeps ==
    ASSUME IInv, NEW v \in Vote, VoteWrite(v)
    PROVE  IInv'
<1>1. TypeOK /\ vote[v] \in VoteTask
  BY DEF IInv, TypeOK
<1>2. vote[v].new \in Reputation
  BY <1>1, VoteFields DEF VoteWrite
<1>3. Idle \in VoteTask
  BY DEF VoteTask
<1>4. vote' \in [Vote -> VoteTask] /\ check' \in [Check -> CheckTask]
  BY <1>1, <1>3 DEF VoteWrite, TypeOK
<1> QED
  BY <1>2, <1>4, WriteKeeps DEF VoteWrite

LEMMA NudgeWriteKeeps ==
    ASSUME IInv, NEW c \in Check, NudgeWrite(c)
    PROVE  IInv'
<1>1. TypeOK /\ check[c] \in CheckTask
  BY DEF IInv, TypeOK
<1>2. check[c].new \in Reputation
  BY <1>1, CheckFields DEF NudgeWrite
<1>3. Idle \in CheckTask
  BY DEF CheckTask
<1>4. vote' \in [Vote -> VoteTask] /\ check' \in [Check -> CheckTask]
  BY <1>1, <1>3 DEF NudgeWrite, TypeOK
<1> QED
  BY <1>2, <1>4, WriteKeeps DEF NudgeWrite

LEMMA NudgeReadKeeps ==
    ASSUME IInv, NEW c \in Check, NEW delta \in {Gain, -Penalty}, NudgeRead(c, delta)
    PROVE  IInv'
<1>1. TypeOK /\ check[c] \in CheckTask
  BY DEF IInv, TypeOK
<1> DEFINE p == check[c].peer
           old == IF p \in Known THEN score[p] ELSE Neutral
           m == [at |-> "write", peer |-> p, delta |-> delta, new |-> Nudged(old, delta)]
<1>2. p \in Peer
  BY <1>1, CheckFields DEF NudgeRead
<1>3. old \in Reputation
  BY <1>1, NeutralIsReputation DEF TypeOK
<1>4. check' = [check EXCEPT ![c] = m] /\ UNCHANGED <<score, vote, discovery, entered, faults>>
  BY DEF NudgeRead
<1> HIDE DEF p, old
<1>5. m \in CheckTask
  BY <1>2, <1>3, NudgedType DEF CheckTask
<1> HIDE DEF m
<1>6. TypeOK' /\ Known' = Known /\ Room' = Room
  BY <1>1, <1>4, <1>5 DEF TypeOK, Room, Known
<1> QED
  BY <1>1, <1>4, <1>6, RoomFacts, SameTable

LEMMA NudgeNothingKeeps ==
    ASSUME IInv, NEW c \in Check, NudgeNothing(c)
    PROVE  IInv'
<1>1. TypeOK /\ Idle \in CheckTask
  BY DEF IInv, CheckTask
<1>2. TypeOK' /\ Known' = Known /\ Room' = Room
  BY <1>1 DEF NudgeNothing, TypeOK, Room, Known
<1> QED
  BY <1>1, <1>2, RoomFacts, SameTable DEF NudgeNothing
-----------------------------------------------------------------------------
(***************************************************************************)
(* Announcements and the sweep.                                            *)
(***************************************************************************)

\* A peer that was not known takes the room its entry makes.
LEMMA AnnounceKeeps ==
    ASSUME IInv, NEW c \in Check, NEW p \in Peer, NEW claim \in Claimed, Announce(c, p, claim)
    PROVE  IInv'
<1>1. TypeOK /\ IsFiniteSet(Known) /\ CapHolds /\ SweepInv
  BY DEF IInv
<1>2. /\ Known' = Known \union {p} /\ Known' \subseteq Peer /\ score' \in [Known' -> Reputation]
  BY <1>1, AddPeerFacts DEF Announce
<1>3. check' \in [Check -> CheckTask]
  <2>1. [at |-> "verify", peer |-> p] \in CheckTask
    BY DEF CheckTask
  <2> QED
    BY <1>1, <2>1 DEF Announce, TypeOK
<1>4. entered' \in Nat /\ UNCHANGED <<vote, discovery, faults>>
  BY <1>1 DEF Announce, TypeOK
<1>5. TypeOK'
  BY <1>1, <1>2, <1>3, <1>4 DEF TypeOK
<1>6. CASE p \in Known
  <2>1. Known' = Known /\ Room' = Room
    BY <1>2, <1>6 DEF Announce, Room
  <2> QED
    BY <1>1, <1>4, <1>5, <2>1, RoomFacts, SameTable
<1>7. CASE p \notin Known
  <2>1. entered' = entered + 1
    BY <1>7 DEF Announce
  <2>2. Room \in Nat /\ Room' = Room + 1
    BY <1>1, <1>4, <2>1, RoomFacts, PeerTableAssumption DEF TypeOK, Room
  <2>3. IsFiniteSet(Known') /\ CapHolds'
    <3>1. /\ IsFiniteSet(Known') /\ Cardinality(Known) \in Nat /\ Cardinality(Known') \in Nat
          /\ Cardinality(Known') <= Cardinality(Known) + 1
      BY <1>1, <1>2, OneMore
    <3> QED
      BY <1>1, <2>2, <3>1 DEF CapHolds
  <2>4. SweepInv'
    <3>1. ASSUME discovery.at = "add"
          PROVE  Cardinality(Known' \union {discovery.peer}) <= Room'
      <4> DEFINE T == Known \union {discovery.peer}
      <4>1. IsFiniteSet(T) /\ Cardinality(T) <= Room
        BY <1>1, <3>1, OneMore DEF SweepInv
      <4>2. Known' \union {discovery.peer} = T \union {p}
        BY <1>2
      <4> HIDE DEF T
      <4>3. /\ Cardinality(T) \in Nat /\ Cardinality(T \union {p}) \in Nat
            /\ Cardinality(T \union {p}) <= Cardinality(T) + 1
        BY <4>1, OneMore
      <4>4. Cardinality(T \union {p}) <= Room'
        BY <2>2, <4>1, <4>3
      <4> QED
        BY <4>2, <4>4
    <3> QED
      BY <1>1, <1>2, <1>4, <3>1 DEF SweepInv
  <2> QED
    BY <1>5, <2>3, <2>4 DEF IInv
<1> QED
  BY <1>6, <1>7

LEMMA CandidateKeeps ==
    ASSUME IInv, NEW p \in Peer, NEW claim \in Claimed, Candidate(p, claim)
    PROVE  IInv'
<1>1. TypeOK /\ IsFiniteSet(Known) /\ CapHolds
  BY DEF IInv
<1>2. discovery' = [at |-> "list", peer |-> p, claim |-> claim]
  BY DEF Candidate
<1>3. discovery' \in Sweep /\ discovery'.at = "list"
  BY <1>2 DEF Sweep
<1>4. TypeOK' /\ IsFiniteSet(Known') /\ CapHolds'
  BY <1>1, <1>3 DEF Candidate, TypeOK, CapHolds, Room, Known
<1>5. SweepInv'
  BY <1>3 DEF SweepInv
<1> QED
  BY <1>4, <1>5 DEF IInv

\* The sweep goes on to add when there is room, or when a failing list_peers makes
\* it believe so, which is a fault; else to the worst peer, or no further.
LEMMA DiscoveryListKeeps ==
    ASSUME IInv, DiscoveryList
    PROVE  IInv'
<1>1. TypeOK /\ IsFiniteSet(Known) /\ CapHolds /\ discovery \in Sweep
  BY DEF IInv, TypeOK
<1>2. discovery.peer \in Peer /\ discovery.claim \in Claimed
  BY <1>1, SweepFields DEF DiscoveryList
<1> DEFINE p == discovery.peer
           add == [at |-> "add", peer |-> p, claim |-> discovery.claim]
<1>3. add \in Sweep /\ add.at = "add" /\ add.peer = p /\ Idle \in Sweep /\ Idle.at = "idle"
  BY <1>2 DEF Sweep, Idle
<1>4. UNCHANGED <<score, vote, check, entered>> /\ Known' = Known
  BY DEF DiscoveryList, Known
<1>5. /\ Cardinality(Known) \in Nat /\ Cardinality(Known \union {p}) \in Nat
      /\ Cardinality(Known \union {p}) <= Cardinality(Known) + 1
      /\ Room \in Nat /\ (IF MaxPeers = 0 THEN 1 ELSE MaxPeers) <= Room
  BY <1>1, OneMore, RoomFacts
<1>6. CASE \/ ~(Cardinality(Known) >= MaxPeers) /\ discovery' = add /\ UNCHANGED faults
           \/ Known = {} /\ discovery' = add /\ UNCHANGED faults
  <2>1. Cardinality(Known \union {p}) <= Room
    <3>1. CASE ~(Cardinality(Known) >= MaxPeers)
      BY <1>5, <3>1, PeerTableAssumption
    <3>2. CASE Known = {}
      <4>1. Cardinality(Known) = 0
        BY <3>2, FS_EmptySet
      <4> QED
        BY <1>5, <4>1, PeerTableAssumption
    <3> QED
      BY <1>6, <3>1, <3>2
  <2>2. discovery' = add /\ UNCHANGED faults
    BY <1>6
  <2>3. Room' = Room
    BY <1>4, <2>2 DEF Room
  <2>4. discovery' \in Sweep /\ discovery'.at = "add" /\ discovery'.peer = p
    BY <1>3, <2>2
  <2> HIDE DEF p, add
  <2>5. TypeOK' /\ CapHolds'
    BY <1>1, <1>4, <2>2, <2>3, <2>4 DEF TypeOK, CapHolds
  <2>6. SweepInv'
    BY <1>4, <2>1, <2>3, <2>4 DEF SweepInv
  <2> QED
    BY <1>1, <1>4, <2>5, <2>6 DEF IInv
<1>7. CASE Fault /\ discovery' = add
  <2>1. faults' \in Nat /\ Room' = Room + 1
    BY <1>1, <1>4, <1>7, FaultRoom
  <2>2. discovery' \in Sweep /\ discovery'.at = "add" /\ discovery'.peer = p
    BY <1>3, <1>7
  <2> HIDE DEF p, add
  <2>3. TypeOK' /\ CapHolds'
    BY <1>1, <1>4, <1>5, <2>1, <2>2 DEF TypeOK, CapHolds
  <2>4. SweepInv'
    <3>1. Cardinality(Known \union {p}) <= Room'
      BY <1>1, <1>5, <2>1 DEF CapHolds
    <3> QED
      BY <1>4, <2>2, <3>1 DEF SweepInv
  <2> QED
    BY <1>1, <1>4, <2>3, <2>4 DEF IInv
<1>8. CASE /\ \E w \in Worst :
                 discovery' = IF discovery.claim > score[w]
                              THEN [at |-> "remove", peer |-> p, claim |-> discovery.claim, worst |-> w]
                              ELSE Idle
           /\ UNCHANGED faults
  <2>1. PICK w \in Worst :
           discovery' = IF discovery.claim > score[w]
                        THEN [at |-> "remove", peer |-> p, claim |-> discovery.claim, worst |-> w]
                        ELSE Idle
    BY <1>8
  <2>2. w \in Known /\ w \in Peer
    BY <1>1 DEF Worst, TypeOK
  <2>3. /\ discovery' \in Sweep /\ discovery'.at # "add"
        /\ discovery'.at = "remove" => discovery'.worst = w
    BY <1>2, <1>3, <2>1, <2>2 DEF Sweep
  <2>4. TypeOK' /\ CapHolds'
    BY <1>1, <1>4, <1>8, <2>3 DEF TypeOK, CapHolds, Room
  <2>5. SweepInv'
    BY <1>4, <2>2, <2>3 DEF SweepInv
  <2> QED
    BY <1>1, <1>4, <2>4, <2>5 DEF IInv
<1> QED
  BY <1>6, <1>7, <1>8 DEF DiscoveryList

\* The peer that is evicted makes room for the candidate.
LEMMA DiscoveryRemoveKeeps ==
    ASSUME IInv, DiscoveryRemove
    PROVE  IInv'
<1>1. TypeOK /\ IsFiniteSet(Known) /\ CapHolds /\ discovery \in Sweep /\ discovery.worst \in Known
  BY DEF IInv, TypeOK, SweepInv, DiscoveryRemove
<1>2. discovery.peer \in Peer /\ discovery.claim \in Claimed
  BY <1>1, SweepFields DEF DiscoveryRemove
<1> DEFINE p == discovery.peer
           w == discovery.worst
           add == [at |-> "add", peer |-> p, claim |-> discovery.claim]
<1>3. add \in Sweep /\ add.at = "add" /\ add.peer = p /\ Idle \in Sweep /\ Idle.at = "idle"
  BY <1>2 DEF Sweep, Idle
<1>4. Room \in Nat /\ Cardinality(Known) \in Nat /\ Cardinality(Known) <= Room
  BY <1>1, RoomFacts, OneMore DEF CapHolds
<1>5. UNCHANGED <<vote, check, entered>>
  BY DEF DiscoveryRemove
<1>6. CASE RemovePeer(w) /\ discovery' = add /\ UNCHANGED faults
  <2>1. Known' = Known \ {w} /\ score' \in [Known' -> Reputation]
    BY <1>1, <1>6, RemoveFacts
  <2>2. IsFiniteSet(Known') /\ Cardinality(Known') = Cardinality(Known) - 1
    BY <1>1, <2>1, FS_RemoveElement
  <2>3. discovery' \in Sweep /\ discovery'.at = "add" /\ discovery'.peer = p /\ Room' = Room
    BY <1>3, <1>5, <1>6 DEF Room
  <2> HIDE DEF p, add
  <2>4. TypeOK'
    BY <1>1, <1>5, <1>6, <2>1, <2>3 DEF TypeOK
  <2>5. CapHolds'
    BY <1>4, <2>2, <2>3 DEF CapHolds
  <2>6. SweepInv'
    <3>1. Cardinality(Known' \union {p}) <= Cardinality(Known') + 1 /\ Cardinality(Known' \union {p}) \in Nat
      BY <2>2, OneMore
    <3> QED
      BY <1>4, <2>2, <2>3, <3>1 DEF SweepInv
  <2> QED
    BY <2>2, <2>4, <2>5, <2>6 DEF IInv
<1>7. CASE Fault /\ discovery' = Idle /\ UNCHANGED score
  <2>1. faults' \in Nat /\ Room' = Room + 1 /\ Known' = Known
    BY <1>1, <1>5, <1>7, FaultRoom DEF Known
  <2>2. TypeOK' /\ CapHolds'
    BY <1>1, <1>3, <1>4, <1>5, <1>7, <2>1 DEF TypeOK, CapHolds
  <2>3. SweepInv'
    BY <1>3, <1>7 DEF SweepInv
  <2> QED
    BY <1>1, <2>1, <2>2, <2>3 DEF IInv
<1> QED
  BY <1>6, <1>7 DEF DiscoveryRemove

LEMMA DiscoveryAddKeeps ==
    ASSUME IInv, DiscoveryAdd
    PROVE  IInv'
<1>1. /\ TypeOK /\ IsFiniteSet(Known) /\ CapHolds /\ discovery \in Sweep
      /\ Cardinality(Known \union {discovery.peer}) <= Room
  BY DEF IInv, TypeOK, SweepInv, DiscoveryAdd
<1>2. discovery.peer \in Peer /\ discovery.claim \in Claimed
  BY <1>1, SweepFields DEF DiscoveryAdd
<1>3. Idle \in Sweep /\ Idle.at = "idle" /\ discovery' = Idle /\ UNCHANGED <<vote, check, entered>>
  BY DEF Sweep, Idle, DiscoveryAdd
<1>4. Room \in Nat /\ Cardinality(Known) \in Nat
  BY <1>1, RoomFacts, OneMore
<1>5. SweepInv'
  BY <1>3 DEF SweepInv
<1>6. CASE AddPeer(discovery.peer, discovery.claim) /\ UNCHANGED faults
  <2>1. /\ Known' = Known \union {discovery.peer} /\ Known' \subseteq Peer
        /\ score' \in [Known' -> Reputation]
    BY <1>1, <1>2, <1>6, AddPeerFacts
  <2>2. TypeOK'
    BY <1>1, <1>3, <1>6, <2>1 DEF TypeOK
  <2>3. IsFiniteSet(Known') /\ CapHolds'
    <3>1. Room' = Room
      BY <1>3, <1>6 DEF Room
    <3> QED
      BY <1>1, <2>1, <3>1, OneMore DEF CapHolds
  <2> QED
    BY <1>5, <2>2, <2>3 DEF IInv
<1>7. CASE Fault /\ UNCHANGED score
  <2>1. faults' \in Nat /\ Room' = Room + 1 /\ Known' = Known
    BY <1>1, <1>3, <1>7, FaultRoom DEF Known
  <2>2. TypeOK' /\ CapHolds'
    BY <1>1, <1>3, <1>4, <1>7, <2>1 DEF TypeOK, CapHolds
  <2> QED
    BY <1>1, <1>5, <2>1, <2>2 DEF IInv
<1> QED
  BY <1>6, <1>7 DEF DiscoveryAdd

LEMMA CrashKeeps ==
    ASSUME IInv, Crash
    PROVE  IInv'
<1>1. TypeOK /\ IsFiniteSet(Known) /\ CapHolds
  BY DEF IInv
<1>2. faults' \in Nat /\ Room \in Nat /\ Room' = Room + 1
  BY <1>1, FaultRoom, RoomFacts DEF Crash
<1>3. /\ Idle \in VoteTask /\ Idle \in CheckTask /\ Idle \in Sweep /\ Idle.at = "idle"
      /\ discovery' = Idle
  BY DEF VoteTask, CheckTask, Sweep, Idle, Crash
<1>4. vote' \in [Vote -> VoteTask] /\ check' \in [Check -> CheckTask]
  BY <1>3 DEF Crash
<1>5. SweepInv'
  BY <1>3 DEF SweepInv
<1>6. CASE score' = <<>>
  <2>1. Known' = {} /\ score' \in [{} -> Reputation]
    BY <1>6 DEF Known
  <2>2. TypeOK'
    BY <1>1, <1>2, <1>3, <1>4, <2>1 DEF TypeOK, Crash
  <2>3. IsFiniteSet(Known') /\ Cardinality(Known') = 0
    BY <2>1, FS_EmptySet
  <2> QED
    BY <1>2, <1>5, <2>2, <2>3 DEF IInv, CapHolds
<1>7. CASE UNCHANGED score
  <2>1. Known' = Known /\ Cardinality(Known) \in Nat
    BY <1>1, <1>7, OneMore DEF Known
  <2>2. TypeOK'
    BY <1>1, <1>2, <1>3, <1>4, <1>7, <2>1 DEF TypeOK, Crash
  <2> QED
    BY <1>1, <1>2, <1>5, <2>1, <2>2 DEF IInv, CapHolds
<1> QED
  BY <1>6, <1>7 DEF Crash
-----------------------------------------------------------------------------
(***************************************************************************)
(* The theorems.                                                           *)
(***************************************************************************)
LEMMA InvInit == Init => IInv
<1> SUFFICES ASSUME Init PROVE IInv
  OBVIOUS
<1>1. Known = {} /\ score \in [{} -> Reputation]
  BY DEF Init, Known
<1>2. /\ Idle \in VoteTask /\ Idle \in CheckTask /\ Idle \in Sweep /\ Idle.at = "idle"
  BY DEF VoteTask, CheckTask, Sweep, Idle
<1>3. TypeOK
  BY <1>1, <1>2 DEF Init, TypeOK
<1>4. IsFiniteSet(Known) /\ Cardinality(Known) = 0
  BY <1>1, FS_EmptySet
<1>5. CapHolds
  BY <1>3, <1>4, RoomFacts DEF CapHolds
<1>6. SweepInv
  BY <1>2 DEF Init, SweepInv
<1> QED
  BY <1>3, <1>4, <1>5, <1>6 DEF IInv

LEMMA InvStep == IInv /\ [Next]_vars => IInv'
<1> SUFFICES ASSUME IInv, [Next]_vars PROVE IInv'
  OBVIOUS
<1>1. CASE UNCHANGED vars
  <2>1. TypeOK' /\ Known' = Known /\ Room' = Room /\ UNCHANGED discovery
    BY <1>1 DEF IInv, vars, TypeOK, Known, Room
  <2>2. Room \in Nat
    BY RoomFacts DEF IInv
  <2> QED
    BY <2>1, <2>2, SameTable
<1> QED
  BY <1>1, StepCases, VoteListKeeps, VoteStatsKeeps, VoteWriteKeeps, AnnounceKeeps,
     NudgeReadKeeps, NudgeNothingKeeps, NudgeWriteKeeps, CandidateKeeps, DiscoveryListKeeps,
     DiscoveryRemoveKeeps, DiscoveryAddKeeps, CrashKeeps

\* However votes, announcements and the sweep interleave between their reads and
\* their writes, the invariant the properties rest on holds.
THEOREM Invariance == Spec => []IInv
<1>1. Init => IInv
  BY InvInit
<1>2. IInv /\ [Next]_vars => IInv'
  BY InvStep
<1> QED
  BY <1>1, <1>2, PTL DEF Spec

\* A reputation is never below 0.0 or above 1.0, whatever is voted with whatever
\* weight, and however often a peer is nudged.
THEOREM TypeCorrect == Spec => []TypeOK
<1>1. IInv => TypeOK
  BY DEF IInv
<1> QED
  BY <1>1, Invariance, PTL

\* try_add_peer, which counts, evicts and adds in three calls, fills the table to
\* the cap and no further, but for what POSTs enter and failing calls let in.
THEOREM CapHoldsAlways == Spec => []CapHolds
<1>1. IInv => CapHolds
  BY DEF IInv
<1> QED
  BY <1>1, Invariance, PTL

\* Only a vote or a nudge changes the reputation of a peer that stays: add_peer of a
\* known peer, remove_peer of another and a crash do not.
THEOREM ReputationIsEarnedHolds == Spec => ReputationIsEarned
<1> DEFINE Earned(p) ==
       score'[p] # score[p] =>
          \/ \E v \in Vote : vote[v].at = "write" /\ vote[v].target = p /\ vote'[v] = Idle
          \/ \E c \in Check : check[c].at = "write" /\ check[c].peer = p /\ check'[c] = Idle
<1>1. ASSUME IInv, [Next]_vars
      PROVE  [\A p \in Known \intersect DOMAIN score' : Earned(p)]_vars
  <2>1. SUFFICES ASSUME NEW p \in Known, p \in Known', score'[p] # score[p], ~UNCHANGED vars
                 PROVE  \/ \E v \in Vote : vote[v].at = "write" /\ vote[v].target = p /\ vote'[v] = Idle
                        \/ \E c \in Check : check[c].at = "write" /\ check[c].peer = p /\ check'[c] = Idle
    BY DEF Known
  <2>2. TypeOK /\ discovery \in Sweep /\ score' # score
    BY <1>1, <2>1 DEF IInv, TypeOK
  <2>3. ASSUME NEW v \in Vote, VoteWrite(v)
        PROVE  vote[v].at = "write" /\ vote[v].target = p /\ vote'[v] = Idle
    <3>1. vote[v] \in VoteTask /\ vote[v].at = "write" /\ vote'[v] = Idle
      BY <2>2, <2>3 DEF TypeOK, VoteWrite
    <3>2. UpdateReputation(vote[v].target, vote[v].new) /\ vote[v].new \in Reputation
      BY <2>2, <2>3, <3>1, VoteFields DEF VoteWrite
    <3> QED
      BY <2>1, <2>2, <3>1, <3>2, UpdateFacts
  <2>4. ASSUME NEW c \in Check, NudgeWrite(c)
        PROVE  check[c].at = "write" /\ check[c].peer = p /\ check'[c] = Idle
    <3>1. check[c] \in CheckTask /\ check[c].at = "write" /\ check'[c] = Idle
      BY <2>2, <2>4 DEF TypeOK, NudgeWrite
    <3>2. UpdateReputation(check[c].peer, check[c].new) /\ check[c].new \in Reputation
      BY <2>2, <2>4, <3>1, CheckFields DEF NudgeWrite
    <3> QED
      BY <2>1, <2>2, <3>1, <3>2, UpdateFacts
  <2>5. ASSUME NEW c \in Check, NEW q \in Peer, NEW claim \in Claimed, Announce(c, q, claim)
        PROVE  FALSE
    BY <2>1, <2>2, <2>5, AddPeerFacts DEF Announce
  <2>6. ~DiscoveryAdd
    BY <2>1, <2>2, AddPeerFacts, SweepFields DEF DiscoveryAdd
  <2>7. ~DiscoveryRemove
    BY <2>1, <2>2, RemoveFacts DEF DiscoveryRemove
  <2>8. ~Crash
    BY <2>1, <2>2 DEF Crash, Known
  <2>9. /\ \A v \in Vote, caller \in Peer, target \in Peer, r \in Proposed : ~VoteList(v, caller, target, r)
        /\ \A v \in Vote : ~VoteStats(v)
        /\ \A c \in Check, delta \in {Gain, -Penalty} : ~NudgeRead(c, delta)
        /\ \A c \in Check : ~NudgeNothing(c)
        /\ \A q \in Peer, claim \in Claimed : ~Candidate(q, claim)
        /\ ~DiscoveryList
    BY <2>2 DEF VoteList, VoteStats, NudgeRead, NudgeNothing, Candidate, DiscoveryList
  <2> QED
    BY <1>1, <2>1, <2>3, <2>4, <2>5, <2>6, <2>7, <2>8, <2>9, StepCases
<1> QED
  BY <1>1, Invariance, PTL DEF Spec, ReputationIsEarned

\* The gate on votes, the mean of the table less a multiple of its deviation, never
\* shuts a table: whatever votes, nudges and evictions have made of it some known peer
\* may vote, and everyone may when all have the same reputation.
THEOREM SomeoneMayVoteHolds == Spec => []SomeoneMayVote
<1>1. ASSUME IInv PROVE SomeoneMayVote
  <2>1. IsFiniteSet(DOMAIN score) /\ \A p \in DOMAIN score : score[p] \in Nat
    <3>1. \A p \in Known : score[p] \in 0 .. Top
      BY <1>1 DEF IInv, TypeOK, Reputation
    <3> QED
      BY <1>1, <3>1, PeerTableAssumption DEF IInv, Known
  <2> QED
    BY <2>1, GateIsOpen DEF SomeoneMayVote, MayVote, Known
<1> QED
  BY <1>1, Invariance, PTL
=============================================================================
