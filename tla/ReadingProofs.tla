---------------------------- MODULE ReadingProofs ----------------------------
(***************************************************************************)
(* Proofs about Reading, for any readers with any questions behind any     *)
(* addresses, any units and follows, any page size, rate limit and window, *)
(* and any number of changes and faults.                                   *)
(***************************************************************************)
EXTENDS Reading, TLAPS, FiniteSetTheorems, WellFoundedInduction

USE DEF dbVars

-----------------------------------------------------------------------------
(***************************************************************************)
(* Finite sets of numbers, and pages.                                      *)
(***************************************************************************)

\* A set of numbers that is not empty has a least one.
LEMMA LeastNumber ==
    ASSUME NEW T \in SUBSET Nat, T # {}
    PROVE  \E x \in T : \A y \in T : x <= y
<1> DEFINE R == OpToRel(<, Nat)
<1>1. IsWellFoundedOn(R, Nat)
  BY NatLessThanWellFounded
<1>2. \A x \in Nat, y \in Nat : x < y => <<x, y>> \in R
  BY DEF OpToRel
<1> HIDE DEF R
<1>3. PICK x \in T : \A y \in T : ~(<<y, x>> \in R)
  BY <1>1, WFMin
<1>4. \A y \in T : ~(y < x)
  BY <1>2, <1>3
<1> QED
  BY <1>3, <1>4

\* A finite one has a greatest: the one above which there are the fewest.
LEMMA GreatestOfNumbers ==
    ASSUME NEW S \in SUBSET Nat, IsFiniteSet(S), S # {}
    PROVE  \E x \in S : \A y \in S : y <= x
<1> DEFINE Above(x) == {y \in S : y > x}
           T == {Cardinality(Above(x)) : x \in S}
<1>1. \A x : IsFiniteSet(Above(x)) /\ Cardinality(Above(x)) \in Nat
  <2>1. \A x : Above(x) \in SUBSET S
    OBVIOUS
  <2> HIDE DEF Above
  <2> QED
    BY <2>1, FS_Subset, FS_CardinalityType
<1>2. T \in SUBSET Nat /\ T # {}
  BY <1>1
<1>3. PICK n \in T : \A m \in T : n <= m
  BY <1>2, LeastNumber
<1>4. PICK x \in S : n = Cardinality(Above(x))
  BY <1>3
<1>5. ASSUME NEW y \in S, y > x PROVE FALSE
  <2>1. Above(y) \in SUBSET Above(x) /\ y \in Above(x) /\ y \notin Above(y)
    BY <1>4, <1>5
  <2>2. Cardinality(Above(x)) <= Cardinality(Above(y))
    BY <1>3, <1>4
  <2> HIDE DEF Above
  <2>3. Cardinality(Above(y)) <= Cardinality(Above(x))
    BY <1>1, <2>1, FS_Subset
  <2>4. Cardinality(Above(y)) = Cardinality(Above(x))
    BY <1>1, <2>2, <2>3
  <2>5. Above(x) = Above(y)
    BY <1>1, <2>1, <2>4, FS_Subset
  <2> QED
    BY <2>1, <2>5
<1> QED
  BY <1>5

\* Max is the greatest of a finite set of numbers.
LEMMA GreatestNumber ==
    ASSUME NEW S \in SUBSET Nat, IsFiniteSet(S), S # {}
    PROVE  Max(S) \in S /\ \A y \in S : y <= Max(S)
<1>1. \E z \in S : \A y \in S : z >= y
  BY GreatestOfNumbers
<1> QED
  BY <1>1 DEF Max

\* The fields of a unit.
LEMMA UnitFields ==
    ASSUME NEW u \in Unit
    PROVE  /\ u.id \in Nat /\ u.id > 0 /\ u.author \in Author /\ u.body \subseteq Author
           /\ u.visibility \in {"public", "network", "limited"}
<1>1. u \in UnitRecord
  BY UnitAssumption
<1>2. u.body \in Body /\ u.id \in Nat \ {0} /\ u.author \in Author /\ u.visibility \in Visibility
  BY <1>1 DEF UnitRecord
<1> QED
  BY <1>2, ReadingAssumption DEF Visibility

\* A page is part of what is available, no longer than allowed, and what is left
\* over is past all of it.
LEMMA PageFacts ==
    ASSUME NEW S \in SUBSET Unit, OneUnitPerId(S)
    PROVE  /\ FirstPage(S) \subseteq S /\ IsFiniteSet(FirstPage(S))
           /\ Cardinality(FirstPage(S)) <= PageLimit
           /\ \A u \in S \ FirstPage(S), w \in FirstPage(S) : w.id < u.id
<1> DEFINE Before(i) == {v \in S : v.id < i}
           P == FirstPage(S)
<1>1. \A i : Before(i) \in SUBSET S
  OBVIOUS
<1>2. P = {u \in S : Cardinality(Before(u.id)) < PageLimit}
  BY DEF FirstPage
<1>3. IsFiniteSet(S) /\ \A u \in S : u.id \in Nat
  BY UnitFields DEF OneUnitPerId
<1>4. \A u \in S, w \in S : u.id <= w.id => Before(u.id) \in SUBSET Before(w.id)
  BY <1>3
<1>5. \A u \in S, w \in S : u.id < w.id => u \in Before(w.id) /\ u \notin Before(u.id)
  BY <1>3
<1> HIDE DEF Before, P
<1>6. \A i : IsFiniteSet(Before(i)) /\ Cardinality(Before(i)) \in Nat
  BY <1>1, <1>3, FS_Subset, FS_CardinalityType
<1>7. \A u \in S, w \in S : u.id <= w.id => Cardinality(Before(u.id)) <= Cardinality(Before(w.id))
  BY <1>4, <1>6, FS_Subset
<1>8. ASSUME NEW u \in S, NEW w \in S, u.id < w.id
      PROVE  Cardinality(Before(u.id)) # Cardinality(Before(w.id))
  <2>1. Before(u.id) # Before(w.id) /\ Before(u.id) \in SUBSET Before(w.id)
    BY <1>3, <1>4, <1>5, <1>8
  <2> QED
    BY <1>6, <2>1, FS_Subset
<1>9. P \in SUBSET S /\ IsFiniteSet(P) /\ Cardinality(P) \in Nat
  <2>1. P \in SUBSET S
    BY <1>2
  <2> QED
    BY <1>3, <2>1, FS_Subset, FS_CardinalityType
<1>10. Cardinality(P) <= PageLimit
  <2> DEFINE T == 0 .. PageLimit - 1
             f == [u \in P |-> Cardinality(Before(u.id))]
  <2>1. PageLimit \in Nat \ {0}
    BY ReadingAssumption
  <2>2. IsFiniteSet(T) /\ Cardinality(T) = PageLimit
    BY <2>1, FS_Interval
  <2>3. f \in [P -> T]
    BY <1>2, <1>6, <2>1
  <2>4. ASSUME NEW u \in P, NEW w \in P, u # w PROVE f[u] # f[w]
    <3>1. u.id # w.id
      BY <1>9, <2>4 DEF OneUnitPerId
    <3>2. u.id < w.id \/ w.id < u.id
      BY <1>3, <1>9, <3>1
    <3> QED
      BY <1>8, <1>9, <3>2
  <2> HIDE DEF T, f
  <2>5. ~(Cardinality(T) < Cardinality(P))
    BY <1>9, <2>2, <2>3, <2>4, FS_PigeonHole
  <2> QED
    BY <1>9, <2>1, <2>2, <2>5
<1>11. ASSUME NEW u \in S \ P, NEW w \in P PROVE w.id < u.id
  <2>1. SUFFICES ASSUME u.id <= w.id PROVE FALSE
    BY <1>3, <1>9
  <2>2. Cardinality(Before(u.id)) <= Cardinality(Before(w.id))
    BY <1>7, <1>9, <2>1
  <2>3. Cardinality(Before(w.id)) < PageLimit /\ ~(Cardinality(Before(u.id)) < PageLimit)
    BY <1>2
  <2> QED
    BY <1>6, <2>2, <2>3, ReadingAssumption
<1> QED
  BY <1>9, <1>10, <1>11 DEF P

\* The cursor after a page is at its last unit, or where it was if the page is empty.
LEMMA CursorFacts ==
    ASSUME NEW P \in SUBSET Unit, IsFiniteSet(P), NEW after \in Nat
    PROVE  LET last == Max({u.id : u \in P} \union {after}) IN
           /\ last \in Nat /\ after <= last
           /\ \A u \in P : u.id <= last
           /\ last = after \/ \E u \in P : u.id = last
<1> DEFINE I == {u.id : u \in P}
           T == I \union {after}
<1>1. IsFiniteSet(I)
  <2> DEFINE f == [u \in P |-> u.id]
  <2>1. f \in [P -> I] /\ \A i \in I : \E u \in P : f[u] = i
    OBVIOUS
  <2>2. f \in Surjection(P, I)
    BY <2>1 DEF Surjection
  <2> QED
    BY <2>2, FS_Surjection
<1>2. I \in SUBSET Nat
  BY UnitFields
<1> HIDE DEF I
<1>3. IsFiniteSet(T) /\ T \in SUBSET Nat /\ T # {}
  BY <1>1, <1>2, FS_AddElement
<1> HIDE DEF T
<1>4. Max(T) \in T /\ \A y \in T : y <= Max(T)
  BY <1>3, GreatestNumber
<1> QED
  BY <1>3, <1>4 DEF T, I
-----------------------------------------------------------------------------
(***************************************************************************)
(* The invariant, reader by reader.                                        *)
(***************************************************************************)

\* A step is a stuttering step or one of the actions.
LEMMA StepCases ==
    ASSUME [Next]_vars
    PROVE  \/ UNCHANGED vars
           \/ \E u \in Unit : Arrive(u)
           \/ \E u \in Unit : \E d \in Author : Deliver(d, u)
           \/ \E d \in {Did[r] : r \in Reader} \ {Nobody} : Change(d)
           \/ Tick
           \/ \E r \in Reader : \E q \in Questions[r] : Start(r, q)
           \/ \E r \in Reader : Send(r)
           \/ \E r \in Reader : Check(r)
           \/ \E r \in Reader : Verify(r)
           \/ \E r \in Reader : ListFollowing(r)
           \/ \E r \in Reader : reader[r].at = "page" /\ ListUnits(r)
           \/ \E r \in Reader : reader[r].at = "agent" /\ FindAgent(r)
           \/ \E r \in Reader : reader[r].at = "inbox" /\ GetInbox(r)
           \/ \E r \in Reader : reader[r].at = "load" /\ GetUnit(r)
           \/ \E r \in Reader : IsFollowing(r)
           \/ \E r \in Reader : Error(r)
  BY DEF Next, Serve

\* Questions are of three kinds.
LEMMA QuestionFields ==
    ASSUME NEW q \in Question
    PROVE  /\ q.kind \in {"list", "unit", "inbox"} /\ q # NoQuestion
           /\ q.kind = "inbox" => q.did \in Author
<1>1. q.kind \in {"list", "unit", "inbox"} /\ (q.kind = "inbox" => q.did \in Author)
  BY DEF Question
<1>2. NoQuestion.kind = "none"
  BY DEF NoQuestion
<1> QED
  BY <1>1, <1>2

LEMMA ReaderFields ==
    ASSUME TypeOK, NEW r \in Reader
    PROVE  LET q == reader[r] IN
           /\ q \in Reading
           /\ q.at \in Place /\ q.question \in Question \union {NoQuestion} /\ q.after \in Nat
           /\ q.signed \in Key \union {NoKey} /\ q.age \in 0 .. Skew + 1
           /\ q.wait \in 0 .. Window + Second /\ q.caller \in Author \union {Nobody}
           /\ q.filter \subseteq Author /\ q.unit \subseteq Unit
           /\ q.page \subseteq Unit /\ q.got \subseteq Unit
           /\ IsFiniteSet(q.page) /\ Cardinality(q.page) <= PageLimit
           /\ past[r] \in Past
           /\ past[r].seen \subseteq Unit /\ past[r].genuine \in BOOLEAN
           /\ past[r].steady \subseteq Unit /\ past[r].anonymous \in BOOLEAN
           /\ Did[r] \in Author \union {Nobody} /\ Address(r) \in Addresses
<1>1. reader[r] \in Reading /\ past[r] \in Past
  BY DEF TypeOK
<1>2. IsFiniteSet(reader[r].page) /\ Cardinality(reader[r].page) <= PageLimit
  BY DEF TypeOK
<1>3. Did[r] \in Author \union {Nobody} /\ Address(r) \in Addresses
  BY ReadingAssumption DEF Addresses
<1> QED
  BY <1>1, <1>2, <1>3 DEF Reading, Past

OnlyEntitledOf(r) ==
    \A u \in reader[r].page :
        \/ IsPublic(u) /\ reader[r].question.kind # "inbox"
        \/ past[r].genuine /\ u \in past[r].seen

WalkIsCompleteOf(r) ==
    reader[r].at = "done" /\ reader[r].question.kind # "unit" =>
        \A u \in past[r].steady : IsPublic(u) \/ ~past[r].anonymous => u \in reader[r].got

ReaderInv(r) ==
    PlaceInv(r) /\ CallerInv(r) /\ WalkInv(r) /\ OnlyEntitledOf(r) /\ WalkIsCompleteOf(r)

EveryReaderInv ==
    TypeOK /\ StoreInv /\ BurstInv /\ \A r \in Reader : ReaderInv(r)

LEMMA ReaderByReader == IInv <=> EveryReaderInv
  BY DEF IInv, EveryReaderInv, ReaderInv, OnlyEntitled, OnlyEntitledOf, WalkIsComplete,
         WalkIsCompleteOf

\* A reader that is not served, while the storage stays as it is.
SameFor(r) ==
    /\ reader'[r].at = reader[r].at /\ reader'[r].question = reader[r].question
    /\ reader'[r].after = reader[r].after /\ reader'[r].signed = reader[r].signed
    /\ reader'[r].caller = reader[r].caller /\ reader'[r].filter = reader[r].filter
    /\ reader'[r].unit = reader[r].unit /\ reader'[r].page = reader[r].page
    /\ reader'[r].got = reader[r].got
    /\ past'[r] = past[r]

LEMMA SameReader ==
    ASSUME NEW r \in Reader, ReaderInv(r), SameFor(r), UNCHANGED dbVars
    PROVE  ReaderInv(r)'
<1> USE DEF SameFor, ReaderInv
<1>1. PlaceInv(r)'
  BY DEF PlaceInv
<1>2. RightsOf(r)' = RightsOf(r) /\ AllowedTo(r)' = AllowedTo(r) /\ (IsGenuine(r)' <=> IsGenuine(r))
  BY DEF RightsOf, Rights, AllowedTo, Allowed, IsGenuine
<1>3. CallerInv(r)'
  BY <1>2 DEF CallerInv, UnderWay
<1>4. WalkInv(r)'
  BY <1>2 DEF WalkInv, Walking
<1>5. OnlyEntitledOf(r)' /\ WalkIsCompleteOf(r)'
  BY DEF OnlyEntitledOf, WalkIsCompleteOf
<1> QED
  BY <1>1, <1>3, <1>4, <1>5

LEMMA SameLimiter ==
    ASSUME BurstInv, UNCHANGED <<bucket, passed>>
    PROVE  BurstInv'
  BY DEF BurstInv, Counted, WindowOver
-----------------------------------------------------------------------------
(***************************************************************************)
(* What goes on meanwhile.                                                 *)
(***************************************************************************)

\* The history keeps up with what readers may see.
LEMMA MeanwhileKeeps ==
    ASSUME EveryReaderInv, Meanwhile, StoreInv', changes' \in Nat,
           store' \subseteq Unit, follows' \subseteq Author \X Author,
           key' \in [Author -> Key \union {NoKey}], inbox' \in [Author -> SUBSET Unit]
    PROVE  EveryReaderInv'
<1> USE DEF Meanwhile
<1>1. TypeOK /\ UNCHANGED <<bucket, reader, passed, faults>>
  BY DEF EveryReaderInv
<1>2. ASSUME NEW r \in Reader
      PROVE  /\ past'[r] \in Past
             /\ past'[r].seen = (IF UnderWay(r) THEN past[r].seen \union RightsOf(r)' ELSE past[r].seen)
             /\ past'[r].genuine <=> past[r].genuine \/ (UnderWay(r) /\ IsGenuine(r)')
             /\ past'[r].steady =
                   (IF Walking(r) THEN past[r].steady \intersect AllowedTo(r)' ELSE past[r].steady)
             /\ past'[r].anonymous = past[r].anonymous
  <2>1. RightsOf(r)' \subseteq Unit
    <3>1. reader'[r].question = reader[r].question
      OBVIOUS
    <3>2. reader[r].question.kind = "inbox" /\ reader[r].question.did = Did[r] => Did[r] \in Author
      BY <1>1, ReaderFields, QuestionFields DEF NoQuestion
    <3> QED
      BY <3>1, <3>2 DEF RightsOf, Rights
  <2> DEFINE seen == IF UnderWay(r) THEN past[r].seen \union RightsOf(r)' ELSE past[r].seen
             genuine == past[r].genuine \/ (UnderWay(r) /\ IsGenuine(r)')
             steady == IF Walking(r) THEN past[r].steady \intersect AllowedTo(r)' ELSE past[r].steady
  <2>2. past'[r] = [past[r] EXCEPT !.seen = seen, !.genuine = genuine, !.steady = steady]
    BY DEF Watched
  <2>3. seen \subseteq Unit /\ genuine \in BOOLEAN /\ steady \subseteq Unit
    BY <1>1, <2>1, ReaderFields
  <2> HIDE DEF seen, genuine, steady
  <2>4. /\ past'[r] \in Past /\ past'[r].seen = seen /\ past'[r].genuine = genuine
        /\ past'[r].steady = steady /\ past'[r].anonymous = past[r].anonymous
    BY <1>1, <2>2, <2>3, ReaderFields DEF Past
  <2> QED
    BY <2>4 DEF seen, genuine, steady
<1>3. TypeOK'
  <2>1. past' \in [Reader -> Past]
    <3>1. past' = [r \in Reader |-> past'[r]]
      BY DEF Watched
    <3> QED
      BY <1>2, <3>1
  <2> QED
    BY <1>1, <2>1 DEF TypeOK
<1>4. BurstInv'
  BY <1>1, SameLimiter DEF EveryReaderInv
<1>5. ASSUME NEW r \in Reader PROVE ReaderInv(r)'
  <2>1. ReaderInv(r) /\ reader'[r] = reader[r]
    BY DEF EveryReaderInv
  <2>2. (UnderWay(r)' <=> UnderWay(r)) /\ (Walking(r)' <=> Walking(r))
    BY <2>1 DEF UnderWay, Walking
  <2> USE <2>1 DEF ReaderInv
  <2>3. PlaceInv(r)'
    BY DEF PlaceInv
  <2>4. CallerInv(r)'
    BY <1>2, <2>2 DEF CallerInv
  <2>5. WalkInv(r)'
    BY <1>2, <2>2 DEF WalkInv
  <2>6. OnlyEntitledOf(r)'
    BY <1>2 DEF OnlyEntitledOf
  <2>7. WalkIsCompleteOf(r)'
    BY <1>2 DEF WalkIsCompleteOf
  <2> QED
    BY <2>3, <2>4, <2>5, <2>6, <2>7
<1> QED
  BY <1>3, <1>4, <1>5 DEF EveryReaderInv

\* A new unit has a new id.
LEMMA OneMoreUnit ==
    ASSUME NEW S, OneUnitPerId(S), NEW u, ~HasId(S, u.id)
    PROVE  OneUnitPerId(S \union {u})
<1>1. IsFiniteSet(S \union {u})
  BY FS_AddElement DEF OneUnitPerId
<1> QED
  BY <1>1 DEF OneUnitPerId, HasId

LEMMA ArriveKeeps ==
    ASSUME EveryReaderInv, NEW u \in Unit, Arrive(u)
    PROVE  EveryReaderInv'
<1>1. TypeOK /\ StoreInv
  BY DEF EveryReaderInv
<1>2. StoreInv'
  BY <1>1, OneMoreUnit DEF Arrive, StoreInv
<1>3. /\ store' \subseteq Unit /\ follows' \subseteq Author \X Author /\ changes' \in Nat
      /\ key' \in [Author -> Key \union {NoKey}] /\ inbox' \in [Author -> SUBSET Unit]
  BY <1>1 DEF Arrive, TypeOK
<1> QED
  BY <1>2, <1>3, MeanwhileKeeps DEF Arrive

LEMMA DeliverKeeps ==
    ASSUME EveryReaderInv, NEW u \in Unit, NEW d \in Author, Deliver(d, u)
    PROVE  EveryReaderInv'
<1>1. TypeOK /\ StoreInv
  BY DEF EveryReaderInv
<1>2. /\ inbox' = [inbox EXCEPT ![d] = inbox[d] \union {u}] /\ ~HasId(inbox[d], u.id)
      /\ UNCHANGED <<store, follows, key, changes>>
  BY DEF Deliver
<1>3. inbox' \in [Author -> SUBSET Unit] /\ \A e \in Author : e # d => inbox'[e] = inbox[e]
  BY <1>1, <1>2 DEF TypeOK
<1>4. inbox'[d] = inbox[d] \union {u}
  BY <1>1, <1>2 DEF TypeOK
<1>5. StoreInv'
  <2>1. OneUnitPerId(inbox'[d])
    BY <1>1, <1>2, <1>4, OneMoreUnit DEF StoreInv
  <2> QED
    BY <1>1, <1>2, <1>3, <2>1 DEF StoreInv, OneUnitPerId
<1> QED
  BY <1>1, <1>2, <1>3, <1>5, MeanwhileKeeps DEF Deliver, TypeOK

LEMMA ChangeKeeps ==
    ASSUME EveryReaderInv, NEW d \in {Did[r] : r \in Reader} \ {Nobody}, Change(d)
    PROVE  EveryReaderInv'
<1>1. TypeOK /\ StoreInv /\ d \in Author
  BY ReadingAssumption DEF EveryReaderInv
<1>2. store' = store /\ changes' \in Nat /\ Meanwhile
  BY <1>1 DEF Change, TypeOK
<1>3. follows' \subseteq Author \X Author
  BY <1>1 DEF Change, TypeOK
<1>4. key' \in [Author -> Key \union {NoKey}]
  BY <1>1 DEF Change, TypeOK
<1>5. inbox' = inbox \/ inbox' = [inbox EXCEPT ![d] = {}]
  BY DEF Change
<1>6. /\ inbox' \in [Author -> SUBSET Unit]
      /\ \A e \in Author : inbox'[e] = inbox[e] \/ inbox'[e] = {}
  BY <1>1, <1>5 DEF TypeOK
<1>7. StoreInv'
  <2>1. OneUnitPerId({})
    BY FS_EmptySet DEF OneUnitPerId
  <2> QED
    BY <1>1, <1>2, <1>6, <2>1 DEF StoreInv, OneUnitPerId
<1> QED
  BY <1>1, <1>2, <1>3, <1>4, <1>6, <1>7, MeanwhileKeeps DEF TypeOK

\* The window is at least one tick.
LEMMA WindowFacts ==
    /\ Window \in Nat /\ Second \in Nat /\ Second >= 1 /\ Window >= Second
    /\ Skew \in Nat /\ Limit \in Nat /\ Limit >= 1 /\ Window >= 1
  BY ReadingAssumption

LEMMA LimiterFields ==
    ASSUME TypeOK, NEW a \in Addresses
    PROVE  /\ bucket[a] \in [count : 0 .. Limit, age : 0 .. Window]
           /\ bucket[a].count \in 0 .. Limit /\ bucket[a].age \in 0 .. Window
           /\ passed[a] \in [0 .. Window -> Nat] /\ \A k \in 0 .. Window : passed[a][k] \in Nat
<1>1. bucket[a] \in [count : 0 .. Limit, age : 0 .. Window] /\ passed[a] \in [0 .. Window -> Nat]
  BY DEF TypeOK
<1> QED
  BY <1>1, WindowFacts

LEMMA TickKeeps ==
    ASSUME EveryReaderInv, Tick
    PROVE  EveryReaderInv'
<1>1. TypeOK /\ UNCHANGED <<dbVars, past, changes, faults>>
  BY DEF EveryReaderInv, Tick
<1>2. ASSUME NEW max \in Nat, NEW n \in 0 .. max PROVE Older(n, max) \in 0 .. max
  BY DEF Older
<1>3. /\ bucket' = [a \in Addresses |-> [bucket[a] EXCEPT !.age = Older(bucket[a].age, Window)]]
      /\ passed' = [a \in Addresses |->
                       [k \in 0 .. Window |-> IF k = 0 THEN 0 ELSE passed[a][k - 1]]]
  BY <1>1 DEF Tick, TypeOK
<1>4. bucket' \in [Addresses -> [count : 0 .. Limit, age : 0 .. Window]]
  <2>1. ASSUME NEW a \in Addresses
        PROVE  [bucket[a] EXCEPT !.age = Older(bucket[a].age, Window)] \in [count : 0 .. Limit, age : 0 .. Window]
    BY <1>1, <1>2, LimiterFields, WindowFacts
  <2> QED
    BY <1>3, <2>1
<1>5. passed' \in [Addresses -> [0 .. Window -> Nat]]
  <2>1. ASSUME NEW a \in Addresses, NEW k \in 0 .. Window
        PROVE  (IF k = 0 THEN 0 ELSE passed[a][k - 1]) \in Nat
    <3>1. k # 0 => k - 1 \in 0 .. Window
      BY WindowFacts
    <3> QED
      BY <1>1, <3>1, LimiterFields
  <2> QED
    BY <1>3, <2>1
<1>7. ASSUME NEW r \in Reader
      PROVE  reader'[r] \in Reading /\ SameFor(r)
  <2> DEFINE age == IF reader[r].at = "sent" THEN Older(reader[r].age, Skew + 1) ELSE reader[r].age
             wait == IF reader[r].wait = 0 THEN 0 ELSE reader[r].wait - 1
  <2>1. reader'[r] = [reader[r] EXCEPT !.age = age, !.wait = wait]
    BY DEF Tick
  <2>2. age \in 0 .. Skew + 1
    BY <1>1, <1>2, ReaderFields, WindowFacts
  <2>3. wait \in 0 .. Window + Second
    BY <1>1, ReaderFields, WindowFacts
  <2> HIDE DEF age, wait
  <2>4. reader[r] \in Reading
    BY <1>1, ReaderFields
  <2> QED
    BY <1>1, <2>1, <2>2, <2>3, <2>4 DEF Reading, SameFor
<1>8. TypeOK'
  <2>1. reader' = [r \in Reader |-> reader'[r]]
    BY DEF Tick
  <2>2. reader' \in [Reader -> Reading]
    BY <1>7, <2>1
  <2>3. \A r \in Reader : IsFiniteSet(reader'[r].page) /\ Cardinality(reader'[r].page) <= PageLimit
    BY <1>1, <1>7, ReaderFields DEF SameFor
  <2> QED
    BY <1>1, <1>4, <1>5, <2>2, <2>3 DEF TypeOK
<1>9. StoreInv'
  BY <1>1 DEF EveryReaderInv, StoreInv, OneUnitPerId
<1>10. \A r \in Reader : ReaderInv(r)'
  BY <1>1, <1>7, SameReader DEF EveryReaderInv
<1>6. ASSUME NEW a \in Addresses PROVE Counted(bucket'[a], passed'[a])
  <2> DEFINE b == bucket[a]
             c == bucket'[a]
             f == passed[a]
             g == passed'[a]
  <2>1. /\ \A k \in 0 .. Window : f[k] \in Nat
        /\ g[0] = 0 /\ \A k \in 1 .. Window : g[k] = f[k - 1]
    BY <1>1, <1>3, LimiterFields, WindowFacts
  <2>2. Counted(b, f)
    BY DEF EveryReaderInv, BurstInv
  <2>3. b.age \in 0 .. Window /\ b.count \in Nat /\ c.count = b.count /\ c.age = Older(b.age, Window)
    <3>1. b \in [count : 0 .. Limit, age : 0 .. Window] /\ c = [b EXCEPT !.age = Older(b.age, Window)]
      BY <1>1, <1>3, LimiterFields
    <3> HIDE DEF b, c
    <3> QED
      BY <3>1, WindowFacts
  <2> SUFFICES Counted(c, g)
    OBVIOUS
  <2> HIDE DEF b, c, f, g
  <2>4. Window \in Nat /\ Limit \in Nat /\ Window >= 1
    BY WindowFacts
  <2>5. /\ f[0] = 0 /\ \A k \in 1 .. Window : f[k - 1] <= f[k]
        /\ WindowOver(b) => f[1] = 0
        /\ f[IF WindowOver(b) THEN Window ELSE b.age + 1] <= b.count
        /\ f[Window] <= b.count + Limit
    BY <2>2 DEF Counted
  <2>6. g[1] = 0 /\ \A k \in 1 .. Window : g[k - 1] <= g[k]
    <3>1. g[1] = 0
      BY <2>1, <2>4, <2>5
    <3>2. ASSUME NEW k \in 1 .. Window PROVE g[k - 1] <= g[k]
      <4>1. CASE k = 1
        BY <2>1, <3>1, <4>1
      <4>2. CASE k # 1
        <5>1. k - 1 \in 1 .. Window
          BY <2>4, <4>2
        <5>2. g[k] = f[k - 1] /\ g[k - 1] = f[(k - 1) - 1]
          BY <2>1, <5>1
        <5> QED
          BY <2>5, <5>1, <5>2
      <4> QED
        BY <4>1, <4>2
    <3> QED
      BY <3>1, <3>2
  <2>7. g[Window] = f[Window - 1] /\ f[Window - 1] <= f[Window] /\ f[Window] \in Nat /\ f[Window - 1] \in Nat
    <3>1. Window \in 1 .. Window /\ Window \in 0 .. Window /\ Window - 1 \in 0 .. Window
      BY <2>4
    <3> QED
      BY <2>1, <2>5, <3>1
  <2>8. g[Window] <= c.count + Limit
    BY <2>3, <2>4, <2>5, <2>7
  <2>9. g[IF WindowOver(c) THEN Window ELSE c.age + 1] <= c.count
    <3>1. CASE WindowOver(b)
      <4>1. WindowOver(c)
        BY <2>3, <2>4, <3>1 DEF WindowOver, Older
      <4> QED
        BY <2>3, <2>5, <2>7, <3>1, <4>1
    <3>2. CASE ~WindowOver(b)
      <4>1. b.age \in 0 .. Window - 1 /\ c.age = b.age + 1 /\ b.age + 1 \in 1 .. Window
        BY <2>3, <2>4, <3>2 DEF WindowOver, Older
      <4>2. f[b.age + 1] <= b.count /\ f[b.age + 1] \in Nat
        BY <2>1, <2>5, <3>2, <4>1
      <4>3. CASE WindowOver(c)
        <5>1. b.age + 1 = Window
          BY <2>4, <4>1, <4>3 DEF WindowOver
        <5> QED
          BY <2>3, <2>7, <4>2, <4>3, <5>1
      <4>4. CASE ~WindowOver(c)
        <5>1. (b.age + 1) + 1 \in 1 .. Window /\ ((b.age + 1) + 1) - 1 = b.age + 1
          BY <2>4, <4>1, <4>4 DEF WindowOver
        <5>2. g[(b.age + 1) + 1] = f[b.age + 1]
          BY <2>1, <5>1
        <5> QED
          BY <2>3, <4>1, <4>2, <4>4, <5>2
      <4> QED
        BY <4>3, <4>4
    <3> QED
      BY <3>1, <3>2
  <2> QED
    BY <2>1, <2>6, <2>8, <2>9 DEF Counted
<1>11. BurstInv'
  BY <1>6 DEF BurstInv, Counted, WindowOver
<1> QED
  BY <1>8, <1>9, <1>10, <1>11 DEF EveryReaderInv
-----------------------------------------------------------------------------
(***************************************************************************)
(* The reader that is served.                                              *)
(***************************************************************************)

\* A step of one reader is no matter of the others.
LEMMA ServedKeeps ==
    ASSUME EveryReaderInv, NEW r \in Reader, NEW q \in Reading, NEW p \in Past,
           IsFiniteSet(q.page), Cardinality(q.page) <= PageLimit,
           reader' = [reader EXCEPT ![r] = q], past' = [past EXCEPT ![r] = p],
           UNCHANGED <<dbVars, changes>>, faults' \in Nat,
           bucket' \in [Addresses -> [count : 0 .. Limit, age : 0 .. Window]],
           passed' \in [Addresses -> [0 .. Window -> Nat]],
           BurstInv', ReaderInv(r)'
    PROVE  EveryReaderInv'
<1>1. TypeOK
  BY DEF EveryReaderInv
<1>2. reader' \in [Reader -> Reading] /\ past' \in [Reader -> Past] /\ reader'[r] = q
  BY <1>1 DEF TypeOK
<1>3. ASSUME NEW s \in Reader, s # r PROVE reader'[s] = reader[s] /\ past'[s] = past[s]
  BY <1>1, <1>3 DEF TypeOK
<1>4. TypeOK'
  <2>1. ASSUME NEW s \in Reader
        PROVE  IsFiniteSet(reader'[s].page) /\ Cardinality(reader'[s].page) <= PageLimit
    <3>1. CASE s = r
      BY <1>2, <3>1
    <3>2. CASE s # r
      BY <1>1, <1>3, <3>2, ReaderFields
    <3> QED
      BY <3>1, <3>2
  <2> QED
    BY <1>1, <1>2, <2>1 DEF TypeOK
<1>5. StoreInv'
  BY DEF EveryReaderInv, StoreInv, OneUnitPerId
<1>6. ASSUME NEW s \in Reader PROVE ReaderInv(s)'
  <2>1. CASE s = r
    BY <2>1
  <2>2. CASE s # r
    <3>1. SameFor(s)
      BY <1>3, <2>2 DEF SameFor
    <3> QED
      BY <3>1, SameReader DEF EveryReaderInv
  <2> QED
    BY <2>1, <2>2
<1> QED
  BY <1>4, <1>5, <1>6 DEF EveryReaderInv

\* The same for a step that does not concern the rate limiter.
LEMMA StepKeeps ==
    ASSUME EveryReaderInv, NEW r \in Reader, NEW place, NEW q \in Reading, NEW p \in Past,
           IsFiniteSet(q.page), Cardinality(q.page) <= PageLimit,
           Step(r, place, q), past' = [past EXCEPT ![r] = p], UNCHANGED bucket,
           faults' \in Nat, ReaderInv(r)'
    PROVE  EveryReaderInv'
<1>1. TypeOK
  BY DEF EveryReaderInv
<1>2. BurstInv'
  BY SameLimiter DEF EveryReaderInv, Step
<1>3. /\ bucket' \in [Addresses -> [count : 0 .. Limit, age : 0 .. Window]]
      /\ passed' \in [Addresses -> [0 .. Window -> Nat]]
  BY <1>1 DEF TypeOK, Step
<1>4. reader' = [reader EXCEPT ![r] = q] /\ UNCHANGED <<dbVars, changes>>
  BY DEF Step
<1> QED
  BY <1>2, <1>3, <1>4, ServedKeeps

\* What a step leaves of a reader's rights.
LEMMA RightsStay ==
    ASSUME NEW r \in Reader, UNCHANGED dbVars
    PROVE  /\ reader'[r].question = reader[r].question =>
                 RightsOf(r)' = RightsOf(r) /\ AllowedTo(r)' = AllowedTo(r)
           /\ reader'[r].signed = reader[r].signed => (IsGenuine(r)' <=> IsGenuine(r))
  BY DEF RightsOf, Rights, AllowedTo, Allowed, IsGenuine

\* The same when nothing but the reader changes.
LEMMA GotoKeeps ==
    ASSUME EveryReaderInv, NEW r \in Reader, NEW place, NEW q \in Reading,
           IsFiniteSet(q.page), Cardinality(q.page) <= PageLimit,
           Step(r, place, q), UNCHANGED <<bucket, past>>, faults' \in Nat,
           ReaderInv(r)'
    PROVE  EveryReaderInv'
<1>1. past[r] \in Past /\ past' = [past EXCEPT ![r] = past[r]]
  <2>1. past \in [Reader -> Past]
    BY DEF EveryReaderInv, TypeOK
  <2> QED
    BY <2>1
<1> QED
  BY <1>1, StepKeeps

LEMMA StepFacts ==
    ASSUME EveryReaderInv, NEW r \in Reader, NEW place, NEW q, Step(r, place, q)
    PROVE  reader[r].at = place /\ reader'[r] = q /\ UNCHANGED dbVars /\ TypeOK /\ ReaderInv(r)
  BY DEF EveryReaderInv, TypeOK, Step

\* A reader that starts knows nothing but what it asks for.
LEMMA StartKeeps ==
    ASSUME EveryReaderInv, NEW r \in Reader, NEW question \in Questions[r], Start(r, question)
    PROVE  EveryReaderInv'
<1> DEFINE q == [reader[r] EXCEPT !.at = "ready", !.question = question]
           p == [past[r] EXCEPT !.steady = Allowed(Did[r], question)]
<1>1. Step(r, "idle", q) /\ UNCHANGED <<bucket, faults>> /\ question \in Question
  BY ReadingAssumption DEF Start
<1>2. reader[r].at = "idle" /\ reader'[r] = q /\ UNCHANGED dbVars /\ TypeOK /\ ReaderInv(r)
  BY <1>1, StepFacts
<1>3. past' = [past EXCEPT ![r] = p] /\ past'[r] = p
  BY <1>2 DEF Start, TypeOK
<1>4. Allowed(Did[r], question) \subseteq Unit
  <2>1. question.kind = "inbox" /\ question.did = Did[r] => Did[r] \in Author
    BY <1>1, QuestionFields
  <2> QED
    BY <1>2, <2>1 DEF Allowed, Rights, TypeOK
<1>5. q \in Reading /\ p \in Past /\ IsFiniteSet(q.page) /\ Cardinality(q.page) <= PageLimit
  <2>1. q \in Reading
    <3>1. reader[r] \in Reading /\ "ready" \in Place /\ question \in Question \union {NoQuestion}
      BY <1>1, <1>2, ReaderFields DEF Place
    <3> QED
      BY <3>1 DEF Reading
  <2>2. p \in Past
    BY <1>2, <1>4, ReaderFields DEF Past
  <2>3. q.page = reader[r].page
    BY <1>2, ReaderFields DEF Reading
  <2> QED
    BY <1>2, <2>1, <2>2, <2>3, ReaderFields
<1>6. /\ reader'[r].at = "ready" /\ reader'[r].question = question /\ question # NoQuestion
      /\ reader'[r].caller = reader[r].caller /\ reader'[r].filter = reader[r].filter
      /\ reader'[r].unit = reader[r].unit /\ reader'[r].signed = reader[r].signed
      /\ reader'[r].page = reader[r].page /\ reader'[r].got = reader[r].got
      /\ reader'[r].after = reader[r].after
      /\ past'[r].steady = Allowed(Did[r], question) /\ past'[r].seen = past[r].seen
      /\ past'[r].genuine = past[r].genuine
  BY <1>1, <1>2, <1>3, <1>5, ReaderFields, QuestionFields DEF Reading, Past
<1> HIDE DEF q, p
<1>7. PlaceInv(r)'
  BY <1>2, <1>6 DEF ReaderInv, PlaceInv
<1>8. CallerInv(r)'
  BY <1>2, <1>6 DEF ReaderInv, CallerInv, UnderWay
<1>9. WalkInv(r)'
  <2>1. reader'[r].after = 0
    BY <1>2, <1>6 DEF ReaderInv, PlaceInv
  <2>2. AllowedTo(r)' = Allowed(Did[r], question)
    BY <1>2, <1>6 DEF AllowedTo, Allowed, Rights
  <2>3. \A u \in past'[r].steady : u.id > 0
    BY <1>4, <1>6, UnitFields
  <2> QED
    BY <1>6, <2>1, <2>2, <2>3 DEF WalkInv, Walking
<1>10. OnlyEntitledOf(r)'
  BY <1>2, <1>6 DEF ReaderInv, OnlyEntitledOf, PlaceInv
<1>11. WalkIsCompleteOf(r)'
  BY <1>6 DEF WalkIsCompleteOf
<1> QED
  BY <1>1, <1>2, <1>3, <1>5, <1>7, <1>8, <1>9, <1>10, <1>11, StepKeeps DEF ReaderInv, TypeOK

\* A request that is sent carries nothing over from the one before.
LEMMA SendKeeps ==
    ASSUME EveryReaderInv, NEW r \in Reader, Send(r)
    PROVE  EveryReaderInv'
<1>1. PICK place \in {"ready", "refused"},
           k \in IF Did[r] = Nobody THEN {NoKey} ELSE {1, key[Did[r]]} :
           Step(r, place, [reader[r] EXCEPT !.at = "sent", !.signed = k, !.page = {}])
  BY DEF Send
<1> DEFINE q == [reader[r] EXCEPT !.at = "sent", !.signed = k, !.page = {}]
           genuine == IsGenuine(r)'
           p == [past[r] EXCEPT !.seen = RightsOf(r), !.genuine = genuine]
<1>2. reader[r].at = place /\ reader'[r] = q /\ UNCHANGED dbVars /\ TypeOK /\ ReaderInv(r)
  BY <1>1, StepFacts
<1>3. past' = [past EXCEPT ![r] = p] /\ past'[r] = p /\ UNCHANGED <<bucket, faults>>
  BY <1>2 DEF Send, TypeOK
<1>4. RightsOf(r) \subseteq Unit /\ genuine \in BOOLEAN
  <2>1. reader[r].question.kind = "inbox" /\ reader[r].question.did = Did[r] => Did[r] \in Author
    BY <1>2, ReaderFields, QuestionFields DEF NoQuestion
  <2> QED
    BY <1>2, <2>1 DEF RightsOf, Rights, TypeOK, IsGenuine
<1> HIDE DEF genuine
<1>5. k \in Key \union {NoKey} /\ (Did[r] = Nobody => k = NoKey)
  <2>1. key \in [Author -> Key \union {NoKey}] /\ Did[r] \in Author \union {Nobody} /\ 1 \in Key
    BY <1>2, ReaderFields DEF TypeOK, Key
  <2> QED
    BY <2>1
<1>6. q \in Reading /\ p \in Past /\ q.page = {}
  <2>1. reader[r] \in Reading /\ past[r] \in Past /\ "sent" \in Place
    BY <1>2, ReaderFields DEF Place
  <2>2. q \in Reading /\ q.page = {}
    BY <1>5, <2>1 DEF Reading
  <2>3. p \in Past
    BY <1>4, <2>1 DEF Past
  <2> QED
    BY <2>2, <2>3
<1>7. IsFiniteSet(q.page) /\ Cardinality(q.page) <= PageLimit
  <2>1. IsFiniteSet({}) /\ Cardinality({}) = 0
    BY FS_EmptySet
  <2> QED
    BY <1>6, <2>1, ReadingAssumption
<1>8. /\ reader'[r].at = "sent" /\ reader'[r].question = reader[r].question
      /\ reader'[r].caller = reader[r].caller /\ reader'[r].filter = reader[r].filter
      /\ reader'[r].unit = reader[r].unit /\ reader'[r].signed = k
      /\ reader'[r].page = {} /\ reader'[r].got = reader[r].got
      /\ reader'[r].after = reader[r].after
      /\ past'[r].steady = past[r].steady /\ past'[r].seen = RightsOf(r)
      /\ past'[r].genuine = genuine /\ past'[r].anonymous = past[r].anonymous
  <2>1. reader[r] \in Reading /\ past[r] \in Past
    BY <1>2, ReaderFields
  <2>2. reader'[r] = [reader[r] EXCEPT !.at = "sent", !.signed = k, !.page = {}]
    BY <1>2
  <2>3. past'[r] = [past[r] EXCEPT !.seen = RightsOf(r), !.genuine = genuine]
    BY <1>3
  <2> HIDE DEF q, p
  <2>4. /\ past'[r].steady = past[r].steady /\ past'[r].seen = RightsOf(r)
        /\ past'[r].genuine = genuine /\ past'[r].anonymous = past[r].anonymous
    BY <2>1, <2>3 DEF Past
  <2> QED
    BY <2>1, <2>2, <2>4 DEF Reading
<1> HIDE DEF q, p
<1>9. PlaceInv(r)'
  BY <1>2, <1>8 DEF ReaderInv, PlaceInv
<1>10. RightsOf(r)' = RightsOf(r) /\ AllowedTo(r)' = AllowedTo(r)
  BY <1>2, <1>8, RightsStay
<1>11. CallerInv(r)'
  <2>1. reader'[r].caller = Nobody /\ reader'[r].filter = {}
    BY <1>2, <1>8 DEF ReaderInv, PlaceInv
  <2>2. IsGenuine(r)' => past'[r].genuine
    BY <1>8 DEF genuine
  <2> QED
    BY <1>5, <1>8, <1>10, <2>1, <2>2 DEF CallerInv
<1>12. WalkInv(r)'
  BY <1>2, <1>8, <1>10 DEF ReaderInv, WalkInv, Walking
<1>13. OnlyEntitledOf(r)'
  BY <1>8 DEF OnlyEntitledOf
<1>14. WalkIsCompleteOf(r)'
  BY <1>8 DEF WalkIsCompleteOf
<1> QED
  BY <1>1, <1>2, <1>3, <1>6, <1>7, <1>9, <1>11, <1>12, <1>13, <1>14, StepKeeps
     DEF ReaderInv, TypeOK, q
-----------------------------------------------------------------------------
(***************************************************************************)
(* The rate limiter.                                                       *)
(***************************************************************************)

\* Retry-After is never longer than the window and one second more.
LEMMA RetryAfterIsBounded ==
    ASSUME NEW b, b.age \in 0 .. Window
    PROVE  RetryAfter(b) \in 0 .. Window + Second
<1> DEFINE n == Window - b.age
           k == n \div Second
<1>1. n \in Nat /\ n <= Window /\ Second \in Nat /\ Second > 0 /\ Window \in Nat
  BY WindowFacts
<1>2. RetryAfter(b) = Second * (IF n < Second THEN 1 ELSE k)
  BY DEF RetryAfter
<1> HIDE DEF n
<1>3. k \in Nat /\ n = Second * k + (n % Second) /\ n % Second \in 0 .. Second - 1
  BY <1>1
<1>4. Second * k \in Nat /\ Second * k <= Window
  <2>1. Second * k \in Nat
    BY <1>1, <1>3
  <2> QED
    BY <1>1, <1>3, <2>1
<1>5. CASE n < Second
  BY <1>1, <1>2, <1>5
<1>6. CASE ~(n < Second)
  BY <1>1, <1>2, <1>4, <1>6
<1> QED
  BY <1>5, <1>6

\* What is forgotten and what is not.
LEMMA ForgetFacts ==
    ASSUME NEW q \in Reading, NEW at \in Place
    PROVE  LET f == [Forget(q) EXCEPT !.at = at] IN
           /\ f \in Reading /\ f.at = at /\ f.question = q.question /\ f.after = q.after
           /\ f.signed = NoKey /\ f.caller = Nobody /\ f.filter = {} /\ f.unit = {}
           /\ f.page = q.page /\ f.got = q.got
<1> DEFINE g == [q EXCEPT !.age = 0, !.signed = NoKey, !.caller = Nobody, !.filter = {}, !.unit = {}]
<1>1. 0 \in 0 .. Skew + 1
  BY WindowFacts
<1>2. /\ g \in Reading /\ g.question = q.question /\ g.after = q.after
      /\ g.signed = NoKey /\ g.caller = Nobody /\ g.filter = {} /\ g.unit = {}
      /\ g.page = q.page /\ g.got = q.got
  BY <1>1 DEF Reading
<1>3. Forget(q) = g
  BY DEF Forget
<1> HIDE DEF g
<1> QED
  BY <1>2, <1>3 DEF Reading

\* A request that comes to nothing leaves the walk as it was, or ends it.
LEMMA GivesUp ==
    ASSUME NEW r \in Reader, TypeOK, ReaderInv(r), Walking(r), UNCHANGED dbVars,
           reader'[r].at \in {"refused", "failed"}, reader'[r].question = reader[r].question,
           reader'[r].after = reader[r].after, reader'[r].signed = NoKey,
           reader'[r].caller = Nobody, reader'[r].filter = {}, reader'[r].unit = {},
           reader'[r].page = reader[r].page, reader'[r].got = reader[r].got,
           past'[r] = past[r]
    PROVE  ReaderInv(r)'
<1>1. PlaceInv(r)'
  BY DEF ReaderInv, PlaceInv, Walking
<1>2. CallerInv(r)'
  BY DEF CallerInv, UnderWay
<1>3. AllowedTo(r)' = AllowedTo(r)
  BY RightsStay
<1>4. WalkInv(r)'
  BY <1>3 DEF ReaderInv, WalkInv
<1>5. OnlyEntitledOf(r)' /\ WalkIsCompleteOf(r)'
  BY DEF ReaderInv, OnlyEntitledOf, WalkIsCompleteOf
<1> QED
  BY <1>1, <1>2, <1>4, <1>5 DEF ReaderInv

LEMMA LetThroughKeeps ==
    ASSUME EveryReaderInv, NEW r \in Reader, reader[r].at = "sent",
           NEW b \in [count : 0 .. Limit, age : 0 .. Window], LetThrough(r, b),
           ~WindowOver(b),
           IF WindowOver(bucket[Address(r)]) THEN b.count = 1 /\ b.age = 0
           ELSE b.count = bucket[Address(r)].count + 1 /\ b.age = bucket[Address(r)].age,
           UNCHANGED <<dbVars, past, changes, faults>>
    PROVE  EveryReaderInv'
<1> DEFINE A == Address(r)
           age == IF reader[r].age > Skew THEN reader[r].age ELSE 0
           q == [reader[r] EXCEPT !.at = "verify", !.age = age]
<1>1. TypeOK /\ ReaderInv(r)
  BY DEF EveryReaderInv
<1>2. reader' = [reader EXCEPT ![r] = q]
  BY <1>1 DEF LetThrough, TypeOK
<1>3. /\ bucket' = [bucket EXCEPT ![A] = b]
      /\ passed' = [passed EXCEPT ![A] = [k \in 0 .. Window |-> IF k = 0 THEN 0 ELSE passed[A][k] + 1]]
  <2>1. A \in Addresses
    BY <1>1, ReaderFields
  <2>2. DOMAIN passed[A] = 0 .. Window
    BY <1>1, <2>1, LimiterFields
  <2> QED
    BY <1>1, <2>2 DEF LetThrough, TypeOK
<1>4. q \in Reading
  <2>1. reader[r] \in Reading /\ age \in 0 .. Skew + 1 /\ "verify" \in Place
    BY <1>1, ReaderFields, WindowFacts DEF Place
  <2> QED
    BY <2>1 DEF Reading
<1>5. /\ reader'[r].at = "verify" /\ reader'[r].question = reader[r].question
      /\ reader'[r].caller = reader[r].caller /\ reader'[r].filter = reader[r].filter
      /\ reader'[r].unit = reader[r].unit /\ reader'[r].signed = reader[r].signed
      /\ reader'[r].page = reader[r].page /\ reader'[r].got = reader[r].got
      /\ reader'[r].after = reader[r].after /\ reader'[r] = q
  <2>1. reader[r] \in Reading /\ reader'[r] = q
    BY <1>1, <1>2, ReaderFields DEF TypeOK
  <2> QED
    BY <2>1 DEF Reading
<1> HIDE DEF A, q
<1>6. A \in Addresses
  BY <1>1, ReaderFields DEF A
<1>9. bucket' \in [Addresses -> [count : 0 .. Limit, age : 0 .. Window]]
  BY <1>1, <1>3, <1>6 DEF TypeOK
<1>10. /\ passed' \in [Addresses -> [0 .. Window -> Nat]]
       /\ passed'[A][0] = 0 /\ \A k \in 1 .. Window : passed'[A][k] = passed[A][k] + 1
       /\ \A a \in Addresses : a # A => passed'[a] = passed[a]
  <2> DEFINE f == [k \in 0 .. Window |-> IF k = 0 THEN 0 ELSE passed[A][k] + 1]
  <2>1. \A k \in 0 .. Window : passed[A][k] \in Nat
    BY <1>1, <1>6, LimiterFields
  <2>2. f \in [0 .. Window -> Nat] /\ f[0] = 0 /\ \A k \in 1 .. Window : f[k] = passed[A][k] + 1
    BY <2>1, WindowFacts
  <2>3. passed' = [passed EXCEPT ![A] = f]
    BY <1>3
  <2> HIDE DEF f
  <2>4. passed \in [Addresses -> [0 .. Window -> Nat]]
    BY <1>1 DEF TypeOK
  <2> QED
    BY <1>6, <2>2, <2>3, <2>4
<1>12. past'[r] = past[r] /\ UNCHANGED dbVars
  OBVIOUS
<1>16. BurstInv'
  <2> DEFINE f == passed[A]
             g == passed'[A]
             c == bucket[A]
  <2>1. /\ f[0] = 0 /\ \A k \in 1 .. Window : f[k - 1] <= f[k]
        /\ WindowOver(c) => f[1] = 0
        /\ f[IF WindowOver(c) THEN Window ELSE c.age + 1] <= c.count
        /\ f[Window] <= c.count + Limit
    BY <1>6 DEF EveryReaderInv, BurstInv, Counted
  <2>2. \A k \in 0 .. Window : f[k] \in Nat
    BY <1>1, <1>6, LimiterFields
  <2>3. g[0] = 0 /\ \A k \in 1 .. Window : g[k] = f[k] + 1
    BY <1>10
  <2>4. c.count \in 0 .. Limit /\ c.age \in 0 .. Window
    BY <1>1, <1>6, LimiterFields
  <2>5. IF WindowOver(c) THEN b.count = 1 /\ b.age = 0 ELSE b.count = c.count + 1 /\ b.age = c.age
    BY DEF A
  <2>6. Window \in Nat /\ Limit \in Nat /\ Limit >= 1 /\ Window \in 1 .. Window /\ Window \in 0 .. Window
        /\ 1 \in 1 .. Window /\ 1 \in 0 .. Window
    BY WindowFacts
  <2> HIDE DEF f, g, c
  <2>7. Counted(b, g)
    <3>1. \A k \in 1 .. Window : g[k - 1] <= g[k]
      <4>1. ASSUME NEW k \in 1 .. Window PROVE g[k - 1] <= g[k]
        <5>1. g[k] = f[k] + 1 /\ f[k] \in Nat /\ f[k - 1] <= f[k] /\ f[k - 1] \in Nat
          BY <2>1, <2>2, <2>3, <2>6
        <5>2. CASE k = 1
          BY <2>3, <5>1, <5>2
        <5>3. CASE k # 1
          <6>1. k - 1 \in 1 .. Window
            BY <2>6, <5>3
          <6> QED
            BY <2>3, <5>1, <6>1
        <5> QED
          BY <5>2, <5>3
      <4> QED
        BY <4>1
    <3>2. g[Window] = f[Window] + 1 /\ f[Window] \in Nat /\ g[1] = f[1] + 1
      BY <2>2, <2>3, <2>6
    <3>3. CASE WindowOver(c)
      <4>1. b.count = 1 /\ b.age = 0 /\ g[1] = 1 /\ f[Window] <= c.count
        BY <2>1, <2>5, <3>2, <3>3
      <4>2. g[Window] <= b.count + Limit /\ g[b.age + 1] <= b.count
        BY <2>4, <2>6, <3>2, <4>1
      <4> QED
        BY <2>3, <3>1, <4>2 DEF Counted
    <3>4. CASE ~WindowOver(c)
      <4>1. b.count = c.count + 1 /\ b.age = c.age /\ b.age + 1 \in 1 .. Window
        BY <2>4, <2>5, <2>6, <3>4 DEF WindowOver
      <4>2. g[b.age + 1] = f[b.age + 1] + 1 /\ f[b.age + 1] \in Nat /\ f[b.age + 1] <= c.count
        BY <2>1, <2>2, <2>3, <3>4, <4>1
      <4>3. g[Window] <= b.count + Limit /\ g[b.age + 1] <= b.count
        BY <2>1, <2>4, <2>6, <3>2, <4>1, <4>2
      <4> QED
        BY <2>3, <3>1, <4>3 DEF Counted
    <3> QED
      BY <3>3, <3>4
  <2>8. bucket'[A] = b /\ \A a \in Addresses : a # A => bucket'[a] = bucket[a]
    BY <1>1, <1>3, <1>6 DEF TypeOK
  <2>9. ASSUME NEW a \in Addresses PROVE Counted(bucket'[a], passed'[a])
    <3>1. CASE a = A
      BY <2>7, <2>8, <3>1 DEF g
    <3>2. CASE a # A
      BY <1>10, <2>8, <3>2 DEF EveryReaderInv, BurstInv
    <3> QED
      BY <3>1, <3>2
  <2> QED
    BY <2>9 DEF BurstInv, Counted, WindowOver
<1>13. ReaderInv(r)'
  <2>1. PlaceInv(r)'
    BY <1>1, <1>5 DEF ReaderInv, PlaceInv
  <2>2. RightsOf(r)' = RightsOf(r) /\ AllowedTo(r)' = AllowedTo(r) /\ (IsGenuine(r)' <=> IsGenuine(r))
    BY <1>5, <1>12, RightsStay
  <2>3. CallerInv(r)'
    BY <1>1, <1>5, <1>12, <2>2 DEF ReaderInv, CallerInv, UnderWay
  <2>4. WalkInv(r)'
    BY <1>1, <1>5, <1>12, <2>2 DEF ReaderInv, WalkInv, Walking
  <2>5. OnlyEntitledOf(r)' /\ WalkIsCompleteOf(r)'
    BY <1>1, <1>5, <1>12 DEF ReaderInv, OnlyEntitledOf, WalkIsCompleteOf
  <2> QED
    BY <2>1, <2>3, <2>4, <2>5 DEF ReaderInv
<1>14. IsFiniteSet(q.page) /\ Cardinality(q.page) <= PageLimit
  BY <1>1, <1>5, ReaderFields
<1>15. past[r] \in Past /\ past' = [past EXCEPT ![r] = past[r]] /\ changes' = changes /\ faults' \in Nat
  BY <1>1 DEF TypeOK
<1> QED
  BY <1>2, <1>4, <1>9, <1>10, <1>12, <1>13, <1>14, <1>15, <1>16, ServedKeeps

LEMMA CheckKeeps ==
    ASSUME EveryReaderInv, NEW r \in Reader, Check(r)
    PROVE  EveryReaderInv'
<1> DEFINE b == bucket[Address(r)]
           n == [count |-> 1, age |-> 0]
           m == [b EXCEPT !.count = b.count + 1]
           q == [[Forget(reader[r]) EXCEPT !.at = "refused"] EXCEPT !.wait = RetryAfter(b)]
<1>1. /\ TypeOK /\ ReaderInv(r) /\ reader[r].at = "sent"
      /\ UNCHANGED <<dbVars, past, changes, faults>>
  BY DEF EveryReaderInv, Check
<1>2. /\ b \in [count : 0 .. Limit, age : 0 .. Window] /\ b.count \in 0 .. Limit
      /\ b.age \in 0 .. Window
  BY <1>1, ReaderFields, LimiterFields
<1>3. CASE WindowOver(b) /\ LetThrough(r, n)
  <2>1. n \in [count : 0 .. Limit, age : 0 .. Window] /\ ~WindowOver(n) /\ n.count = 1 /\ n.age = 0
    BY WindowFacts DEF WindowOver
  <2> QED
    BY <1>1, <1>3, <2>1, LetThroughKeeps
<1>4. CASE ~WindowOver(b) /\ b.count < Limit /\ LetThrough(r, m)
  <2>1. b.count + 1 \in 0 .. Limit
    BY <1>2, <1>4, WindowFacts
  <2>2. m \in [count : 0 .. Limit, age : 0 .. Window] /\ m.age = b.age /\ m.count = b.count + 1
    <3> HIDE DEF b
    <3> QED
      BY <1>2, <2>1
  <2>3. ~WindowOver(m)
    BY <1>4, <2>2 DEF WindowOver
  <2> HIDE DEF m
  <2> QED
    BY <1>1, <1>4, <2>2, <2>3, LetThroughKeeps
<1>5. CASE /\ reader' = [reader EXCEPT ![r] = [Forget(reader[r]) EXCEPT !.at = "refused", !.wait = RetryAfter(b)]]
           /\ UNCHANGED <<bucket, passed>>
  <2> DEFINE f == [Forget(reader[r]) EXCEPT !.at = "refused"]
  <2>1. reader[r] \in Reading /\ "refused" \in Place /\ RetryAfter(b) \in 0 .. Window + Second
    BY <1>1, <1>2, ReaderFields, RetryAfterIsBounded DEF Place
  <2>2. /\ f \in Reading /\ f.at = "refused" /\ f.question = reader[r].question /\ f.after = reader[r].after
        /\ f.signed = NoKey /\ f.caller = Nobody /\ f.filter = {} /\ f.unit = {}
        /\ f.page = reader[r].page /\ f.got = reader[r].got
    BY <2>1, ForgetFacts
  <2>3. reader' = [reader EXCEPT ![r] = q] /\ q = [f EXCEPT !.wait = RetryAfter(b)]
    BY <1>5
  <2> HIDE DEF f
  <2>4. /\ q \in Reading /\ q.at = "refused" /\ q.question = f.question /\ q.after = f.after
        /\ q.signed = f.signed /\ q.caller = f.caller /\ q.filter = f.filter /\ q.unit = f.unit
        /\ q.page = f.page /\ q.got = f.got
    BY <2>1, <2>2, <2>3 DEF Reading
  <2> HIDE DEF q
  <2>5. reader'[r] = q /\ past'[r] = past[r] /\ UNCHANGED dbVars
    BY <1>1, <2>3 DEF TypeOK
  <2>6. ReaderInv(r)'
    BY <1>1, <2>2, <2>4, <2>5, GivesUp DEF Walking
  <2>7. /\ BurstInv'
        /\ bucket' \in [Addresses -> [count : 0 .. Limit, age : 0 .. Window]]
        /\ passed' \in [Addresses -> [0 .. Window -> Nat]]
    BY <1>1, <1>5, SameLimiter DEF EveryReaderInv, TypeOK
  <2>8. past[r] \in Past /\ past' = [past EXCEPT ![r] = past[r]] /\ changes' = changes /\ faults' \in Nat
    BY <1>1 DEF TypeOK
  <2>9. IsFiniteSet(q.page) /\ Cardinality(q.page) <= PageLimit
    BY <1>1, <2>2, <2>4, ReaderFields
  <2> QED
    BY <2>3, <2>4, <2>5, <2>6, <2>7, <2>8, <2>9, ServedKeeps
<1> QED
  BY <1>3, <1>4, <1>5 DEF Check
-----------------------------------------------------------------------------
(***************************************************************************)
(* The handlers.                                                           *)
(***************************************************************************)

\* A request that goes on.
LEMMA MovesOn ==
    ASSUME NEW r \in Reader, TypeOK, ReaderInv(r), UnderWay(r), UNCHANGED dbVars,
           reader'[r].at \notin {"idle", "ready", "refused", "done", "failed"},
           reader'[r].question = reader[r].question, reader'[r].after = reader[r].after,
           reader'[r].signed = reader[r].signed, reader'[r].page = reader[r].page,
           reader'[r].got = reader[r].got,
           past'[r].seen = past[r].seen, past'[r].genuine = past[r].genuine,
           past'[r].steady = past[r].steady, past[r].anonymous => past'[r].anonymous,
           PlaceInv(r)', reader'[r].caller \in {Nobody, Did[r]},
           reader'[r].filter # {} => reader'[r].caller # Nobody,
           reader'[r].caller # Nobody => past[r].genuine,
           \A u \in Unit : u.visibility = "network" /\ u.author \in reader'[r].filter =>
                               u \in past[r].seen,
           reader'[r].at = "page" =>
               \A u \in past[r].steady :
                   u.visibility = "network" /\ ~past'[r].anonymous => u.author \in reader'[r].filter
    PROVE  ReaderInv(r)'
<1>1. RightsOf(r)' = RightsOf(r) /\ AllowedTo(r)' = AllowedTo(r) /\ (IsGenuine(r)' <=> IsGenuine(r))
  BY RightsStay
<1>2. CallerInv(r)'
  BY <1>1 DEF ReaderInv, CallerInv
<1>3. WalkInv(r)'
  BY <1>1 DEF ReaderInv, WalkInv, Walking, UnderWay, IsPublic
<1>4. OnlyEntitledOf(r)' /\ WalkIsCompleteOf(r)'
  BY DEF ReaderInv, OnlyEntitledOf, WalkIsCompleteOf
<1> QED
  BY <1>2, <1>3, <1>4 DEF ReaderInv

\* A request that is answered with an error.
LEMMA FailKeeps ==
    ASSUME EveryReaderInv, NEW r \in Reader, Walking(r), NEW place, Fail(r, place), faults' \in Nat
    PROVE  EveryReaderInv'
<1> DEFINE q == [Forget(reader[r]) EXCEPT !.at = "failed"]
<1>1. Step(r, place, q) /\ UNCHANGED <<bucket, past>>
  BY DEF Fail
<1>2. reader'[r] = q /\ UNCHANGED dbVars /\ TypeOK /\ ReaderInv(r)
  BY <1>1, StepFacts
<1>3. /\ q \in Reading /\ q.at = "failed" /\ q.question = reader[r].question
      /\ q.after = reader[r].after /\ q.signed = NoKey /\ q.caller = Nobody /\ q.filter = {}
      /\ q.unit = {} /\ q.page = reader[r].page /\ q.got = reader[r].got
  <2>1. reader[r] \in Reading /\ "failed" \in Place
    BY <1>2, ReaderFields DEF Place
  <2> QED
    BY <2>1, ForgetFacts
<1> HIDE DEF q
<1>4. ReaderInv(r)'
  BY <1>1, <1>2, <1>3, GivesUp
<1>5. IsFiniteSet(q.page) /\ Cardinality(q.page) <= PageLimit
  BY <1>2, <1>3, ReaderFields
<1> QED
  BY <1>1, <1>3, <1>4, <1>5, GotoKeeps

LEMMA ErrorKeeps ==
    ASSUME EveryReaderInv, NEW r \in Reader, Error(r)
    PROVE  EveryReaderInv'
<1>1. PICK place \in {"follows", "page", "agent", "inbox", "load", "network"} : Fail(r, place)
  BY DEF Error
<1>2. Walking(r)
  BY <1>1 DEF Fail, Step, Walking
<1>3. faults' \in Nat
  BY DEF Error, Fault, EveryReaderInv, TypeOK
<1> QED
  BY <1>1, <1>2, <1>3, FailKeeps

\* Who is known has signed with the key of the agent he reads as; of anybody else
\* nothing is known.
LEMMA VerifyKeeps ==
    ASSUME EveryReaderInv, NEW r \in Reader, Verify(r)
    PROVE  EveryReaderInv'
<1> DEFINE kind == reader[r].question.kind
           first == CASE kind = "inbox" -> "agent" [] kind = "unit" -> "load" [] OTHER -> "page"
           next == IF kind = "list" THEN "follows" ELSE first
           q == [reader[r] EXCEPT !.at = next, !.age = 0, !.caller = Did[r]]
           s == [reader[r] EXCEPT !.at = first, !.age = 0]
           p == [past[r] EXCEPT !.anonymous = TRUE]
<1>1. TypeOK /\ ReaderInv(r)
  BY DEF EveryReaderInv
<1>2. reader[r].at = "verify" /\ UnderWay(r) /\ Walking(r)
  BY DEF Verify, Goto, Step, Fail, UnderWay, Walking
<1>3. reader[r].caller = Nobody /\ reader[r].filter = {} /\ kind \in {"list", "unit", "inbox"}
  <2>1. reader[r].question \in Question
    BY <1>1, <1>2, ReaderFields DEF ReaderInv, PlaceInv
  <2> QED
    BY <1>1, <1>2, <2>1, QuestionFields DEF ReaderInv, PlaceInv
<1>4. /\ reader[r] \in Reading /\ past[r] \in Past /\ 0 \in 0 .. Skew + 1
      /\ Did[r] \in Author \union {Nobody} /\ next \in Place /\ first \in Place
      /\ IsFiniteSet(reader[r].page) /\ Cardinality(reader[r].page) <= PageLimit
  BY <1>1, ReaderFields, WindowFacts DEF Place
<1>5. CASE Verifies(r) /\ Goto(r, "verify", q)
  <2>1. /\ q \in Reading /\ q.at = next /\ q.question = reader[r].question
        /\ q.after = reader[r].after /\ q.signed = reader[r].signed /\ q.caller = Did[r]
        /\ q.filter = reader[r].filter /\ q.unit = reader[r].unit
        /\ q.page = reader[r].page /\ q.got = reader[r].got
    <3> HIDE DEF next
    <3> QED
      BY <1>4 DEF Reading
  <2> HIDE DEF q
  <2>2. Step(r, "verify", q) /\ UNCHANGED <<bucket, past, faults>>
    BY <1>5 DEF Goto
  <2>3. reader'[r] = q /\ UNCHANGED dbVars
    BY <2>2, StepFacts
  <2>4. IsGenuine(r) /\ past[r].genuine /\ Did[r] # Nobody
    BY <1>1, <1>2, <1>5 DEF Verifies, IsGenuine, ReaderInv, CallerInv
  <2>5. PlaceInv(r)'
    BY <1>1, <1>2, <1>3, <2>1, <2>3, <2>4 DEF ReaderInv, PlaceInv
  <2>6. next \notin {"idle", "ready", "refused", "done", "failed", "page"}
    BY <1>3
  <2>7. ReaderInv(r)'
    BY <1>1, <1>2, <1>3, <2>1, <2>2, <2>3, <2>4, <2>5, <2>6, MovesOn
  <2>8. faults' \in Nat
    BY <1>1, <2>2 DEF TypeOK
  <2> QED
    BY <1>4, <2>1, <2>2, <2>7, <2>8, GotoKeeps
<1>6. CASE faults' \in Nat /\ kind = "inbox" /\ Fail(r, "verify")
  BY <1>2, <1>6, FailKeeps
<1>7. CASE /\ faults' \in Nat /\ kind # "inbox" /\ Step(r, "verify", s)
           /\ past' = [past EXCEPT ![r].anonymous = TRUE] /\ UNCHANGED bucket
  <2>1. /\ s \in Reading /\ s.at = first /\ s.question = reader[r].question
        /\ s.after = reader[r].after /\ s.signed = reader[r].signed /\ s.caller = reader[r].caller
        /\ s.filter = reader[r].filter /\ s.unit = reader[r].unit
        /\ s.page = reader[r].page /\ s.got = reader[r].got
    <3> HIDE DEF first
    <3> QED
      BY <1>4 DEF Reading
  <2>2. p \in Past /\ past' = [past EXCEPT ![r] = p] /\ past'[r] = p
    BY <1>1, <1>4, <1>7 DEF Past, TypeOK
  <2>3. /\ past'[r].seen = past[r].seen /\ past'[r].genuine = past[r].genuine
        /\ past'[r].steady = past[r].steady /\ past'[r].anonymous = TRUE
    BY <1>4, <2>2 DEF Past
  <2> HIDE DEF s, p
  <2>4. reader'[r] = s /\ UNCHANGED dbVars
    BY <1>7, StepFacts
  <2>5. PlaceInv(r)'
    BY <1>1, <1>2, <1>3, <1>7, <2>1, <2>4 DEF ReaderInv, PlaceInv
  <2>6. first \notin {"idle", "ready", "refused", "done", "failed"}
    BY <1>3
  <2>7. ReaderInv(r)'
    BY <1>1, <1>2, <1>3, <2>1, <2>3, <2>4, <2>5, <2>6, MovesOn
  <2> QED
    BY <1>4, <1>7, <2>1, <2>2, <2>7, StepKeeps
<1>8. faults' \in Nat
  BY <1>1 DEF Verify, Goto, Fault, TypeOK
<1> QED
  BY <1>5, <1>6, <1>7, <1>8 DEF Verify

\* The follow list tells for which network units r has the right.
LEMMA ListFollowingKeeps ==
    ASSUME EveryReaderInv, NEW r \in Reader, ListFollowing(r)
    PROVE  EveryReaderInv'
<1> DEFINE F == {e \in Author : <<reader[r].caller, e>> \in follows}
           q == [reader[r] EXCEPT !.at = "page", !.filter = F]
<1>1. Step(r, "follows", q) /\ UNCHANGED <<bucket, past, faults>>
  BY DEF ListFollowing, Goto
<1>2. reader[r].at = "follows" /\ reader'[r] = q /\ UNCHANGED dbVars /\ TypeOK /\ ReaderInv(r)
  BY <1>1, StepFacts
<1>3. UnderWay(r) /\ Walking(r) /\ reader[r].question.kind = "list" /\ reader[r].caller = Did[r]
      /\ Did[r] # Nobody /\ past[r].genuine
  BY <1>2 DEF UnderWay, Walking, ReaderInv, PlaceInv, CallerInv
<1>4. /\ q \in Reading /\ q.at = "page" /\ q.question = reader[r].question
      /\ q.after = reader[r].after /\ q.signed = reader[r].signed /\ q.caller = reader[r].caller
      /\ q.filter = F /\ q.unit = reader[r].unit
      /\ q.page = reader[r].page /\ q.got = reader[r].got
  <2>1. reader[r] \in Reading /\ "page" \in Place /\ F \in SUBSET Author
    BY <1>2, ReaderFields DEF Place
  <2> HIDE DEF F
  <2> QED
    BY <2>1 DEF Reading
<1> HIDE DEF q
<1>5. PlaceInv(r)'
  BY <1>2, <1>3, <1>4 DEF ReaderInv, PlaceInv
<1>6. ASSUME NEW u \in Unit, u.visibility = "network", u.author \in F PROVE u \in past[r].seen
  <2>1. u \in RightsOf(r)
    BY <1>3, <1>6 DEF RightsOf, Rights
  <2> QED
    BY <1>2, <1>3, <2>1 DEF ReaderInv, CallerInv
<1>7. ASSUME NEW u \in past[r].steady, u.visibility = "network" PROVE u.author \in F
  <2>1. u \in AllowedTo(r) /\ u \in Unit
    BY <1>2, <1>3, ReaderFields DEF ReaderInv, WalkInv
  <2>2. <<Did[r], u.author>> \in follows
    BY <1>3, <1>7, <2>1 DEF AllowedTo, Allowed, Rights, IsPublic
  <2> QED
    BY <1>3, <2>1, <2>2, UnitFields
<1> HIDE DEF F
<1>8. ReaderInv(r)'
  BY <1>1, <1>2, <1>3, <1>4, <1>5, <1>6, <1>7, MovesOn
<1>9. IsFiniteSet(q.page) /\ Cardinality(q.page) <= PageLimit /\ faults' \in Nat
  BY <1>1, <1>2, <1>4, ReaderFields DEF TypeOK
<1> QED
  BY <1>1, <1>4, <1>8, <1>9, GotoKeeps

\* Only the agent itself gets as far as its inbox.
LEMMA FindAgentKeeps ==
    ASSUME EveryReaderInv, NEW r \in Reader, reader[r].at = "agent", FindAgent(r)
    PROVE  EveryReaderInv'
<1> DEFINE q == [reader[r] EXCEPT !.at = "inbox"]
<1>1. TypeOK /\ ReaderInv(r) /\ UnderWay(r) /\ Walking(r)
  BY DEF EveryReaderInv, UnderWay, Walking
<1>2. CASE reader[r].caller = reader[r].question.did /\ Goto(r, "agent", q)
  <2>1. Step(r, "agent", q) /\ UNCHANGED <<bucket, past, faults>>
    BY <1>2 DEF Goto
  <2>2. reader'[r] = q /\ UNCHANGED dbVars
    BY <2>1, StepFacts
  <2>3. /\ q \in Reading /\ q.at = "inbox" /\ q.question = reader[r].question
        /\ q.after = reader[r].after /\ q.signed = reader[r].signed /\ q.caller = reader[r].caller
        /\ q.filter = reader[r].filter /\ q.unit = reader[r].unit
        /\ q.page = reader[r].page /\ q.got = reader[r].got
    <3>1. reader[r] \in Reading /\ "inbox" \in Place
      BY <1>1, ReaderFields DEF Place
    <3> QED
      BY <3>1 DEF Reading
  <2> HIDE DEF q
  <2>4. PlaceInv(r)'
    BY <1>1, <1>2, <2>2, <2>3 DEF ReaderInv, PlaceInv
  <2>5. ReaderInv(r)'
    <3>1. reader[r].caller \in {Nobody, Did[r]} /\ reader[r].filter = {}
          /\ (reader[r].caller # Nobody => past[r].genuine)
      BY <1>1 DEF ReaderInv, CallerInv, PlaceInv
    <3> QED
      BY <1>1, <2>1, <2>2, <2>3, <2>4, <3>1, MovesOn
  <2>6. IsFiniteSet(q.page) /\ Cardinality(q.page) <= PageLimit /\ faults' \in Nat
    BY <1>1, <2>1, <2>3, ReaderFields DEF TypeOK
  <2> QED
    BY <2>1, <2>3, <2>5, <2>6, GotoKeeps
<1>3. CASE Fail(r, "agent") /\ UNCHANGED faults
  <2>1. faults' \in Nat
    BY <1>1, <1>3 DEF TypeOK
  <2> QED
    BY <1>1, <1>3, <2>1, FailKeeps
<1> QED
  BY <1>2, <1>3 DEF FindAgent
-----------------------------------------------------------------------------
(***************************************************************************)
(* The answers.                                                            *)
(***************************************************************************)

\* What r reads it may read.
Entitled(u, r) ==
    \/ IsPublic(u) /\ reader[r].question.kind # "inbox"
    \/ past[r].genuine /\ u \in past[r].seen

\* A page for a list or an inbox keeps what is owed ahead of the cursor or hands it out.
LEMMA AnswerKeeps ==
    ASSUME EveryReaderInv, NEW r \in Reader, UnderWay(r), reader[r].question.kind # "unit",
           NEW place, NEW S \in SUBSET Unit, OneUnitPerId(S), Answer(r, place, S),
           \A u \in S : u.id > reader[r].after /\ Entitled(u, r),
           \A u \in past[r].steady : IsPublic(u) \/ ~past[r].anonymous =>
               u \in S \/ u.id <= reader[r].after
    PROVE  EveryReaderInv'
<1> DEFINE P == FirstPage(S)
           last == Max({u.id : u \in P} \union {reader[r].after})
           at == IF P # S THEN "ready" ELSE "done"
           G == reader[r].got \union P
           f == [Forget(reader[r]) EXCEPT !.at = at]
           q == [Forget(reader[r]) EXCEPT !.at = at, !.page = P, !.got = Forget(reader[r]).got \union P,
                                          !.after = last]
<1>1. Step(r, place, q) /\ UNCHANGED <<bucket, past, faults>>
  BY DEF Answer, Goto
<1>2. reader'[r] = q /\ UNCHANGED dbVars /\ TypeOK /\ ReaderInv(r)
  BY <1>1, StepFacts
<1>3. /\ P \subseteq S /\ IsFiniteSet(P) /\ Cardinality(P) <= PageLimit
      /\ \A u \in S \ P, w \in P : w.id < u.id
  BY PageFacts
<1>4. /\ reader[r] \in Reading /\ reader[r].after \in Nat /\ at \in Place
      /\ reader[r].got \subseteq Unit /\ past[r].steady \subseteq Unit
  BY <1>2, ReaderFields DEF Place
<1> HIDE DEF P
<1>5. /\ last \in Nat /\ reader[r].after <= last /\ \A u \in P : u.id <= last
      /\ last = reader[r].after \/ \E u \in P : u.id = last
  BY <1>3, <1>4, CursorFacts
<1> HIDE DEF last, at
<1>6. /\ f \in Reading /\ f.question = reader[r].question /\ f.after = reader[r].after
      /\ f.signed = NoKey /\ f.caller = Nobody /\ f.filter = {} /\ f.unit = {}
      /\ f.page = reader[r].page /\ f.got = reader[r].got /\ f.at = at
  BY <1>4, ForgetFacts
<1>7. G \subseteq Unit /\ P \subseteq Unit
  BY <1>3, <1>4
<1>8. q = [f EXCEPT !.page = P, !.got = G, !.after = last]
  BY DEF Forget
<1> HIDE DEF q, f, G
<1>9. /\ q \in Reading /\ q.at = at /\ q.question = reader[r].question /\ q.after = last
      /\ q.signed = NoKey /\ q.caller = Nobody /\ q.filter = {} /\ q.unit = {}
      /\ q.page = P /\ q.got = G
  BY <1>5, <1>6, <1>7, <1>8 DEF Reading
<1>10. (at = "ready" \/ (at = "done" /\ P = S)) /\ past'[r] = past[r]
  BY <1>1 DEF at
<1>11. Walking(r)
  BY DEF UnderWay, Walking
<1>12. PlaceInv(r)'
  BY <1>2, <1>9, <1>10, <1>11 DEF ReaderInv, PlaceInv, Walking
<1>13. CallerInv(r)'
  BY <1>2, <1>9, <1>10 DEF CallerInv, UnderWay
<1>14. ASSUME NEW u \in past[r].steady, IsPublic(u) \/ ~past[r].anonymous
       PROVE  /\ u \in G \/ u.id > last
              /\ P = S => u \in G
  <2>1. u \in reader[r].got \/ u.id > reader[r].after
    BY <1>2, <1>11, <1>14 DEF ReaderInv, WalkInv
  <2>2. u.id \in Nat
    BY <1>4, UnitFields
  <2>3. u \in reader[r].got \/ u \in S
    BY <1>4, <1>14, <2>1, <2>2
  <2>4. ASSUME u \in S \ P PROVE u.id > last
    BY <1>3, <1>5, <2>2, <2>4
  <2> QED
    BY <2>3, <2>4 DEF G
<1>15. WalkInv(r)'
  <2>1. AllowedTo(r)' = AllowedTo(r)
    BY <1>2, <1>9, RightsStay
  <2> QED
    BY <1>2, <1>9, <1>10, <1>11, <1>14, <2>1 DEF ReaderInv, WalkInv
<1>16. OnlyEntitledOf(r)'
  BY <1>2, <1>3, <1>9, <1>10 DEF OnlyEntitledOf, Entitled, IsPublic
<1>17. WalkIsCompleteOf(r)'
  BY <1>2, <1>9, <1>10, <1>14 DEF WalkIsCompleteOf
<1>18. faults' \in Nat
  BY <1>1, <1>2 DEF TypeOK
<1>19. ReaderInv(r)'
  BY <1>12, <1>13, <1>15, <1>16, <1>17 DEF ReaderInv
<1> QED
  BY <1>1, <1>3, <1>9, <1>18, <1>19, GotoKeeps

\* A list asks for public units, and for network units of those r follows.
LEMMA ListUnitsKeeps ==
    ASSUME EveryReaderInv, NEW r \in Reader, reader[r].at = "page", ListUnits(r)
    PROVE  EveryReaderInv'
<1> DEFINE S == {u \in store : Matches(u, r)}
<1>1. TypeOK /\ StoreInv /\ ReaderInv(r) /\ UnderWay(r) /\ Walking(r)
  BY DEF EveryReaderInv, UnderWay, Walking
<1>2. reader[r].question.kind = "list" /\ reader[r].after \in Nat
  BY <1>1, ReaderFields DEF ReaderInv, PlaceInv
<1>3. S \in SUBSET Unit /\ OneUnitPerId(S)
  <2>1. S \in SUBSET store /\ OneUnitPerId(store) /\ store \subseteq Unit
    BY <1>1 DEF StoreInv, TypeOK
  <2> HIDE DEF S
  <2> QED
    BY <2>1, FS_Subset DEF OneUnitPerId
<1>4. ASSUME NEW u \in S PROVE u.id > reader[r].after /\ Entitled(u, r)
  <2>1. Matches(u, r) /\ u \in Unit
    BY <1>3
  <2>2. CASE IsPublic(u)
    BY <1>2, <2>1, <2>2 DEF Matches, Entitled
  <2>3. CASE ~IsPublic(u)
    <3>1. u.visibility = "network" /\ reader[r].filter # {} /\ u.author \in reader[r].filter
      BY <2>1, <2>3 DEF Matches, Visibilities, IsPublic
    <3> QED
      BY <1>1, <2>1, <3>1 DEF Matches, Entitled, ReaderInv, CallerInv
  <2> QED
    BY <2>2, <2>3
<1>5. ASSUME NEW u \in past[r].steady, IsPublic(u) \/ ~past[r].anonymous
      PROVE  u \in S \/ u.id <= reader[r].after
  <2>1. u \in AllowedTo(r) /\ u \in Unit /\ u.id \in Nat
    BY <1>1, ReaderFields, UnitFields DEF ReaderInv, WalkInv
  <2>2. u \in store /\ (IsPublic(u) \/ u.visibility = "network")
    BY <1>2, <2>1 DEF AllowedTo, Allowed, Rights
  <2>3. u.visibility = "network" => u.author \in reader[r].filter
    BY <1>1, <1>5, <2>2 DEF ReaderInv, WalkInv
  <2>4. CASE u.id > reader[r].after
    BY <2>2, <2>3, <2>4 DEF Matches, Visibilities, IsPublic
  <2> QED
    BY <1>2, <2>1, <2>4
<1> HIDE DEF S
<1>6. Answer(r, "page", S)
  BY DEF ListUnits, S
<1> QED
  BY <1>1, <1>2, <1>3, <1>4, <1>5, <1>6, AnswerKeeps

\* An inbox is read by the agent whose it is.
LEMMA GetInboxKeeps ==
    ASSUME EveryReaderInv, NEW r \in Reader, reader[r].at = "inbox", GetInbox(r)
    PROVE  EveryReaderInv'
<1> DEFINE d == reader[r].question.did
           S == {u \in inbox[d] : u.id > reader[r].after}
<1>1. TypeOK /\ StoreInv /\ ReaderInv(r) /\ UnderWay(r) /\ Walking(r)
  BY DEF EveryReaderInv, UnderWay, Walking
<1>2. reader[r].question.kind = "inbox" /\ reader[r].after \in Nat /\ reader[r].caller = d /\ d \in Author
  BY <1>1, ReaderFields, QuestionFields DEF ReaderInv, PlaceInv, NoQuestion
<1>3. d = Did[r] /\ past[r].genuine
  BY <1>1, <1>2, ReadingAssumption DEF ReaderInv, CallerInv
<1>4. S \in SUBSET Unit /\ OneUnitPerId(S)
  <2>1. S \in SUBSET inbox[d] /\ OneUnitPerId(inbox[d]) /\ inbox[d] \subseteq Unit
    BY <1>1, <1>2 DEF StoreInv, TypeOK
  <2> HIDE DEF S
  <2> QED
    BY <2>1, FS_Subset DEF OneUnitPerId
<1>5. RightsOf(r) = inbox[d] /\ AllowedTo(r) = inbox[d]
  BY <1>2, <1>3 DEF RightsOf, Rights, AllowedTo, Allowed
<1>6. ASSUME NEW u \in S PROVE u.id > reader[r].after /\ Entitled(u, r)
  BY <1>1, <1>3, <1>5 DEF Entitled, ReaderInv, CallerInv
<1>7. ASSUME NEW u \in past[r].steady PROVE u \in S \/ u.id <= reader[r].after
  <2>1. u \in inbox[d] /\ u.id \in Nat
    BY <1>1, <1>5, ReaderFields, UnitFields DEF ReaderInv, WalkInv
  <2> QED
    BY <1>2, <2>1
<1>8. Answer(r, "inbox", S)
  BY DEF GetInbox
<1> HIDE DEF S
<1> QED
  BY <1>1, <1>2, <1>4, <1>6, <1>7, <1>8, AnswerKeeps

\* A unit that is asked for by its id.
LEMMA AnswerUnitKeeps ==
    ASSUME EveryReaderInv, NEW r \in Reader, UnderWay(r), reader[r].question.kind = "unit",
           NEW place, NEW u \in Unit, AnswerUnit(r, place, u), Entitled(u, r)
    PROVE  EveryReaderInv'
<1> DEFINE f == [Forget(reader[r]) EXCEPT !.at = "done"]
           q == [Forget(reader[r]) EXCEPT !.at = "done", !.page = {u}, !.got = {u}]
<1>1. Step(r, place, q) /\ UNCHANGED <<bucket, past, faults>>
  BY DEF AnswerUnit, Goto
<1>2. reader'[r] = q /\ UNCHANGED dbVars /\ TypeOK /\ ReaderInv(r)
  BY <1>1, StepFacts
<1>3. /\ f \in Reading /\ f.question = reader[r].question /\ f.after = reader[r].after
      /\ f.signed = NoKey /\ f.caller = Nobody /\ f.filter = {} /\ f.unit = {} /\ f.at = "done"
  <2>1. reader[r] \in Reading /\ "done" \in Place
    BY <1>2, ReaderFields DEF Place
  <2> QED
    BY <2>1, ForgetFacts
<1>4. q = [f EXCEPT !.page = {u}, !.got = {u}]
  BY DEF Forget
<1> HIDE DEF q, f
<1>5. /\ q \in Reading /\ q.at = "done" /\ q.question = reader[r].question
      /\ q.signed = NoKey /\ q.caller = Nobody /\ q.filter = {} /\ q.unit = {} /\ q.page = {u}
  BY <1>3, <1>4 DEF Reading
<1>6. PlaceInv(r)'
  BY <1>2, <1>5 DEF ReaderInv, PlaceInv, UnderWay
<1>7. CallerInv(r)'
  BY <1>2, <1>5 DEF CallerInv, UnderWay
<1>8. WalkInv(r)'
  BY <1>2, <1>5 DEF WalkInv, Walking
<1>9. OnlyEntitledOf(r)'
  BY <1>1, <1>2, <1>5 DEF OnlyEntitledOf, Entitled, IsPublic
<1>10. WalkIsCompleteOf(r)'
  BY <1>2, <1>5 DEF WalkIsCompleteOf
<1>11. IsFiniteSet(q.page) /\ Cardinality(q.page) <= PageLimit
  <2>1. IsFiniteSet({u}) /\ Cardinality({u}) = 1
    BY FS_Singleton
  <2>2. 1 <= PageLimit
    BY ReadingAssumption
  <2> QED
    BY <1>5, <2>1, <2>2
<1>12. faults' \in Nat /\ ReaderInv(r)'
  BY <1>1, <1>2, <1>6, <1>7, <1>8, <1>9, <1>10 DEF TypeOK, ReaderInv
<1> QED
  BY <1>1, <1>5, <1>11, <1>12, GotoKeeps

\* A limited unit is for whom it names, a network unit must be looked up.
LEMMA GetUnitKeeps ==
    ASSUME EveryReaderInv, NEW r \in Reader, reader[r].at = "load", GetUnit(r)
    PROVE  EveryReaderInv'
<1>1. TypeOK /\ ReaderInv(r) /\ UnderWay(r) /\ Walking(r)
  BY DEF EveryReaderInv, UnderWay, Walking
<1>2. reader[r].question.kind = "unit" /\ store \subseteq Unit
  BY <1>1 DEF ReaderInv, PlaceInv, TypeOK
<1>3. ASSUME NEW u \in store, IsPublic(u) \/ (u.visibility = "limited" /\ reader[r].caller \in u.body),
             AnswerUnit(r, "load", u)
      PROVE  EveryReaderInv'
  <2>1. Entitled(u, r)
    <3>1. CASE IsPublic(u)
      BY <1>2, <3>1 DEF Entitled
    <3>2. CASE u.visibility = "limited" /\ reader[r].caller \in u.body
      <4>1. reader[r].caller \in Author
        BY <1>2, <3>2, UnitFields
      <4>2. reader[r].caller = Did[r] /\ past[r].genuine
        BY <1>1, <4>1, ReadingAssumption DEF ReaderInv, CallerInv
      <4>3. u \in RightsOf(r)
        BY <1>2, <3>2, <4>2 DEF RightsOf, Rights
      <4> QED
        BY <1>1, <4>2, <4>3 DEF Entitled, ReaderInv, CallerInv
    <3> QED
      BY <1>3, <3>1, <3>2
  <2> QED
    BY <1>1, <1>2, <1>3, <2>1, AnswerUnitKeeps
<1>4. ASSUME NEW u \in store, u.visibility = "network",
             Goto(r, "load", [reader[r] EXCEPT !.at = "network", !.unit = {u}])
      PROVE  EveryReaderInv'
  <2> DEFINE q == [reader[r] EXCEPT !.at = "network", !.unit = {u}]
  <2>1. Step(r, "load", q) /\ UNCHANGED <<bucket, past, faults>>
    BY <1>4 DEF Goto
  <2>2. reader'[r] = q /\ UNCHANGED dbVars
    BY <2>1, StepFacts
  <2>3. /\ q \in Reading /\ q.at = "network" /\ q.question = reader[r].question
        /\ q.after = reader[r].after /\ q.signed = reader[r].signed /\ q.caller = reader[r].caller
        /\ q.filter = reader[r].filter /\ q.unit = {u}
        /\ q.page = reader[r].page /\ q.got = reader[r].got
    <3>1. reader[r] \in Reading /\ "network" \in Place /\ u \in Unit
      BY <1>1, <1>2, ReaderFields DEF Place
    <3> QED
      BY <3>1 DEF Reading
  <2> HIDE DEF q
  <2>4. PlaceInv(r)'
    BY <1>1, <1>2, <1>4, <2>2, <2>3 DEF ReaderInv, PlaceInv
  <2>5. /\ reader[r].caller \in {Nobody, Did[r]} /\ reader[r].filter = {}
        /\ (reader[r].caller # Nobody => past[r].genuine)
    BY <1>1 DEF ReaderInv, CallerInv, PlaceInv
  <2>6. ReaderInv(r)'
    BY <1>1, <2>1, <2>2, <2>3, <2>4, <2>5, MovesOn
  <2>7. IsFiniteSet(q.page) /\ Cardinality(q.page) <= PageLimit /\ faults' \in Nat
    BY <1>1, <2>1, <2>3, ReaderFields DEF TypeOK
  <2> QED
    BY <2>1, <2>3, <2>6, <2>7, GotoKeeps
<1>5. ASSUME Fail(r, "load"), UNCHANGED faults PROVE EveryReaderInv'
  <2>1. faults' \in Nat
    BY <1>1, <1>5 DEF TypeOK
  <2> QED
    BY <1>1, <1>5, <2>1, FailKeeps
<1> QED
  BY <1>3, <1>4, <1>5 DEF GetUnit

\* Whether r follows the author is looked up after the unit.
LEMMA IsFollowingKeeps ==
    ASSUME EveryReaderInv, NEW r \in Reader, IsFollowing(r)
    PROVE  EveryReaderInv'
<1>1. PICK u \in reader[r].unit :
          \/ <<reader[r].caller, u.author>> \in follows /\ AnswerUnit(r, "network", u)
          \/ Fail(r, "network") /\ UNCHANGED faults
  BY DEF IsFollowing
<1>2. reader[r].at = "network"
  BY <1>1 DEF AnswerUnit, Goto, Fail, Step
<1>3. TypeOK /\ ReaderInv(r) /\ UnderWay(r) /\ Walking(r)
  BY <1>2 DEF EveryReaderInv, UnderWay, Walking
<1>4. u \in Unit /\ u.visibility = "network" /\ reader[r].question.kind = "unit"
  BY <1>1, <1>2, <1>3, ReaderFields DEF ReaderInv, PlaceInv
<1>5. CASE <<reader[r].caller, u.author>> \in follows /\ AnswerUnit(r, "network", u)
  <2>1. reader[r].caller \in Author
    BY <1>3, <1>5 DEF TypeOK
  <2>2. reader[r].caller = Did[r] /\ past[r].genuine
    BY <1>3, <2>1, ReadingAssumption DEF ReaderInv, CallerInv
  <2>3. u \in RightsOf(r)
    BY <1>4, <1>5, <2>2 DEF RightsOf, Rights
  <2>4. Entitled(u, r)
    BY <1>3, <2>2, <2>3 DEF Entitled, ReaderInv, CallerInv
  <2> QED
    BY <1>3, <1>4, <1>5, <2>4, AnswerUnitKeeps
<1>6. CASE Fail(r, "network") /\ UNCHANGED faults
  <2>1. faults' \in Nat
    BY <1>3, <1>6 DEF TypeOK
  <2> QED
    BY <1>3, <1>6, <2>1, FailKeeps
<1> QED
  BY <1>1, <1>5, <1>6
-----------------------------------------------------------------------------
(***************************************************************************)
(* The theorems.                                                           *)
(***************************************************************************)

LEMMA InvInit == Init => EveryReaderInv
<1> SUFFICES ASSUME Init PROVE EveryReaderInv
  OBVIOUS
<1> USE DEF Init
<1>1. ASSUME NEW r \in Reader
      PROVE  /\ reader[r] = [at |-> "idle", question |-> NoQuestion, after |-> 0, signed |-> NoKey,
                             age |-> 0, wait |-> 0, caller |-> Nobody, filter |-> {}, unit |-> {},
                             page |-> {}, got |-> {}]
             /\ past[r] = [seen |-> {}, genuine |-> FALSE, steady |-> {}, anonymous |-> FALSE]
  OBVIOUS
<1>2. IsFiniteSet({}) /\ Cardinality({}) = 0
  BY FS_EmptySet
<1>3. TypeOK
  <2>1. ASSUME NEW r \in Reader PROVE reader[r] \in Reading /\ past[r] \in Past
    <3>1. "idle" \in Place /\ 0 \in 0 .. Skew + 1 /\ 0 \in 0 .. Window + Second
      BY WindowFacts DEF Place
    <3> QED
      BY <1>1, <3>1 DEF Reading, Past
  <2>2. reader \in [Reader -> Reading] /\ past \in [Reader -> Past]
    <3>1. reader = [r \in Reader |-> reader[r]] /\ past = [r \in Reader |-> past[r]]
      OBVIOUS
    <3> QED
      BY <2>1, <3>1
  <2>3. \A r \in Reader : IsFiniteSet(reader[r].page) /\ Cardinality(reader[r].page) <= PageLimit
    <3>1. 0 <= PageLimit
      BY ReadingAssumption
    <3> QED
      BY <1>1, <1>2, <3>1
  <2>4. key \in [Author -> Key \union {NoKey}] /\ inbox \in [Author -> SUBSET Unit]
    BY ReadingAssumption DEF Key
  <2>5. bucket \in [Addresses -> [count : 0 .. Limit, age : 0 .. Window]]
    BY WindowFacts
  <2>6. passed \in [Addresses -> [0 .. Window -> Nat]]
    BY WindowFacts
  <2>7. store \subseteq Unit /\ follows \subseteq Author \X Author /\ changes \in Nat /\ faults \in Nat
    BY ReadingAssumption
  <2> HIDE DEF Init
  <2> QED
    BY <2>2, <2>3, <2>4, <2>5, <2>6, <2>7 DEF TypeOK
<1>4. StoreInv
  <2>1. OneUnitPerId(store)
    BY ReadingAssumption DEF OneUnitPerId
  <2>2. ASSUME NEW d \in Author PROVE OneUnitPerId(inbox[d])
    <3>1. inbox[d] \in SUBSET store
      OBVIOUS
    <3> HIDE DEF Init
    <3> QED
      BY <2>1, <3>1, FS_Subset DEF OneUnitPerId
  <2> QED
    BY <2>1, <2>2 DEF StoreInv
<1>5. BurstInv
  <2>1. ASSUME NEW a \in Addresses PROVE Counted(bucket[a], passed[a])
    <3>1. /\ bucket[a].count = 0 /\ bucket[a].age = Window
          /\ \A k \in 0 .. Window : passed[a][k] = 0
      OBVIOUS
    <3> HIDE DEF Init
    <3>2. \A k \in 1 .. Window : passed[a][k - 1] = 0 /\ passed[a][k] = 0
      BY <3>1, WindowFacts
    <3> QED
      BY <3>1, <3>2, WindowFacts DEF Counted, WindowOver
  <2> HIDE DEF Init
  <2> QED
    BY <2>1 DEF BurstInv
<1>6. ASSUME NEW r \in Reader PROVE ReaderInv(r)
  <2>1. NoQuestion.kind = "none"
    BY DEF NoQuestion
  <2> HIDE DEF Init
  <2>2. PlaceInv(r)
    BY <1>1, <2>1 DEF PlaceInv
  <2>3. CallerInv(r)
    BY <1>1 DEF CallerInv, UnderWay
  <2>4. WalkInv(r)
    BY <1>1 DEF WalkInv, Walking
  <2>5. OnlyEntitledOf(r) /\ WalkIsCompleteOf(r)
    BY <1>1 DEF OnlyEntitledOf, WalkIsCompleteOf
  <2> QED
    BY <2>2, <2>3, <2>4, <2>5 DEF ReaderInv
<1> QED
  BY <1>3, <1>4, <1>5, <1>6 DEF EveryReaderInv

LEMMA InvStep == EveryReaderInv /\ [Next]_vars => EveryReaderInv'
<1> SUFFICES ASSUME EveryReaderInv, [Next]_vars PROVE EveryReaderInv'
  OBVIOUS
<1>1. CASE UNCHANGED vars
  <2>1. UNCHANGED <<dbVars, bucket, reader, passed, past, changes, faults>>
    BY <1>1 DEF vars
  <2>2. TypeOK' /\ StoreInv'
    BY <2>1 DEF EveryReaderInv, TypeOK, StoreInv, OneUnitPerId
  <2>4. BurstInv'
    BY <2>1, SameLimiter DEF EveryReaderInv
  <2>3. ASSUME NEW r \in Reader PROVE ReaderInv(r)'
    BY <2>1, SameReader DEF EveryReaderInv, SameFor
  <2> QED
    BY <2>2, <2>3, <2>4 DEF EveryReaderInv
<1>2. CASE \E u \in Unit : Arrive(u)
  BY <1>2, ArriveKeeps
<1>3. CASE \E u \in Unit : \E d \in Author : Deliver(d, u)
  BY <1>3, DeliverKeeps
<1>4. CASE \E d \in {Did[r] : r \in Reader} \ {Nobody} : Change(d)
  BY <1>4, ChangeKeeps
<1>5. CASE Tick
  BY <1>5, TickKeeps
<1>6. CASE \E r \in Reader : \E q \in Questions[r] : Start(r, q)
  BY <1>6, StartKeeps
<1>7. CASE \E r \in Reader : Send(r)
  BY <1>7, SendKeeps
<1>8. CASE \E r \in Reader : Check(r)
  BY <1>8, CheckKeeps
<1>9. CASE \E r \in Reader : Verify(r)
  BY <1>9, VerifyKeeps
<1>10. CASE \E r \in Reader : ListFollowing(r)
  BY <1>10, ListFollowingKeeps
<1>11. CASE \E r \in Reader : reader[r].at = "page" /\ ListUnits(r)
  BY <1>11, ListUnitsKeeps
<1>12. CASE \E r \in Reader : reader[r].at = "agent" /\ FindAgent(r)
  BY <1>12, FindAgentKeeps
<1>13. CASE \E r \in Reader : reader[r].at = "inbox" /\ GetInbox(r)
  BY <1>13, GetInboxKeeps
<1>14. CASE \E r \in Reader : reader[r].at = "load" /\ GetUnit(r)
  BY <1>14, GetUnitKeeps
<1>15. CASE \E r \in Reader : IsFollowing(r)
  BY <1>15, IsFollowingKeeps
<1>16. CASE \E r \in Reader : Error(r)
  BY <1>16, ErrorKeeps
<1> QED
  BY <1>1, <1>2, <1>3, <1>4, <1>5, <1>6, <1>7, <1>8, <1>9, <1>10, <1>11, <1>12, <1>13,
     <1>14, <1>15, <1>16, StepCases

\* The inductive invariant: an id names one unit, a request is only where its kind of
\* question takes it, what the node knows of a caller was so while the request was
\* under way, and what a walk is owed it has or has still ahead of its cursor.
THEOREM Invariance == Spec => []IInv
<1>1. EveryReaderInv => IInv
  BY ReaderByReader
<1> QED
  BY InvInit, InvStep, <1>1, PTL DEF Spec

\* No handler leaves its type: counts, ages and Retry-After stay within their bounds,
\* and no page of units.rs or agents.rs is longer than its limit.
THEOREM TypeCorrect == Spec => []TypeOK
<1>1. IInv => TypeOK
  BY DEF IInv
<1> QED
  BY Invariance, <1>1, PTL

\* Nobody gets a unit, from `list', `get_by_id' or `inbox', that was not public and
\* not his to see while his request was under way, nor with a key that was never his
\* in that time, whatever arrives or changes between the storage calls.
THEOREM OnlyEntitledHolds == Spec => []OnlyEntitled
<1>1. IInv => OnlyEntitled
  BY DEF IInv
<1> QED
  BY Invariance, <1>1, PTL

\* Who follows the cursor of `list' or `inbox' to the end gets every unit that was
\* there and his to see all the time, whatever arrived, left or was refused meanwhile.
THEOREM WalkIsCompleteHolds == Spec => []WalkIsComplete
<1>1. IInv => WalkIsComplete
  BY DEF IInv
<1> QED
  BY Invariance, <1>1, PTL

\* The rate limiter's window begins anew with the first request after its end, so that
\* twice the limit can pass in one window's time, and never more.
THEOREM BurstIsBoundedHolds == Spec => []BurstIsBounded
<1>1. ASSUME IInv PROVE BurstIsBounded
  <2>1. TypeOK /\ BurstInv
    BY <1>1 DEF IInv
  <2>2. ASSUME NEW a \in Addresses PROVE passed[a][Window] <= 2 * Limit
    <3>1. passed[a][Window] <= bucket[a].count + Limit
      BY <2>1 DEF BurstInv, Counted
    <3>2. passed[a][Window] \in Nat /\ bucket[a].count \in 0 .. Limit
      BY <2>1, LimiterFields, WindowFacts
    <3> QED
      BY <3>1, <3>2, WindowFacts
  <2>3. DOMAIN passed = Addresses
    BY <2>1 DEF TypeOK
  <2> QED
    BY <2>2, <2>3 DEF BurstIsBounded
<1> QED
  BY Invariance, <1>1, PTL
=============================================================================
