------------------------- MODULE FilterSFEdgesProofs -------------------------
(***************************************************************************)
(* filter_sf_edges for any forest and any number of threads: which         *)
(* positions of the sorted adjacency each thread applies, that no two      *)
(* threads touch a vertex's sketch at a time, and what the threads have    *)
(* done to the sketches when all of them are done.                         *)
(***************************************************************************)
EXTENDS FilterSFEdges, TLAPS

(* The provers in the order they are tried, with their limits in seconds.    *)
USE ZenonT(3), SMTT(20), ZenonT(20)

FilterPhase == phase \in {"filter", "revert"}

Places == {"left", "up", "right", "down", "middle", "done"}

FilterTypes ==
  /\ num_threads \in Nat \ {0}
  /\ sketches \in [Level -> [Node -> SUBSET Edge]] /\ graph_id \in Level
  /\ SFs \in Seq(SUBSET Edge) /\ todo \in Nat
  /\ before \in [Node -> SUBSET Edge]
  /\ start \in [Thread -> Nat] /\ end \in [Thread -> Nat] /\ pc \in [Thread -> Places]
  /\ mutex \in [Node -> Int]

-----------------------------------------------------------------------------
(* The bounds between the threads' ranges.  A bound is split if it is inside *)
(* a vertex's run; the threads at a split bound leave the run out of their   *)
(* last loop.                                                                *)
Pos == 0 .. Len(edges) - 1

BoundAt(b) == Bound(Len(edges), b, num_threads)

Split(b) == BoundAt(b) \in 1 .. Len(edges) - 1 /\ Src(BoundAt(b) - 1) = Src(BoundAt(b))

AboveLeft(t, i) == i >= BoundAt(t) /\ ~(Split(t) /\ Src(i) = Src(BoundAt(t)))

BelowRight(t, i) == i < BoundAt(t + 1) /\ ~(Split(t + 1) /\ Src(i) = Src(BoundAt(t + 1)))

ThreadInv(t) ==
  /\ pc[t] \in {"left", "up"} => start[t] = BoundAt(t)
  /\ pc[t] \in {"left", "up", "right", "down"} => end[t] = BoundAt(t + 1)
  /\ pc[t] = "up" => Split(t)
  /\ pc[t] = "down" => Split(t + 1)
  /\ pc[t] \in {"right", "down"} => \A i \in Pos : i >= start[t] <=> AboveLeft(t, i)
  /\ pc[t] \in {"middle", "done"} =>
       /\ end[t] <= Len(edges)
       /\ \A i \in Pos : i >= start[t] => AboveLeft(t, i)
       /\ \A i \in Pos : i < end[t] <=> BelowRight(t, i)
  /\ pc[t] = "done" => start[t] >= end[t]

MutexInv ==
  \A v \in Node, t \in Thread : mutex[v] = t =>
    \/ pc[t] = "up" /\ Split(t) /\ v = Src(BoundAt(t))
    \/ pc[t] = "down" /\ Split(t + 1) /\ v = Src(BoundAt(t + 1))

(* The bounds inside the run that position i is in, and those of them at     *)
(* which the thread on i's side has applied the run.                         *)
Bounds(i) == {b \in 1 .. num_threads - 1 : Split(b) /\ Src(BoundAt(b)) = Src(i)}

Crossed(i) ==
  {b \in Bounds(i) : IF i >= BoundAt(b) THEN pc[b] \notin {"left", "up"}
                     ELSE pc[b - 1] \in {"middle", "done"}}

InMiddle(t, i) ==
  pc[t] \in {"middle", "done"} /\ AboveLeft(t, i) /\ BelowRight(t, i) /\ i < start[t]

(* Position i has been applied an odd number of times.                       *)
Applied(i) ==
  IF Bounds(i) = {} THEN \E t \in Thread : InMiddle(t, i) ELSE Odd(Crossed(i))

EffectInv ==
  /\ \A i \in Pos : AtPosition(i) \in sketches[graph_id][Src(i)]
                      <=> ~(AtPosition(i) \in before[Src(i)] <=> Applied(i))
  /\ \A v \in Node, e \in Edge : e \notin Incident(SFs[todo], v) =>
       (e \in sketches[graph_id][v] <=> e \in before[v])

FilterInv ==
  /\ MutexInv
  /\ FilterPhase => EffectInv /\ \A t \in Thread : ThreadInv(t)

-----------------------------------------------------------------------------
(* Where the bounds of get_ith_partition lie.                                *)
LEMMA BoundUpTo ==
  ASSUME NEW l \in Nat, NEW b \in Nat, NEW d \in Nat \ {0}, NEW i \in Nat
  PROVE  Bound(l, b, d) \in Nat /\ (Bound(l, b, d) <= i <=> l * b <= d * i)
<1>1. PICK m \in Nat : m = l * b
  OBVIOUS
<1>2. PICK q \in Int : q = (m + d - 1) \div d
  OBVIOUS
<1>3. d * q <= m + d - 1 /\ m + d - 1 < d * q + d
  BY <1>2
<1>4. q >= 0
  <2>1. ASSUME q <= -1 PROVE FALSE
    <3>1. d * q <= -d
      BY <2>1
    <3> QED BY <1>3, <3>1
  <2> QED BY <2>1
<1>5. q <= i => m <= d * i
  <2>1. q <= i => d * q <= d * i
    BY <1>4
  <2> QED BY <1>3, <2>1
<1>6. i < q => d * i < m
  <2>1. i < q => d * i + d <= d * q
    BY <1>4
  <2> QED BY <1>3, <2>1
<1>7. Bound(l, b, d) = q
  BY <1>1, <1>2 DEF Bound
<1> QED BY <1>1, <1>4, <1>5, <1>6, <1>7

(* They rise from zero to the length.                                        *)
LEMMA BoundsRise ==
  ASSUME NEW l \in Nat, NEW d \in Nat \ {0}
  PROVE  /\ \A b \in Nat : Bound(l, b, d) \in Nat
         /\ \A b, c \in Nat : b <= c => Bound(l, b, d) <= Bound(l, c, d)
         /\ Bound(l, 0, d) = 0 /\ Bound(l, d, d) = l
         /\ l > 0 => \A b \in Nat : b > 0 => Bound(l, b, d) > 0
<1>1. \A b \in Nat : Bound(l, b, d) \in Nat
  BY BoundUpTo
<1>2. ASSUME NEW b \in Nat, NEW c \in Nat, b <= c PROVE Bound(l, b, d) <= Bound(l, c, d)
  <2>1. PICK j \in Nat : j = Bound(l, c, d)
    BY <1>1
  <2>2. l * c <= d * j
    BY <2>1, BoundUpTo
  <2>3. l * b <= l * c
    BY <1>2
  <2>4. l * b <= d * j
    BY <2>2, <2>3
  <2> QED BY <2>1, <2>4, BoundUpTo
<1>3. Bound(l, 0, d) = 0
  <2>1. Bound(l, 0, d) <= 0
    BY BoundUpTo
  <2> QED BY <1>1, <2>1
<1>4. Bound(l, d, d) = l
  <2>1. Bound(l, d, d) <= l
    BY BoundUpTo
  <2>2. l > 0 => ~(Bound(l, d, d) <= l - 1)
    <3>1. l > 0 => ~(l * d <= d * (l - 1))
      OBVIOUS
    <3> QED BY <3>1, BoundUpTo
  <2> QED BY <1>1, <2>1, <2>2
<1>5. ASSUME l > 0, NEW b \in Nat, b > 0 PROVE Bound(l, b, d) > 0
  <2>1. l * b > 0
    BY <1>5
  <2>2. ~(l * b <= d * 0)
    BY <2>1
  <2>3. ~(Bound(l, b, d) <= 0)
    BY <2>2, BoundUpTo
  <2> QED BY <1>1, <2>3
<1> QED BY <1>1, <1>2, <1>3, <1>4, <1>5

(* Every position is between two of them.                                    *)
LEMMA BoundsAround ==
  ASSUME NEW l \in Nat, NEW d \in Nat \ {0}, NEW i \in 0 .. l - 1
  PROVE  \E t \in 0 .. d - 1 : Bound(l, t, d) <= i /\ i < Bound(l, t + 1, d)
<1>1. PICK m \in Nat : m = d * i
  OBVIOUS
<1>2. PICK t \in Int : t = m \div l
  OBVIOUS
<1>3. l \in Nat \ {0} /\ l * t <= m /\ m < l * t + l
  BY <1>2
<1>4. t >= 0
  <2>1. ASSUME t <= -1 PROVE FALSE
    <3>1. l * t <= -l
      BY <2>1, <1>3
    <3> QED BY <1>3, <3>1
  <2> QED BY <2>1
<1>5. t < d
  <2>1. ASSUME t >= d PROVE FALSE
    <3>1. l * t >= l * d
      BY <2>1, <1>3
    <3>2. l * d > d * i
      OBVIOUS
    <3> QED BY <1>1, <1>3, <3>1, <3>2
  <2> QED BY <2>1
<1>6. l * (t + 1) = l * t + l
  BY <1>4
<1>7. t \in Nat /\ t + 1 \in Nat /\ t \in 0 .. d - 1 /\ i \in Nat
  BY <1>4, <1>5
<1>8. Bound(l, t, d) <= i
  BY <1>1, <1>3, <1>7, BoundUpTo
<1>9. ~(l * (t + 1) <= d * i)
  BY <1>1, <1>3, <1>6
<1>10. ~(Bound(l, t + 1, d) <= i) /\ Bound(l, t + 1, d) \in Nat
  BY <1>7, <1>9, BoundUpTo
<1> QED BY <1>7, <1>8, <1>10

-----------------------------------------------------------------------------
(* The facts about finite sets, and about the order of the natural numbers,  *)
(* that the proofs below need.  They are proved in MinCutProofs, from the    *)
(* library's theorems; the lemmas in between assume them, so that the        *)
(* provers do not carry the whole library from leaf to leaf.                 *)
EmptyFact ==
  /\ IsFiniteSet({}) /\ Cardinality({}) = 0
  /\ \A S : IsFiniteSet(S) => (Cardinality(S) = 0 <=> S = {})

IntervalFact == \A a, b \in Int :
  IsFiniteSet(a .. b) /\ Cardinality(a .. b) = IF a > b THEN 0 ELSE b - a + 1

CountFact == \A S : IsFiniteSet(S) => Cardinality(S) \in Nat

SubsetFact == \A S : IsFiniteSet(S) => \A T \in SUBSET S :
  /\ IsFiniteSet(T) /\ Cardinality(T) <= Cardinality(S)
  /\ Cardinality(S) = Cardinality(T) => S = T

AddFact == \A S, x : IsFiniteSet(S) =>
  /\ IsFiniteSet(S \cup {x})
  /\ Cardinality(S \cup {x}) = IF x \in S THEN Cardinality(S) ELSE Cardinality(S) + 1

DifferenceFact == \A S, T : IsFiniteSet(S) =>
  IsFiniteSet(S \ T) /\ Cardinality(S \ T) = Cardinality(S) - Cardinality(S \cap T)

ProductFact == \A S, T : IsFiniteSet(S) /\ IsFiniteSet(T) => IsFiniteSet(S \X T)

InjectionFact == \A S, T, f :
  (/\ IsFiniteSet(T) /\ f \in [S -> T]
   /\ \A x, y \in S : f[x] = f[y] => x = y)
  => /\ IsFiniteSet(S) /\ Cardinality(S) <= Cardinality(T)
     /\ Cardinality(S) = Cardinality(T) => \A y \in T : \E x \in S : f[x] = y

LeastFact == \A T \in SUBSET Nat : T # {} => \E x \in T : \A y \in T : x <= y

FiniteSetFacts ==
  /\ EmptyFact /\ IntervalFact /\ CountFact /\ SubsetFact /\ AddFact
  /\ DifferenceFact /\ ProductFact /\ InjectionFact /\ LeastFact

(* The empty set.                                                            *)
LEMMA FiniteEmpty ==
  ASSUME FiniteSetFacts
  PROVE  /\ IsFiniteSet({}) /\ Cardinality({}) = 0
         /\ \A S : IsFiniteSet(S) => (Cardinality(S) = 0 <=> S = {})
BY DEF FiniteSetFacts, EmptyFact

(* An interval.                                                              *)
LEMMA FiniteInterval ==
  ASSUME FiniteSetFacts, NEW a \in Int, NEW b \in Int
  PROVE  IsFiniteSet(a .. b) /\ Cardinality(a .. b) = IF a > b THEN 0 ELSE b - a + 1
BY DEF FiniteSetFacts, IntervalFact

(* The cardinality of a finite set is a number.                              *)
LEMMA FiniteCount ==
  ASSUME FiniteSetFacts, NEW S, IsFiniteSet(S)
  PROVE  Cardinality(S) \in Nat
BY DEF FiniteSetFacts, CountFact

(* A subset has fewer elements, or is the set.                               *)
LEMMA FiniteSubset ==
  ASSUME FiniteSetFacts, NEW S, IsFiniteSet(S), NEW T \in SUBSET S
  PROVE  /\ IsFiniteSet(T) /\ Cardinality(T) <= Cardinality(S)
         /\ Cardinality(S) = Cardinality(T) => S = T
BY DEF FiniteSetFacts, SubsetFact

(* One element more.                                                         *)
LEMMA FiniteAdd ==
  ASSUME FiniteSetFacts, NEW S, IsFiniteSet(S), NEW x
  PROVE  /\ IsFiniteSet(S \cup {x})
         /\ Cardinality(S \cup {x}) = IF x \in S THEN Cardinality(S) ELSE Cardinality(S) + 1
BY DEF FiniteSetFacts, AddFact

(* The elements of one set that are not in another.                          *)
LEMMA FiniteDifference ==
  ASSUME FiniteSetFacts, NEW S, IsFiniteSet(S), NEW T
  PROVE  IsFiniteSet(S \ T) /\ Cardinality(S \ T) = Cardinality(S) - Cardinality(S \cap T)
BY DEF FiniteSetFacts, DifferenceFact

(* Pairs.                                                                    *)
LEMMA FiniteProduct ==
  ASSUME FiniteSetFacts, NEW S, IsFiniteSet(S), NEW T, IsFiniteSet(T)
  PROVE  IsFiniteSet(S \X T)
BY DEF FiniteSetFacts, ProductFact

(* An injection into a set of the same size reaches every element of it.     *)
LEMMA FiniteInjection ==
  ASSUME FiniteSetFacts, NEW S, NEW T, IsFiniteSet(T), NEW f \in [S -> T],
         \A x, y \in S : f[x] = f[y] => x = y
  PROVE  /\ IsFiniteSet(S) /\ Cardinality(S) <= Cardinality(T)
         /\ Cardinality(S) = Cardinality(T) => \A y \in T : \E x \in S : f[x] = y
<1>1. InjectionFact
  BY DEF FiniteSetFacts
<1> QED BY <1>1 DEF InjectionFact

(* A nonempty set of natural numbers has a least element.                    *)
LEMMA LeastElement ==
  ASSUME FiniteSetFacts, NEW T \in SUBSET Nat, T # {}
  PROVE  \E x \in T : \A y \in T : x <= y
BY DEF FiniteSetFacts, LeastFact

-----------------------------------------------------------------------------
(* There are finitely many edges.                                            *)
LEMMA EdgesFinite ==
  ASSUME FiniteSetFacts
  PROVE  /\ IsFiniteSet(Node) /\ IsFiniteSet(Node \X Node)
         /\ \A E \in SUBSET Edge : IsFiniteSet(E) /\ Cardinality(E) \in Nat
<1>1. IsFiniteSet(Node)
  BY VertexAssumption, FiniteInterval DEF Node
<1>2. IsFiniteSet(Node \X Node)
  BY <1>1, FiniteProduct
<1>3. \A E \in SUBSET Edge : E \in SUBSET (Node \X Node)
  BY DEF Edge
<1> QED BY <1>1, <1>2, <1>3, FiniteSubset, FiniteCount

(* The order of the sorted adjacency is total.                               *)
LEMMA SmallerTotal ==
  /\ \A a \in Node \X Node : ~Smaller(a, a)
  /\ \A a, b \in Node \X Node : a # b => Smaller(a, b) \/ Smaller(b, a)
  /\ \A a, b, c \in Node \X Node : Smaller(a, b) /\ Smaller(b, c) => Smaller(a, c)
BY VertexAssumption DEF Smaller, Node

(* Place counts the elements of the adjacency without a gap.                 *)
LEMMA PlacesFill ==
  ASSUME FiniteSetFacts, NEW F \in SUBSET Edge
  PROVE  LET S == BothWays(F)
             n == Cardinality(S)
         IN  /\ S \in SUBSET (Node \X Node) /\ n \in Nat
             /\ \A b \in S : Place(F, b) \in 1 .. n
             /\ \A a, b \in S : Smaller(a, b) => Place(F, a) < Place(F, b)
             /\ \A i \in 1 .. n : \E b \in S : Place(F, b) = i
<1> DEFINE S == BothWays(F)
           n == Cardinality(S)
           below(b) == {a \in S : Smaller(a, b)}
<1>1. S \in SUBSET (Node \X Node)
  BY DEF BothWays, Edge
<1>2. IsFiniteSet(S) /\ n \in Nat
  BY <1>1, EdgesFinite, FiniteSubset, FiniteCount
<1> HIDE DEF S
<1>3. \A b \in S : IsFiniteSet(below(b)) /\ Cardinality(below(b)) \in Nat
  BY <1>2, FiniteSubset, FiniteCount
<1>4. ASSUME NEW b \in S PROVE Cardinality(below(b)) < n
  <2>1. below(b) \in SUBSET S /\ b \notin below(b)
    BY <1>1, SmallerTotal
  <2>2. Cardinality(below(b)) <= n /\ Cardinality(below(b)) # n
    BY <1>2, <2>1, FiniteSubset
  <2> QED BY <1>2, <1>3, <2>2
<1>5. ASSUME NEW a \in S, NEW b \in S, Smaller(a, b)
      PROVE  Cardinality(below(a)) < Cardinality(below(b))
  <2>1. below(a) \in SUBSET below(b) /\ a \in below(b) /\ a \notin below(a)
    BY <1>1, <1>5, SmallerTotal
  <2>2. Cardinality(below(a)) <= Cardinality(below(b)) /\ Cardinality(below(a)) # Cardinality(below(b))
    BY <1>3, <2>1, FiniteSubset
  <2> QED BY <1>3, <2>2
<1>6. \A b \in S : Place(F, b) = Cardinality(below(b)) + 1
  BY DEF Place, S
<1> HIDE DEF below
<1>7. \A b \in S : Place(F, b) \in 1 .. n
  BY <1>2, <1>3, <1>4, <1>6
<1>8. \A a, b \in S : Smaller(a, b) => Place(F, a) < Place(F, b)
  BY <1>3, <1>5, <1>6
<1> DEFINE f == [b \in S |-> Place(F, b)]
<1>9. f \in [S -> 1 .. n] /\ \A a, b \in S : f[a] = f[b] => a = b
  <2>1. f \in [S -> 1 .. n]
    BY <1>7
  <2>2. ASSUME NEW a \in S, NEW b \in S, a # b PROVE f[a] # f[b]
    <3>1. Smaller(a, b) \/ Smaller(b, a)
      BY <1>1, <2>2, SmallerTotal
    <3> QED BY <1>2, <1>7, <1>8, <3>1
  <2> QED BY <2>1, <2>2
<1>10. IsFiniteSet(1 .. n) /\ Cardinality(1 .. n) = n
  BY <1>2, FiniteInterval
<1> HIDE DEF f
<1>11. PICK T : T = 1 .. n
  OBVIOUS
<1>12. \A i \in 1 .. n : \E b \in S : f[b] = i
  <2>1. /\ IsFiniteSet(T) /\ f \in [S -> T] /\ Cardinality(S) = Cardinality(T)
        /\ \A a, b \in S : f[a] = f[b] => a = b
    BY <1>9, <1>10, <1>11
  <2> HIDE DEF n
  <2>2. \A i \in T : \E b \in S : f[b] = i
    BY <2>1, FiniteInjection
  <2> QED BY <1>11, <2>2
<1>13. \A i \in 1 .. n : \E b \in S : Place(F, b) = i
  BY <1>12 DEF f
<1> QED BY <1>1, <1>2, <1>7, <1>8, <1>13 DEF S

(* get_sorted_adjacency holds both directions of every edge, once, sorted.   *)
LEMMA SortedAdjacency ==
  ASSUME FiniteSetFacts, NEW F \in SUBSET Edge
  PROVE  LET A == get_sorted_adjacency(F)
         IN  /\ A \in Seq(Node \X Node) /\ Len(A) = Cardinality(BothWays(F))
             /\ \A i \in 1 .. Len(A) : A[i] \in BothWays(F)
             /\ \A b \in BothWays(F) : \E i \in 1 .. Len(A) : A[i] = b
             /\ \A i, j \in 1 .. Len(A) : i < j => Smaller(A[i], A[j])
<1> DEFINE A == get_sorted_adjacency(F)
           S == BothWays(F)
           n == Cardinality(S)
<1>1. /\ S \in SUBSET (Node \X Node) /\ n \in Nat
      /\ \A b \in S : Place(F, b) \in 1 .. n
      /\ \A a, b \in S : Smaller(a, b) => Place(F, a) < Place(F, b)
      /\ \A i \in 1 .. n : \E b \in S : Place(F, b) = i
  BY PlacesFill
<1>2. A = [i \in 1 .. n |-> CHOOSE b \in S : Place(F, b) = i]
  BY DEF get_sorted_adjacency
<1> HIDE DEF S, A
<1>3. \A i \in 1 .. n : A[i] \in S /\ Place(F, A[i]) = i
  BY <1>1, <1>2
<1>4. A \in [1 .. n -> Node \X Node]
  BY <1>1, <1>2, <1>3
<1>5. A \in Seq(Node \X Node) /\ Len(A) = n
  BY <1>1, <1>4
<1>6. \A a, b \in S : Place(F, a) = Place(F, b) => a = b
  <2>1. \A a, b \in S : a # b => Smaller(a, b) \/ Smaller(b, a)
    BY <1>1, SmallerTotal
  <2> QED BY <1>1, <2>1
<1>7. \A b \in S : \E i \in 1 .. n : A[i] = b
  BY <1>1, <1>3, <1>6
<1>8. ASSUME NEW i \in 1 .. n, NEW j \in 1 .. n, i < j PROVE Smaller(A[i], A[j])
  <2>1. A[i] # A[j] /\ ~Smaller(A[j], A[i])
    BY <1>1, <1>3, <1>8
  <2>2. A[i] \in Node \X Node /\ A[j] \in Node \X Node
    BY <1>4
  <2> QED BY <2>1, <2>2, SmallerTotal
<1> QED BY <1>3, <1>5, <1>7, <1>8 DEF S, A

-----------------------------------------------------------------------------
(* The positions of the adjacency of a forest.                               *)
LEMMA Positions ==
  ASSUME FiniteSetFacts, NEW F \in SUBSET Edge, edges = get_sorted_adjacency(F)
  PROVE  /\ Len(edges) \in Nat
         /\ \A i \in Pos : /\ Src(i) \in Node /\ AtPosition(i) \in Edge
                           /\ AtPosition(i) \in Incident(F, Src(i))
         /\ \A i, j \in Pos : i <= j => Src(i) <= Src(j)
         /\ \A i, j \in Pos : Src(i) = Src(j) /\ AtPosition(i) = AtPosition(j) => i = j
         /\ \A v \in Node : \A e \in Incident(F, v) :
              \E i \in Pos : Src(i) = v /\ AtPosition(i) = e
<1> DEFINE A == edges
           S == BothWays(F)
           norm(a) == IF a[1] < a[2] THEN a ELSE <<a[2], a[1]>>
<1>1. /\ A \in Seq(Node \X Node)
      /\ \A i \in 1 .. Len(A) : A[i] \in S
      /\ \A b \in S : \E i \in 1 .. Len(A) : A[i] = b
      /\ \A i, j \in 1 .. Len(A) : i < j => Smaller(A[i], A[j])
  BY SortedAdjacency
<1>2. Len(A) \in Nat
  BY <1>1
<1>3. \A i \in Pos : i + 1 \in 1 .. Len(A)
  BY <1>2 DEF Pos
<1>4. \A i \in 1 .. Len(A) : i - 1 \in Pos /\ (i - 1) + 1 = i
  BY <1>2 DEF Pos
<1>5. \A a \in S : a \in Node \X Node /\ a[1] # a[2] /\ norm(a) \in Incident(F, a[1]) /\ norm(a) \in Edge
  BY VertexAssumption DEF BothWays, Edge, Incident, Node
<1>6. \A a, b \in S : a[1] = b[1] /\ norm(a) = norm(b) => a = b
  BY <1>5, VertexAssumption DEF Node
<1>7. \A v \in Node : \A e \in Incident(F, v) : \E a \in S : a[1] = v /\ norm(a) = e
  <2> TAKE v \in Node
  <2> TAKE e \in Incident(F, v)
  <2>1. e \in S /\ <<e[2], e[1]>> \in S
    BY DEF BothWays, Incident
  <2>2. e \in Node \X Node /\ e[1] < e[2] /\ (v = e[1] \/ v = e[2])
    BY DEF Edge, Incident
  <2>3. norm(e) = e /\ norm(<<e[2], e[1]>>) = e
    BY <2>2, VertexAssumption DEF Node
  <2> QED BY <2>1, <2>2, <2>3
<1>8. \A i \in Pos : Src(i) = A[i + 1][1] /\ AtPosition(i) = norm(A[i + 1])
  BY DEF Src, AtPosition
<1> HIDE DEF A, S, norm
<1>9. \A i \in Pos : /\ Src(i) \in Node /\ AtPosition(i) \in Edge
                     /\ AtPosition(i) \in Incident(F, Src(i))
  BY <1>1, <1>3, <1>5, <1>8
<1>10. ASSUME NEW i \in Pos, NEW j \in Pos, i <= j PROVE Src(i) <= Src(j)
  <2>1. CASE i = j
    BY <2>1, <1>9, VertexAssumption DEF Node
  <2>2. CASE i < j
    <3>1. Smaller(A[i + 1], A[j + 1])
      BY <1>1, <1>3, <2>2 DEF Pos
    <3>2. A[i + 1][1] <= A[j + 1][1]
      BY <1>8, <1>9, <3>1, VertexAssumption DEF Smaller, Node
    <3> QED BY <1>8, <3>2
  <2> QED BY <1>10, <2>1, <2>2 DEF Pos
<1>11. ASSUME NEW i \in Pos, NEW j \in Pos, Src(i) = Src(j), AtPosition(i) = AtPosition(j)
       PROVE  i = j
  <2>1. A[i + 1] = A[j + 1] /\ A[i + 1] \in S
    BY <1>1, <1>3, <1>6, <1>8, <1>11
  <2>2. ~Smaller(A[i + 1], A[j + 1]) /\ ~Smaller(A[j + 1], A[i + 1])
    BY <1>5, <2>1, SmallerTotal
  <2> QED BY <1>1, <1>3, <2>2 DEF Pos
<1>12. ASSUME NEW v \in Node, NEW e \in Incident(F, v)
       PROVE  \E i \in Pos : Src(i) = v /\ AtPosition(i) = e
  <2>1. PICK a \in S : a[1] = v /\ norm(a) = e
    BY <1>7
  <2>2. PICK i \in 1 .. Len(A) : A[i] = a
    BY <1>1
  <2> QED BY <1>4, <1>8, <2>1, <2>2
<1> QED BY <1>2, <1>9, <1>10, <1>11, <1>12 DEF A

(* The positions of a vertex are contiguous.                                 *)
LEMMA Contiguous ==
  ASSUME FiniteSetFacts, NEW F \in SUBSET Edge, edges = get_sorted_adjacency(F),
         NEW i \in Pos, NEW j \in Pos, NEW l \in Pos, i <= j, j <= l, Src(i) = Src(l)
  PROVE  Src(j) = Src(i)
<1>1. Src(i) <= Src(j) /\ Src(j) <= Src(l) /\ Src(i) \in Node /\ Src(j) \in Node
  BY Positions
<1> QED BY <1>1, VertexAssumption DEF Node

(* The bounds of the threads rise from zero to the length.                   *)
LEMMA ThreadBounds ==
  ASSUME Len(edges) \in Nat, num_threads \in Nat \ {0}
  PROVE  /\ \A b \in Nat : BoundAt(b) \in Nat
         /\ \A b, c \in Nat : b <= c => BoundAt(b) <= BoundAt(c)
         /\ BoundAt(0) = 0 /\ BoundAt(num_threads) = Len(edges)
         /\ \A b \in Nat : Split(b) => b # 0 /\ b # num_threads
         /\ \A b \in Nat : BoundAt(b) < Len(edges) /\ b > 0 => BoundAt(b) > 0
<1>1. /\ \A b \in Nat : BoundAt(b) \in Nat
      /\ \A b, c \in Nat : b <= c => BoundAt(b) <= BoundAt(c)
      /\ BoundAt(0) = 0 /\ BoundAt(num_threads) = Len(edges)
      /\ Len(edges) > 0 => \A b \in Nat : b > 0 => BoundAt(b) > 0
  BY BoundsRise DEF BoundAt
<1>2. \A b \in Nat : Split(b) => BoundAt(b) \in 1 .. Len(edges) - 1
  BY DEF Split
<1>3. ASSUME NEW b \in Nat, Split(b) PROVE b # 0 /\ b # num_threads
  <2>1. BoundAt(b) \in 1 .. Len(edges) - 1
    BY <1>2, <1>3
  <2>2. BoundAt(0) = 0 /\ BoundAt(num_threads) = Len(edges)
    BY <1>1
  <2>3. BoundAt(b) # BoundAt(0) /\ BoundAt(b) # BoundAt(num_threads)
    BY <2>1, <2>2
  <2> QED BY <2>3
<1>4. \A b \in Nat : BoundAt(b) < Len(edges) /\ b > 0 => BoundAt(b) > 0
  BY <1>1
<1> QED BY <1>1, <1>3, <1>4

(* The positions of a vertex's run above a bound inside it.                   *)
LEMMA RunAbove ==
  ASSUME FiniteSetFacts, NEW F \in SUBSET Edge, edges = get_sorted_adjacency(F),
         NEW m \in 1 .. Len(edges) - 1, NEW v, v = Src(m)
  PROVE  LET up == {i \in Run(v) : i >= m}
         IN  /\ Cardinality(up) \in Nat /\ m + Cardinality(up) <= Len(edges)
             /\ \A i \in Pos : i \in up <=> m <= i /\ i < m + Cardinality(up)
<1> DEFINE up == {i \in Run(v) : i >= m}
           over == {i \in Nat : i >= m /\ (i < Len(edges) => Src(i) # v)}
<1>1. Len(edges) \in Nat /\ m \in Pos /\ m \in Nat
  BY Positions DEF Pos
<1>2. Len(edges) \in over
  BY <1>1 DEF Pos
<1>3. PICK h \in over : \A y \in over : h <= y
  BY <1>2, LeastElement
<1>4. h \in Nat /\ h >= m /\ h <= Len(edges) /\ (h < Len(edges) => Src(h) # v)
  BY <1>2, <1>3
<1>5. \A i \in Pos : m <= i /\ i < h => Src(i) = v
  BY <1>1, <1>3, <1>4 DEF Pos
<1>6. ASSUME NEW i \in Pos, i >= h PROVE Src(i) # v
  <2>1. h \in Pos /\ h < Len(edges)
    BY <1>1, <1>4, <1>6 DEF Pos
  <2>2. Src(i) = v => Src(h) = v
    BY <1>1, <1>4, <1>6, <2>1, Contiguous
  <2> QED BY <1>4, <2>1, <2>2
<1>7. up = m .. h - 1
  <2>1. \A i \in up : i \in m .. h - 1
    BY <1>1, <1>4, <1>6 DEF Run, Pos
  <2>2. \A i \in m .. h - 1 : i \in up
    BY <1>1, <1>4, <1>5 DEF Run, Pos
  <2> QED BY <2>1, <2>2
<1>8. Cardinality(up) = h - m
  <2>1. m \in Int /\ h - 1 \in Int
    BY <1>1, <1>4
  <2>2. Cardinality(m .. h - 1) = IF m > h - 1 THEN 0 ELSE (h - 1) - m + 1
    BY <2>1, FiniteInterval
  <2>3. Cardinality(m .. h - 1) = h - m
    BY <1>1, <1>4, <2>2
  <2> QED BY <1>7, <2>3
<1>9. \A i \in Pos : i \in up <=> m <= i /\ i < m + (h - m)
  BY <1>1, <1>4, <1>7 DEF Pos
<1> HIDE DEF up
<1>10. /\ Cardinality(up) \in Nat /\ m + Cardinality(up) <= Len(edges)
       /\ \A i \in Pos : i \in up <=> m <= i /\ i < m + Cardinality(up)
  BY <1>1, <1>4, <1>8, <1>9
<1> QED BY <1>10 DEF up

(* The positions of the run below a bound inside it.                         *)
LEMMA RunBelow ==
  ASSUME FiniteSetFacts, NEW F \in SUBSET Edge, edges = get_sorted_adjacency(F),
         NEW m \in 1 .. Len(edges) - 1, NEW v, v = Src(m), Src(m - 1) = v
  PROVE  LET down == {i \in Run(v) : i < m}
         IN  /\ Cardinality(down) \in Nat /\ m - Cardinality(down) \in Nat
             /\ \A i \in Pos : i \in down <=> m - Cardinality(down) <= i /\ i < m
<1> DEFINE down == {i \in Run(v) : i < m}
<1>1. Len(edges) \in Nat /\ m \in Pos /\ m \in Nat /\ m - 1 \in Pos /\ Run(v) \in SUBSET Nat
  BY Positions DEF Pos, Run
<1>2. m - 1 \in Run(v)
  BY <1>1 DEF Pos, Run
<1>3. PICK h \in Run(v) : \A y \in Run(v) : h <= y
  BY <1>1, <1>2, LeastElement
<1>4. h \in Nat /\ h \in Pos /\ h <= m - 1 /\ Src(h) = v
  BY <1>1, <1>2, <1>3 DEF Run, Pos
<1>5. \A i \in Pos : h <= i /\ i < m => Src(i) = v
  <2>1. \A i \in Pos : i < m => i <= m
    BY <1>1 DEF Pos
  <2> QED BY <1>1, <1>4, <2>1, Contiguous
<1>6. down = h .. m - 1
  <2>1. \A i \in down : i \in h .. m - 1
    BY <1>1, <1>3, <1>4
  <2>2. \A i \in h .. m - 1 : i \in down
    BY <1>1, <1>4, <1>5 DEF Run, Pos
  <2> QED BY <2>1, <2>2
<1>7. Cardinality(down) = m - h
  <2>1. h \in Int /\ m - 1 \in Int
    BY <1>1, <1>4
  <2>2. Cardinality(h .. m - 1) = IF h > m - 1 THEN 0 ELSE (m - 1) - h + 1
    BY <2>1, FiniteInterval
  <2>3. Cardinality(h .. m - 1) = m - h
    BY <1>1, <1>4, <2>2
  <2> QED BY <1>6, <2>3
<1>8. \A i \in Pos : i \in down <=> m - (m - h) <= i /\ i < m
  BY <1>1, <1>4, <1>6 DEF Pos
<1> HIDE DEF down
<1>9. /\ Cardinality(down) \in Nat /\ m - Cardinality(down) \in Nat
      /\ \A i \in Pos : i \in down <=> m - Cardinality(down) <= i /\ i < m
  BY <1>1, <1>4, <1>7, <1>8
<1> QED BY <1>9 DEF down

(* A position that is left to a thread's last loop: the whole run is within  *)
(* the thread's range, with no bound inside it.                              *)
LEMMA MiddleRun ==
  ASSUME FiniteSetFacts,
         NEW F \in SUBSET Edge, edges = get_sorted_adjacency(F), num_threads \in Nat \ {0},
         NEW t \in Thread, NEW i \in Pos, AboveLeft(t, i), BelowRight(t, i)
  PROVE  /\ \A j \in Pos : Src(j) = Src(i) => BoundAt(t) <= j /\ j < BoundAt(t + 1)
         /\ \A b \in Nat : ~(Split(b) /\ Src(BoundAt(b)) = Src(i))
         /\ Bounds(i) = {}
<1>0. Len(edges) \in Nat
  BY Positions
<1>1. /\ t \in Nat /\ t + 1 \in Nat
      /\ \A b \in Nat : BoundAt(b) \in Nat
      /\ \A b, c \in Nat : b <= c => BoundAt(b) <= BoundAt(c)
  BY <1>0, ThreadBounds DEF Thread
<1>2. PICK lo \in Nat : lo = BoundAt(t)
  BY <1>1
<1>3. PICK hi \in Nat : hi = BoundAt(t + 1)
  BY <1>1
<1>4. i >= lo /\ i < hi
  BY <1>2, <1>3 DEF AboveLeft, BelowRight
<1>5. ASSUME NEW j \in Pos, Src(j) = Src(i) PROVE lo <= j /\ j < hi
  <2>1. ASSUME j < lo PROVE FALSE
    <3>1. lo \in Pos /\ lo - 1 \in Pos /\ lo \in 1 .. Len(edges) - 1
      BY <1>0, <1>4, <2>1 DEF Pos
    <3>2. Src(lo) = Src(i) /\ Src(lo - 1) = Src(i)
      <4>1. j <= lo /\ lo <= i /\ j <= lo - 1 /\ lo - 1 <= i
        BY <1>4, <2>1, <3>1 DEF Pos
      <4> QED BY <1>5, <3>1, <4>1, Contiguous
    <3> QED BY <1>2, <3>1, <3>2 DEF AboveLeft, Split
  <2>2. ASSUME j >= hi PROVE FALSE
    <3>1. hi \in Pos /\ hi - 1 \in Pos /\ hi \in 1 .. Len(edges) - 1
      BY <1>0, <1>4, <2>2 DEF Pos
    <3>2. Src(hi) = Src(i) /\ Src(hi - 1) = Src(i)
      <4>1. i <= hi /\ hi <= j /\ i <= hi - 1 /\ hi - 1 <= j
        BY <1>4, <2>2, <3>1 DEF Pos
      <4> QED BY <1>5, <3>1, <4>1, Contiguous
    <3> QED BY <1>3, <3>1, <3>2 DEF BelowRight, Split
  <2> QED BY <2>1, <2>2 DEF Pos
<1>6. ASSUME NEW b \in Nat, Split(b), Src(BoundAt(b)) = Src(i) PROVE FALSE
  <2>1. PICK m \in Nat : m = BoundAt(b)
    BY <1>1
  <2>2. m \in Pos /\ m - 1 \in Pos /\ Src(m) = Src(i) /\ Src(m - 1) = Src(i)
    BY <1>0, <1>6, <2>1 DEF Split, Pos
  <2>3. lo <= m - 1 /\ m < hi
    BY <1>5, <2>2
  <2>4. ~(b <= t) /\ ~(t + 1 <= b)
    <3>1. b <= t => m <= lo
      BY <1>1, <1>2, <2>1
    <3>2. t + 1 <= b => hi <= m
      BY <1>1, <1>3, <2>1
    <3> QED BY <2>3, <3>1, <3>2
  <2> QED BY <1>1, <2>4
<1>7. Bounds(i) = {}
  <2>1. \A b \in 1 .. num_threads - 1 : b \in Nat
    OBVIOUS
  <2> QED BY <1>6, <2>1 DEF Bounds
<1> QED BY <1>2, <1>3, <1>5, <1>6, <1>7

-----------------------------------------------------------------------------
(* One element more changes the parity.                                      *)
LEMMA OddAdds ==
  ASSUME FiniteSetFacts, NEW S, IsFiniteSet(S), NEW x, x \notin S
  PROVE  Odd(S \cup {x}) <=> ~Odd(S)
<1>1. Cardinality(S) \in Nat /\ Cardinality(S \cup {x}) = Cardinality(S) + 1
  BY FiniteCount, FiniteAdd
<1>2. \A n \in Nat : (n + 1) % 2 = 1 <=> ~(n % 2 = 1)
  OBVIOUS
<1> QED BY <1>1, <1>2 DEF Odd

(* No element is an even number of elements.                                 *)
LEMMA OddEmpty ==
  ASSUME FiniteSetFacts
  PROVE  ~Odd({})
BY FiniteEmpty DEF Odd

(* The adjacency and its bounds do not change while the threads run.         *)
LEMMA SamePositions ==
  ASSUME edges' = edges, num_threads' = num_threads
  PROVE  /\ Pos' = Pos /\ Thread' = Thread
         /\ \A b : BoundAt(b)' = BoundAt(b) /\ (Split(b)' <=> Split(b)) /\ Src(b)' = Src(b)
         /\ \A b : AtPosition(b)' = AtPosition(b) /\ Bounds(b)' = Bounds(b)
         /\ \A t, i : /\ AboveLeft(t, i)' <=> AboveLeft(t, i)
                      /\ BelowRight(t, i)' <=> BelowRight(t, i)
<1>1. /\ Pos' = Pos /\ Thread' = Thread
      /\ \A b : BoundAt(b)' = BoundAt(b) /\ Src(b)' = Src(b) /\ AtPosition(b)' = AtPosition(b)
  BY DEF Pos, Thread, BoundAt, Src, AtPosition
<1>2. \A b : Split(b)' <=> Split(b)
  BY <1>1 DEF Split
<1>3. \A b : Bounds(b)' = Bounds(b)
  BY <1>1, <1>2 DEF Bounds
<1>4. \A t, i : AboveLeft(t, i)' <=> AboveLeft(t, i)
  BY <1>1, <1>2 DEF AboveLeft
<1>5. \A t, i : BelowRight(t, i)' <=> BelowRight(t, i)
  BY <1>1, <1>2 DEF BelowRight
<1> QED BY <1>1, <1>2, <1>3, <1>4, <1>5

(* A thread that does not move.                                              *)
LEMMA ThreadStays ==
  ASSUME edges' = edges, num_threads' = num_threads, NEW u, ThreadInv(u),
         start'[u] = start[u], end'[u] = end[u], pc'[u] = pc[u]
  PROVE  ThreadInv(u)'
<1>1. /\ Pos' = Pos
      /\ \A b : BoundAt(b)' = BoundAt(b) /\ (Split(b)' <=> Split(b))
      /\ \A t, i : /\ AboveLeft(t, i)' <=> AboveLeft(t, i)
                   /\ BelowRight(t, i)' <=> BelowRight(t, i)
  BY SamePositions
<1> QED BY <1>1 DEF ThreadInv

(* A thread that passes neither the point where it has applied the run at    *)
(* its lower bound nor the one where it has applied the run at its upper one. *)
LEMMA AppliedStays ==
  ASSUME edges' = edges, num_threads' = num_threads, num_threads \in Nat \ {0},
         Len(edges) \in Nat, NEW t \in Thread, NEW x, pc \in [Thread -> Places], pc' = [pc EXCEPT ![t] = x],
         start' = start,
         (pc[t] \in {"left", "up"} <=> x \in {"left", "up"}) \/ ~Split(t),
         \/ pc[t] \in {"middle", "done"} <=> x \in {"middle", "done"}
         \/ /\ pc[t] \notin {"middle", "done"} /\ ~Split(t + 1)
            /\ \A i \in Pos : i >= start[t] <=> AboveLeft(t, i),
         start \in [Thread -> Nat]
  PROVE  \A i \in Pos : Applied(i)' <=> Applied(i)
<1>1. /\ Pos' = Pos /\ Thread' = Thread
      /\ \A b : BoundAt(b)' = BoundAt(b) /\ (Split(b)' <=> Split(b))
      /\ \A b : Bounds(b)' = Bounds(b)
      /\ \A u, i : /\ AboveLeft(u, i)' <=> AboveLeft(u, i)
                   /\ BelowRight(u, i)' <=> BelowRight(u, i)
  BY SamePositions
<1>2. \A u \in Thread : pc'[u] = IF u = t THEN x ELSE pc[u]
  OBVIOUS
<1> TAKE i \in Pos
<1>3. \A b \in Bounds(i) : b \in Thread /\ b - 1 \in Thread /\ Split(b) /\ (b - 1 = t => b = t + 1)
  BY DEF Bounds, Thread
<1>4. \A b \in Bounds(i) : pc'[b] \in {"left", "up"} <=> pc[b] \in {"left", "up"}
  BY <1>2, <1>3
<1>5. \A b \in Bounds(i) : pc'[b - 1] \in {"middle", "done"} <=> pc[b - 1] \in {"middle", "done"}
  BY <1>2, <1>3
<1>6. Crossed(i)' = Crossed(i)
  BY <1>1, <1>4, <1>5 DEF Crossed
<1>7. ASSUME NEW u \in Thread PROVE InMiddle(u, i)' <=> InMiddle(u, i)
  <2>0. start[u] \in Nat
    OBVIOUS
  <2>1. i \in Int /\ start[u] \in Int
    BY <2>0 DEF Pos
  <2>2. CASE u = t
    BY <1>1, <1>2, <2>1, <2>2 DEF InMiddle
  <2>3. CASE u # t
    BY <1>1, <1>2, <2>3 DEF InMiddle
  <2> QED BY <2>2, <2>3
<1> QED BY <1>1, <1>6, <1>7 DEF Applied, Odd

(* An update of a vertex's sketch with positions of its run.                 *)
LEMMA UpdateEffect ==
  ASSUME FiniteSetFacts,
         FilterTypes, NEW F \in SUBSET Edge, F = SFs[todo], edges = get_sorted_adjacency(F),
         EffectInv, NEW v \in Node, NEW P \in SUBSET Run(v), Update(v, P, {}),
         UNCHANGED <<edges, num_threads, graph_id, before, SFs, todo>>,
         \A i \in Pos : Applied(i)' <=> ~(Applied(i) <=> i \in P)
  PROVE  /\ EffectInv' /\ sketches' \in [Level -> [Node -> SUBSET Edge]]
         /\ \A g \in Level : g # graph_id => sketches'[g] = sketches[g]
<1> DEFINE T == {AtPosition(i) : i \in P}
<1>1. /\ \A i \in Pos : /\ Src(i) \in Node /\ AtPosition(i) \in Edge
                        /\ AtPosition(i) \in Incident(F, Src(i))
      /\ \A i, j \in Pos : Src(i) = Src(j) /\ AtPosition(i) = AtPosition(j) => i = j
  BY Positions
<1>2. /\ Pos' = Pos
      /\ \A b : Src(b)' = Src(b) /\ AtPosition(b)' = AtPosition(b)
  BY SamePositions
<1>3. P \in SUBSET Pos /\ \A i \in P : Src(i) = v
  BY DEF Run, Pos
<1>4. T \in SUBSET Edge /\ T \in SUBSET Incident(F, v)
  BY <1>1, <1>3
<1>5. \A i \in Pos : Src(i) = v => (AtPosition(i) \in T <=> i \in P)
  BY <1>1, <1>3
<1> HIDE DEF T
<1>6. sketches' = [sketches EXCEPT ![graph_id][v] = Toggle(Toggle(@, T), {})]
  BY DEF Update, T
<1>7. graph_id \in Level /\ sketches \in [Level -> [Node -> SUBSET Edge]]
  BY DEF FilterTypes
<1>8. /\ sketches' \in [Level -> [Node -> SUBSET Edge]]
      /\ \A g \in Level : g # graph_id => sketches'[g] = sketches[g]
      /\ \A w \in Node : w # v => sketches'[graph_id][w] = sketches[graph_id][w]
      /\ sketches'[graph_id][v] = Toggle(Toggle(sketches[graph_id][v], T), {})
  BY <1>4, <1>6, <1>7 DEF Toggle
<1>9. \A e : e \in sketches'[graph_id][v] <=> ~(e \in sketches[graph_id][v] <=> e \in T)
  BY <1>8 DEF Toggle
<1>10. ASSUME NEW i \in Pos
       PROVE  AtPosition(i) \in sketches'[graph_id][Src(i)]
                <=> ~(AtPosition(i) \in before[Src(i)] <=> Applied(i)')
  <2>1. AtPosition(i) \in sketches[graph_id][Src(i)]
          <=> ~(AtPosition(i) \in before[Src(i)] <=> Applied(i))
    BY DEF EffectInv
  <2>2. CASE Src(i) = v
    <3>1. AtPosition(i) \in sketches'[graph_id][v]
            <=> ~(AtPosition(i) \in sketches[graph_id][v] <=> i \in P)
      BY <1>5, <1>9, <2>2
    <3> QED BY <2>1, <2>2, <3>1
  <2>3. CASE Src(i) # v
    <3>1. i \notin P /\ sketches'[graph_id][Src(i)] = sketches[graph_id][Src(i)]
      BY <1>1, <1>3, <1>8, <2>3
    <3> QED BY <2>1, <3>1
  <2> QED BY <2>2, <2>3
<1>11. ASSUME NEW w \in Node, NEW e \in Edge, e \notin Incident(F, w)
       PROVE  e \in sketches'[graph_id][w] <=> e \in before[w]
  <2>1. e \in sketches[graph_id][w] <=> e \in before[w]
    BY <1>11 DEF EffectInv
  <2> QED BY <1>4, <1>8, <1>9, <1>11, <2>1
<1>12. EffectInv'
  BY <1>2, <1>10, <1>11 DEF EffectInv
<1> QED BY <1>8, <1>12

-----------------------------------------------------------------------------
(* The threads of filter_sf_edges, one step at a time.                       *)
Running ==
  /\ FilterTypes /\ FilterInv /\ FilterPhase
  /\ todo \in DOMAIN SFs /\ edges = get_sorted_adjacency(SFs[todo])

Moved ==
  /\ MutexInv' /\ EffectInv' /\ \A u \in Thread : ThreadInv(u)'
  /\ sketches' \in [Level -> [Node -> SUBSET Edge]]
  /\ \A g \in Level : g # graph_id => sketches'[g] = sketches[g]
  /\ start' \in [Thread -> Nat] /\ end' \in [Thread -> Nat] /\ pc' \in [Thread -> Places]
  /\ mutex' \in [Node -> Int] /\ phase' = phase

(* What is known of the bounds of a thread in filter_sf_edges.               *)
LEMMA RunningFacts ==
  ASSUME FiniteSetFacts, Running, NEW t \in Thread
  PROVE  /\ SFs[todo] \in SUBSET Edge /\ edges = get_sorted_adjacency(SFs[todo])
         /\ Len(edges) \in Nat /\ num_threads \in Nat \ {0}
         /\ t \in Nat /\ t + 1 \in Nat /\ t < num_threads
         /\ BoundAt(t) \in Nat /\ BoundAt(t + 1) \in Nat
         /\ BoundAt(t) <= BoundAt(t + 1) /\ BoundAt(t + 1) <= Len(edges)
         /\ Split(t) => t \in 1 .. num_threads - 1 /\ BoundAt(t) \in 1 .. Len(edges) - 1
         /\ Split(t + 1) => /\ t + 1 \in 1 .. num_threads - 1
                            /\ BoundAt(t + 1) \in 1 .. Len(edges) - 1
<1>1. SFs[todo] \in SUBSET Edge /\ edges = get_sorted_adjacency(SFs[todo])
  BY DEF Running, FilterTypes
<1>2. Len(edges) \in Nat
  BY <1>1, Positions
<1>3. num_threads \in Nat \ {0}
  BY DEF Running, FilterTypes
<1>4. t \in Nat /\ t + 1 \in Nat /\ t < num_threads /\ t <= t + 1 /\ t + 1 <= num_threads
  BY <1>3 DEF Thread
<1>5. /\ \A b \in Nat : BoundAt(b) \in Nat
      /\ \A b, c \in Nat : b <= c => BoundAt(b) <= BoundAt(c)
      /\ BoundAt(num_threads) = Len(edges)
      /\ \A b \in Nat : Split(b) => b # 0 /\ b # num_threads
  BY <1>2, <1>3, ThreadBounds
<1>6. BoundAt(t) <= BoundAt(t + 1) /\ BoundAt(t + 1) <= Len(edges)
  BY <1>3, <1>4, <1>5
<1>7. Split(t) => t \in 1 .. num_threads - 1 /\ BoundAt(t) \in 1 .. Len(edges) - 1
  <2>1. Split(t) => BoundAt(t) \in 1 .. Len(edges) - 1
    BY DEF Split
  <2> QED BY <1>3, <1>4, <1>5, <2>1
<1>8. Split(t + 1) => /\ t + 1 \in 1 .. num_threads - 1
                      /\ BoundAt(t + 1) \in 1 .. Len(edges) - 1
  <2>1. Split(t + 1) => BoundAt(t + 1) \in 1 .. Len(edges) - 1
    BY DEF Split
  <2>2. Split(t + 1) => t + 1 # num_threads
    BY <1>4, <1>5
  <2> QED BY <1>3, <1>4, <2>1, <2>2
<1> QED BY <1>1, <1>2, <1>3, <1>4, <1>5, <1>6, <1>7, <1>8

(* A step that leaves the sketches alone.                                    *)
LEMMA QuietMove ==
  ASSUME Running, NEW t \in Thread, NEW x \in Places, Goto(t, x), mutex' \in [Node -> Int],
         UNCHANGED <<sketches, start, end, phase, filterRest>>,
         \A i \in Pos : Applied(i)' <=> Applied(i), MutexInv', ThreadInv(t)'
  PROVE  Moved
<1>1. /\ UNCHANGED <<edges, num_threads, graph_id, before, SFs, todo, start, end, sketches>>
      /\ phase' = phase
  BY DEF filterRest
<1>2. pc \in [Thread -> Places] /\ pc' = [pc EXCEPT ![t] = x]
  BY DEF Running, FilterTypes, Goto
<1>3. pc' \in [Thread -> Places] /\ \A u \in Thread : u # t => pc'[u] = pc[u]
  BY <1>2
<1>4. \A u \in Thread : ThreadInv(u)'
  <2> TAKE u \in Thread
  <2>1. ThreadInv(u)
    BY DEF Running, FilterInv
  <2> QED BY <1>1, <1>3, <2>1, ThreadStays
<1>5. EffectInv'
  <2>1. /\ Pos' = Pos
        /\ \A b : Src(b)' = Src(b) /\ AtPosition(b)' = AtPosition(b)
    BY <1>1, SamePositions
  <2>2. EffectInv
    BY DEF Running, FilterInv
  <2> QED BY <1>1, <2>1, <2>2 DEF EffectInv
<1> QED BY <1>1, <1>3, <1>4, <1>5 DEF Moved, Running, FilterTypes

(* The test for a vertex shared with the previous thread.                    *)
LEMMA TestLeftMoves ==
  ASSUME FiniteSetFacts, Running, NEW t \in Thread, TestLeft(t), ~outside'
  PROVE  Moved
<1> DEFINE i == start[t]
<1>1. /\ Len(edges) \in Nat /\ num_threads \in Nat \ {0}
      /\ t \in Nat /\ BoundAt(t) \in Nat
      /\ BoundAt(t) <= BoundAt(t + 1) /\ BoundAt(t + 1) <= Len(edges)
      /\ BoundAt(t + 1) \in Nat
  BY RunningFacts
<1>2. pc[t] = "left" /\ ThreadInv(t) /\ pc \in [Thread -> Places] /\ start \in [Thread -> Nat]
  BY DEF TestLeft, Running, FilterInv, FilterTypes
<1>3. i = BoundAt(t) /\ end[t] = BoundAt(t + 1)
  BY <1>2 DEF ThreadInv
<1>4. ~(i > 0 /\ i = Len(edges))
  BY DEF TestLeft
<1>5. UNCHANGED <<sketches, start, end, phase, filterRest>> /\ edges' = edges /\ num_threads' = num_threads
  BY DEF TestLeft, filterRest
<1>6. /\ Pos' = Pos /\ Thread' = Thread
      /\ \A b : BoundAt(b)' = BoundAt(b) /\ (Split(b)' <=> Split(b)) /\ Src(b)' = Src(b)
      /\ \A u, j : AboveLeft(u, j)' <=> AboveLeft(u, j)
  BY <1>5, SamePositions
<1>7. (i > 0 /\ Src(i) = Src(i - 1)) <=> Split(t)
  <2>1. i > 0 <=> i \in 1 .. Len(edges) - 1
    BY <1>1, <1>3, <1>4
  <2> QED BY <1>3, <2>1 DEF Split
<1>8. MutexInv /\ mutex \in [Node -> Int] /\ t \in Int
  BY <1>1 DEF Running, FilterInv, FilterTypes
<1>9. CASE Split(t)
  <2>1. /\ mutex[Src(i - 1)] = NoOne /\ mutex' = [mutex EXCEPT ![Src(i - 1)] = t]
        /\ Goto(t, "up")
    BY <1>4, <1>7, <1>9 DEF TestLeft
  <2>2. pc' = [pc EXCEPT ![t] = "up"] /\ pc'[t] = "up" /\ \A u \in Thread : u # t => pc'[u] = pc[u]
    BY <1>2, <2>1 DEF Goto
  <2>3. mutex' \in [Node -> Int]
    BY <1>8, <2>1
  <2>4. \A j \in Pos : Applied(j)' <=> Applied(j)
    BY <1>1, <1>2, <1>5, <2>2, AppliedStays
  <2>5. ThreadInv(t)'
    BY <1>3, <1>5, <1>6, <1>9, <2>2 DEF ThreadInv
  <2>6. Src(i - 1) = Src(BoundAt(t))
    BY <1>3, <1>9 DEF Split
  <2>7. MutexInv'
    <3> SUFFICES ASSUME NEW w \in Node, NEW u \in Thread, mutex'[w] = u
                 PROVE  \/ pc'[u] = "up" /\ Split(u) /\ w = Src(BoundAt(u))
                        \/ pc'[u] = "down" /\ Split(u + 1) /\ w = Src(BoundAt(u + 1))
      BY <1>6 DEF MutexInv
    <3>1. CASE w = Src(i - 1)
      <4>1. u = t
        BY <1>8, <2>1, <3>1
      <4> QED BY <1>9, <2>2, <2>6, <3>1, <4>1
    <3>2. CASE w # Src(i - 1)
      <4>1. mutex[w] = u
        BY <1>8, <2>1, <3>2
      <4>2. u # t
        BY <1>2, <1>8, <4>1 DEF MutexInv
      <4> QED BY <1>8, <2>2, <4>1, <4>2 DEF MutexInv
    <3> QED BY <3>1, <3>2
  <2> QED BY <1>5, <2>1, <2>3, <2>4, <2>5, <2>7, QuietMove DEF Places
<1>10. CASE ~Split(t)
  <2>1. mutex' = mutex /\ Goto(t, "right")
    BY <1>4, <1>7, <1>10 DEF TestLeft
  <2>2. pc' = [pc EXCEPT ![t] = "right"] /\ pc'[t] = "right" /\ \A u \in Thread : u # t => pc'[u] = pc[u]
    BY <1>2, <2>1 DEF Goto
  <2>4. \A j \in Pos : Applied(j)' <=> Applied(j)
    BY <1>1, <1>2, <1>5, <1>10, <2>2, AppliedStays
  <2>5. \A j \in Pos : j >= i <=> AboveLeft(t, j)
    BY <1>3, <1>10 DEF AboveLeft
  <2>6. ThreadInv(t)'
    BY <1>3, <1>5, <1>6, <2>2, <2>5 DEF ThreadInv
  <2>7. MutexInv'
    <3> SUFFICES ASSUME NEW w \in Node, NEW u \in Thread, mutex[w] = u
                 PROVE  \/ pc'[u] = "up" /\ Split(u) /\ w = Src(BoundAt(u))
                        \/ pc'[u] = "down" /\ Split(u + 1) /\ w = Src(BoundAt(u + 1))
      BY <1>6, <2>1 DEF MutexInv
    <3>1. u # t
      BY <1>2, <1>8 DEF MutexInv
    <3> QED BY <1>8, <2>2, <3>1 DEF MutexInv
  <2> QED BY <1>5, <1>8, <2>1, <2>4, <2>6, <2>7, QuietMove DEF Places
<1> QED BY <1>9, <1>10

(* The test for a vertex shared with the next thread.                        *)
LEMMA TestRightMoves ==
  ASSUME FiniteSetFacts, Running, NEW t \in Thread, TestRight(t)
  PROVE  Moved
<1> DEFINE i == end[t]
<1>1. /\ Len(edges) \in Nat /\ num_threads \in Nat \ {0}
      /\ t \in Nat /\ t + 1 \in Nat /\ BoundAt(t + 1) \in Nat
      /\ BoundAt(t + 1) <= Len(edges)
  BY RunningFacts
<1>2. pc[t] = "right" /\ ThreadInv(t) /\ pc \in [Thread -> Places] /\ start \in [Thread -> Nat]
  BY DEF TestRight, Running, FilterInv, FilterTypes
<1>3. i = BoundAt(t + 1) /\ \A j \in Pos : j >= start[t] <=> AboveLeft(t, j)
  BY <1>2 DEF ThreadInv
<1>5. UNCHANGED <<sketches, start, end, phase, filterRest>> /\ edges' = edges /\ num_threads' = num_threads
  BY DEF TestRight, filterRest
<1>6. /\ Pos' = Pos /\ Thread' = Thread
      /\ \A b : BoundAt(b)' = BoundAt(b) /\ (Split(b)' <=> Split(b)) /\ Src(b)' = Src(b)
      /\ \A u, j : /\ AboveLeft(u, j)' <=> AboveLeft(u, j)
                   /\ BelowRight(u, j)' <=> BelowRight(u, j)
  BY <1>5, SamePositions
<1>7. (i < Len(edges) /\ Src(i - 1) = Src(i)) <=> Split(t + 1)
  <2>1. i < Len(edges) <=> i \in 1 .. Len(edges) - 1
    <3>1. i < Len(edges) => i > 0
      <4>1. BoundAt(t + 1) < Len(edges) /\ t + 1 > 0 => BoundAt(t + 1) > 0
        BY <1>1, ThreadBounds
      <4> QED BY <1>1, <1>3, <4>1
    <3> QED BY <1>1, <1>3, <3>1
  <2> QED BY <1>3, <2>1 DEF Split
<1>8. MutexInv /\ mutex \in [Node -> Int] /\ t \in Int
  BY <1>1 DEF Running, FilterInv, FilterTypes
<1>9. CASE Split(t + 1)
  <2>1. /\ mutex[Src(i)] = NoOne /\ mutex' = [mutex EXCEPT ![Src(i)] = t]
        /\ Goto(t, "down")
    BY <1>7, <1>9 DEF TestRight
  <2>2. pc' = [pc EXCEPT ![t] = "down"] /\ pc'[t] = "down" /\ \A u \in Thread : u # t => pc'[u] = pc[u]
    BY <1>2, <2>1 DEF Goto
  <2>3. mutex' \in [Node -> Int]
    BY <1>8, <2>1
  <2>4. \A j \in Pos : Applied(j)' <=> Applied(j)
    BY <1>1, <1>2, <1>5, <2>2, AppliedStays
  <2>5. ThreadInv(t)'
    BY <1>3, <1>5, <1>6, <1>9, <2>2 DEF ThreadInv
  <2>7. MutexInv'
    <3> SUFFICES ASSUME NEW w \in Node, NEW u \in Thread, mutex'[w] = u
                 PROVE  \/ pc'[u] = "up" /\ Split(u) /\ w = Src(BoundAt(u))
                        \/ pc'[u] = "down" /\ Split(u + 1) /\ w = Src(BoundAt(u + 1))
      BY <1>6 DEF MutexInv
    <3>1. CASE w = Src(i)
      <4>1. u = t
        BY <1>8, <2>1, <3>1
      <4> QED BY <1>3, <1>9, <2>2, <3>1, <4>1
    <3>2. CASE w # Src(i)
      <4>1. mutex[w] = u
        BY <1>8, <2>1, <3>2
      <4>2. u # t
        BY <1>2, <1>8, <4>1 DEF MutexInv
      <4> QED BY <1>8, <2>2, <4>1, <4>2 DEF MutexInv
    <3> QED BY <3>1, <3>2
  <2> QED BY <1>5, <2>1, <2>3, <2>4, <2>5, <2>7, QuietMove DEF Places
<1>10. CASE ~Split(t + 1)
  <2>1. mutex' = mutex /\ Goto(t, "middle")
    BY <1>7, <1>10 DEF TestRight
  <2>2. pc' = [pc EXCEPT ![t] = "middle"] /\ pc'[t] = "middle" /\ \A u \in Thread : u # t => pc'[u] = pc[u]
    BY <1>2, <2>1 DEF Goto
  <2>4. \A j \in Pos : Applied(j)' <=> Applied(j)
    BY <1>1, <1>2, <1>3, <1>5, <1>10, <2>2, AppliedStays
  <2>5. \A j \in Pos : j < i <=> BelowRight(t, j)
    BY <1>3, <1>10 DEF BelowRight
  <2>6. ThreadInv(t)'
    BY <1>1, <1>3, <1>5, <1>6, <2>2, <2>5 DEF ThreadInv
  <2>7. MutexInv'
    <3> SUFFICES ASSUME NEW w \in Node, NEW u \in Thread, mutex[w] = u
                 PROVE  \/ pc'[u] = "up" /\ Split(u) /\ w = Src(BoundAt(u))
                        \/ pc'[u] = "down" /\ Split(u + 1) /\ w = Src(BoundAt(u + 1))
      BY <1>6, <2>1 DEF MutexInv
    <3>1. u # t
      BY <1>2, <1>8 DEF MutexInv
    <3> QED BY <1>8, <2>2, <3>1 DEF MutexInv
  <2> QED BY <1>5, <1>8, <2>1, <2>4, <2>6, <2>7, QuietMove DEF Places
<1> QED BY <1>9, <1>10

(* A step that updates a sketch.                                             *)
LEMMA UpdateMove ==
  ASSUME FiniteSetFacts,
         Running, NEW t \in Thread, NEW x \in Places, NEW v \in Node, NEW P \in SUBSET Run(v),
         Update(v, P, {}), pc' = [pc EXCEPT ![t] = x], mutex' \in [Node -> Int],
         start' \in [Thread -> Nat], end' \in [Thread -> Nat],
         \A u \in Thread : u # t => start'[u] = start[u] /\ end'[u] = end[u],
         phase' = phase, UNCHANGED filterRest,
         \A i \in Pos : Applied(i)' <=> ~(Applied(i) <=> i \in P), MutexInv', ThreadInv(t)'
  PROVE  Moved
<1>1. UNCHANGED <<edges, num_threads, graph_id, before, SFs, todo>>
  BY DEF filterRest
<1>2. pc' \in [Thread -> Places] /\ \A u \in Thread : u # t => pc'[u] = pc[u]
  BY DEF Running, FilterTypes
<1>3. \A u \in Thread : ThreadInv(u)'
  <2> TAKE u \in Thread
  <2>1. ThreadInv(u)
    BY DEF Running, FilterInv
  <2> QED BY <1>1, <1>2, <2>1, ThreadStays
<1>4. SFs[todo] \in SUBSET Edge /\ edges = get_sorted_adjacency(SFs[todo])
  BY RunningFacts
<1>5. FilterTypes /\ EffectInv
  BY DEF Running, FilterInv
<1>6. /\ EffectInv' /\ sketches' \in [Level -> [Node -> SUBSET Edge]]
      /\ \A g \in Level : g # graph_id => sketches'[g] = sketches[g]
  BY <1>1, <1>4, <1>5, UpdateEffect
<1> QED BY <1>2, <1>3, <1>6 DEF Moved

(* Releasing the mutex of the vertex shared at a bound.                      *)
LEMMA MutexReleased ==
  ASSUME Running, NEW t \in Thread, NEW x, NEW v \in Node, pc' = [pc EXCEPT ![t] = x],
         \/ pc[t] = "up" /\ v = Src(BoundAt(t))
         \/ pc[t] = "down" /\ v = Src(BoundAt(t + 1)),
         mutex' = [mutex EXCEPT ![v] = NoOne], edges' = edges, num_threads' = num_threads
  PROVE  MutexInv' /\ mutex' \in [Node -> Int]
<1>1. MutexInv /\ mutex \in [Node -> Int] /\ pc \in [Thread -> Places] /\ num_threads \in Nat
  BY DEF Running, FilterInv, FilterTypes
<1>2. /\ Thread' = Thread
      /\ \A b : BoundAt(b)' = BoundAt(b) /\ (Split(b)' <=> Split(b)) /\ Src(b)' = Src(b)
  BY SamePositions
<1>3. mutex' \in [Node -> Int]
  BY <1>1 DEF NoOne
<1> SUFFICES ASSUME NEW w \in Node, NEW u \in Thread, mutex'[w] = u
             PROVE  \/ pc'[u] = "up" /\ Split(u) /\ w = Src(BoundAt(u))
                    \/ pc'[u] = "down" /\ Split(u + 1) /\ w = Src(BoundAt(u + 1))
  BY <1>2, <1>3 DEF MutexInv
<1>4. w # v
  BY <1>1 DEF NoOne, Thread
<1>5. mutex[w] = u
  BY <1>1, <1>4
<1>6. \/ pc[u] = "up" /\ Split(u) /\ w = Src(BoundAt(u))
      \/ pc[u] = "down" /\ Split(u + 1) /\ w = Src(BoundAt(u + 1))
  BY <1>1, <1>5 DEF MutexInv
<1>7. u # t
  BY <1>4, <1>6
<1> QED BY <1>1, <1>6, <1>7

(* The sets that count how often a position was applied are finite.          *)
LEMMA CrossedFinite ==
  ASSUME FiniteSetFacts, num_threads \in Nat, NEW i
  PROVE  IsFiniteSet(Crossed(i))
<1>1. Crossed(i) \in SUBSET (1 .. num_threads - 1) /\ num_threads - 1 \in Int
  BY DEF Crossed, Bounds
<1>2. IsFiniteSet(1 .. num_threads - 1)
  BY <1>1, FiniteInterval
<1> QED BY <1>1, <1>2, FiniteSubset

(* The first loop applies the run above the bound it starts at.              *)
LEMMA UpMoves ==
  ASSUME FiniteSetFacts, Running, NEW t \in Thread, Up(t), ~outside'
  PROVE  Moved
<1> DEFINE F == SFs[todo]
           v == Src(start[t] - 1)
           up == {i \in Run(v) : i >= start[t]}
           m == BoundAt(t)
<1>1. /\ F \in SUBSET Edge /\ edges = get_sorted_adjacency(F)
      /\ Len(edges) \in Nat /\ num_threads \in Nat \ {0} /\ t \in Nat
  BY RunningFacts
<1>2. pc[t] = "up" /\ ThreadInv(t) /\ pc \in [Thread -> Places] /\ start \in [Thread -> Nat]
  BY DEF Up, Running, FilterInv, FilterTypes
<1>3. Split(t) /\ start[t] = m /\ end[t] = BoundAt(t + 1)
  BY <1>2 DEF ThreadInv
<1>4. t \in 1 .. num_threads - 1 /\ m \in 1 .. Len(edges) - 1
  BY <1>3, RunningFacts
<1>5. v = Src(m) /\ m \in Pos
  BY <1>1, <1>3, <1>4 DEF Split, Pos
<1>6. v \in Node
  BY <1>1, <1>5, Positions
<1>7. /\ Cardinality(up) \in Nat
      /\ \A i \in Pos : i \in up <=> m <= i /\ i < m + Cardinality(up)
  BY <1>1, <1>3, <1>4, <1>5, RunAbove
<1>8. Update(v, up, {}) /\ start' = [start EXCEPT ![t] = @ + Cardinality(up) + Cardinality({})]
  <2>1. ~(start[t] + Cardinality(up) = Len(edges))
    BY DEF Up
  <2> QED BY <2>1 DEF Up
<1>9. start' = [start EXCEPT ![t] = m + Cardinality(up)]
  <2> HIDE DEF up, m
  <2>1. m + Cardinality(up) + Cardinality({}) = m + Cardinality(up)
    BY <1>4, <1>7, FiniteEmpty
  <2> QED BY <1>2, <1>3, <1>8, <2>1
<1>10. /\ UNCHANGED <<end, phase, filterRest>> /\ edges' = edges /\ num_threads' = num_threads
       /\ pc' = [pc EXCEPT ![t] = "right"] /\ mutex' = [mutex EXCEPT ![v] = NoOne]
  BY DEF Up, filterRest, Goto
<1>11. /\ Pos' = Pos /\ Thread' = Thread
       /\ \A b : BoundAt(b)' = BoundAt(b) /\ (Split(b)' <=> Split(b)) /\ Src(b)' = Src(b)
       /\ \A b : Bounds(b)' = Bounds(b)
       /\ \A u, j : /\ AboveLeft(u, j)' <=> AboveLeft(u, j)
                    /\ BelowRight(u, j)' <=> BelowRight(u, j)
  BY <1>10, SamePositions
<1>12. MutexInv' /\ mutex' \in [Node -> Int]
  BY <1>2, <1>5, <1>6, <1>10, MutexReleased
<1>13. pc'[t] = "right" /\ \A u \in Thread : u # t => pc'[u] = pc[u]
  BY <1>2, <1>10
<1>14. /\ start' \in [Thread -> Nat] /\ start'[t] = m + Cardinality(up)
       /\ \A u \in Thread : u # t => start'[u] = start[u]
  <2>1. m + Cardinality(up) \in Nat
    BY <1>4, <1>7
  <2> HIDE DEF up, m
  <2> QED BY <1>2, <1>9, <2>1
<1>15. \A i \in Pos : i \in up <=> i >= m /\ Src(i) = v
  BY <1>3 DEF Run, Pos
<1>16. \A i \in Pos : i >= m + Cardinality(up) <=> AboveLeft(t, i)
  <2> TAKE i \in Pos
  <2>1. AboveLeft(t, i) <=> i >= m /\ ~(i \in up)
    BY <1>3, <1>5, <1>15 DEF AboveLeft
  <2>2. i \in up <=> m <= i /\ i < m + Cardinality(up)
    BY <1>7
  <2>3. i \in Int /\ m \in Nat
    BY <1>1, <1>4 DEF Pos
  <2> HIDE DEF up, m
  <2> QED BY <1>7, <2>1, <2>2, <2>3
<1>17. ThreadInv(t)'
  BY <1>3, <1>10, <1>11, <1>13, <1>14, <1>16 DEF ThreadInv
<1>18. ASSUME NEW i \in Pos PROVE Applied(i)' <=> ~(Applied(i) <=> i \in up)
  <2>1. \A u \in Thread : InMiddle(u, i)' <=> InMiddle(u, i)
    BY <1>2, <1>11, <1>13, <1>14 DEF InMiddle
  <2>2. \A b \in Bounds(i) : b \in Thread /\ b - 1 \in Thread /\ b \in Int /\ Split(b)
    BY <1>1 DEF Bounds, Thread
  <2>3. \A b \in Bounds(i) : pc'[b - 1] \in {"middle", "done"} <=> pc[b - 1] \in {"middle", "done"}
    BY <1>2, <1>13, <2>2
  <2>4. \A b \in Bounds(i) : b # t => pc'[b] = pc[b]
    BY <1>13, <2>2
  <2>5. i \in up <=> t \in Bounds(i) /\ i >= m
    BY <1>3, <1>4, <1>5, <1>15 DEF Bounds
  <2>6. CASE i \in up
    <3>1. t \in Bounds(i) /\ i >= m
      BY <2>5, <2>6
    <3>2. t \notin Crossed(i)
      BY <1>2, <3>1 DEF Crossed
    <3>3. Crossed(i)' = Crossed(i) \cup {t}
      BY <1>11, <1>13, <2>3, <2>4, <3>1 DEF Crossed
    <3>4. Odd(Crossed(i) \cup {t}) <=> ~Odd(Crossed(i))
      BY <1>1, <3>2, CrossedFinite, OddAdds
    <3>5. Odd(Crossed(i))' <=> Odd(Crossed(i) \cup {t})
      BY <3>3 DEF Odd
    <3> QED BY <1>11, <2>6, <3>1, <3>4, <3>5 DEF Applied
  <2>7. CASE i \notin up
    <3>1. Crossed(i)' = Crossed(i)
      BY <1>11, <2>3, <2>4, <2>5, <2>7 DEF Crossed
    <3> QED BY <1>11, <2>1, <2>7, <3>1 DEF Applied, Odd
  <2> QED BY <2>6, <2>7
<1>19. up \in SUBSET Run(v) /\ end' \in [Thread -> Nat] /\ \A u \in Thread : end'[u] = end[u]
  BY <1>10 DEF Running, FilterTypes
<1> QED BY <1>6, <1>8, <1>10, <1>12, <1>14, <1>17, <1>18, <1>19, UpdateMove DEF Places

(* The second loop applies the run below the bound it starts at.             *)
LEMMA DownMoves ==
  ASSUME FiniteSetFacts, Running, NEW t \in Thread, Down(t), ~outside'
  PROVE  Moved
<1> DEFINE F == SFs[todo]
           v == Src(end[t] - 1)
           down == {i \in Run(v) : i < end[t]}
           m == BoundAt(t + 1)
<1>1. /\ F \in SUBSET Edge /\ edges = get_sorted_adjacency(F)
      /\ Len(edges) \in Nat /\ num_threads \in Nat \ {0} /\ t \in Nat
  BY RunningFacts
<1>2. /\ pc[t] = "down" /\ ThreadInv(t) /\ pc \in [Thread -> Places]
      /\ start \in [Thread -> Nat] /\ end \in [Thread -> Nat]
  BY DEF Down, Running, FilterInv, FilterTypes
<1>3. Split(t + 1) /\ end[t] = m /\ \A j \in Pos : j >= start[t] <=> AboveLeft(t, j)
  BY <1>2 DEF ThreadInv
<1>4. t + 1 \in 1 .. num_threads - 1 /\ m \in 1 .. Len(edges) - 1
  BY <1>3, RunningFacts
<1>5. v = Src(m) /\ Src(m - 1) = v /\ m \in Pos
  BY <1>1, <1>3, <1>4 DEF Split, Pos
<1>6. v \in Node
  BY <1>1, <1>5, Positions
<1>7. /\ Cardinality(down) \in Nat /\ m - Cardinality(down) \in Nat
      /\ \A i \in Pos : i \in down <=> m - Cardinality(down) <= i /\ i < m
  BY <1>1, <1>3, <1>4, <1>5, RunBelow
<1>8. /\ Update(v, down, {}) /\ end' = [end EXCEPT ![t] = @ - Cardinality(down)]
      /\ phase' = phase
  <2>1. ~(end[t] = Cardinality(down))
    BY DEF Down
  <2> QED BY <2>1 DEF Down
<1>10. /\ UNCHANGED <<start, filterRest>> /\ edges' = edges /\ num_threads' = num_threads
       /\ pc' = [pc EXCEPT ![t] = "middle"] /\ mutex' = [mutex EXCEPT ![v] = NoOne]
  BY DEF Down, filterRest, Goto
<1>11. /\ Pos' = Pos /\ Thread' = Thread
       /\ \A b : BoundAt(b)' = BoundAt(b) /\ (Split(b)' <=> Split(b)) /\ Src(b)' = Src(b)
       /\ \A b : Bounds(b)' = Bounds(b)
       /\ \A u, j : /\ AboveLeft(u, j)' <=> AboveLeft(u, j)
                    /\ BelowRight(u, j)' <=> BelowRight(u, j)
  BY <1>10, SamePositions
<1>12. MutexInv' /\ mutex' \in [Node -> Int]
  BY <1>2, <1>5, <1>6, <1>10, MutexReleased
<1>13. pc'[t] = "middle" /\ \A u \in Thread : u # t => pc'[u] = pc[u]
  BY <1>2, <1>10
<1>14. /\ end' \in [Thread -> Nat] /\ end'[t] = m - Cardinality(down)
       /\ \A u \in Thread : u # t => end'[u] = end[u]
  <2> HIDE DEF down, m
  <2> QED BY <1>2, <1>3, <1>7, <1>8
<1>15. \A i \in Pos : i \in down <=> i < m /\ Src(i) = v
  BY <1>3 DEF Run, Pos
<1>16. \A i \in Pos : i < m - Cardinality(down) <=> BelowRight(t, i)
  <2> TAKE i \in Pos
  <2>1. BelowRight(t, i) <=> i < m /\ ~(i \in down)
    BY <1>3, <1>5, <1>15 DEF BelowRight
  <2>2. i \in down <=> m - Cardinality(down) <= i /\ i < m
    BY <1>7
  <2>3. i \in Int /\ m \in Nat
    BY <1>1, <1>4 DEF Pos
  <2> HIDE DEF down, m
  <2> QED BY <1>7, <2>1, <2>2, <2>3
<1>17. ThreadInv(t)'
  <2>1. m - Cardinality(down) <= Len(edges)
    BY <1>1, <1>4, <1>7
  <2> HIDE DEF down, m
  <2> QED BY <1>3, <1>10, <1>11, <1>13, <1>14, <1>16, <2>1 DEF ThreadInv
<1>18. ASSUME NEW i \in Pos PROVE Applied(i)' <=> ~(Applied(i) <=> i \in down)
  <2>0. i \in Int /\ start[t] \in Int
    BY <1>1, <1>2 DEF Pos
  <2>1. \A u \in Thread : InMiddle(u, i)' <=> InMiddle(u, i)
    <3> TAKE u \in Thread
    <3>1. CASE u = t
      BY <1>2, <1>3, <1>10, <1>11, <2>0, <3>1 DEF InMiddle
    <3>2. CASE u # t
      BY <1>10, <1>11, <1>13, <3>2 DEF InMiddle
    <3> QED BY <3>1, <3>2
  <2>2. \A b \in Bounds(i) : /\ b \in Thread /\ b - 1 \in Thread /\ b \in Int /\ Split(b)
                             /\ b # t + 1 => b - 1 # t
    BY <1>1 DEF Bounds, Thread
  <2>3. \A b \in Bounds(i) : pc'[b] \in {"left", "up"} <=> pc[b] \in {"left", "up"}
    BY <1>2, <1>13, <2>2
  <2>4. \A b \in Bounds(i) : b # t + 1 => pc'[b - 1] = pc[b - 1]
    BY <1>13, <2>2
  <2>5. i \in down <=> t + 1 \in Bounds(i) /\ i < m
    BY <1>3, <1>4, <1>5, <1>15 DEF Bounds
  <2>6. (i >= m <=> ~(i < m)) /\ (t + 1) - 1 = t
    BY <1>1, <1>4, <2>0
  <2>7. CASE i \in down
    <3>1. t + 1 \in Bounds(i) /\ i < m
      BY <2>5, <2>7
    <3>2. t + 1 \notin Crossed(i)
      BY <1>2, <2>6, <3>1 DEF Crossed
    <3>3. Crossed(i)' = Crossed(i) \cup {t + 1}
      BY <1>11, <1>13, <2>3, <2>4, <2>6, <3>1 DEF Crossed
    <3>4. Odd(Crossed(i) \cup {t + 1}) <=> ~Odd(Crossed(i))
      BY <1>1, <3>2, CrossedFinite, OddAdds
    <3>5. Odd(Crossed(i))' <=> Odd(Crossed(i) \cup {t + 1})
      BY <3>3 DEF Odd
    <3> QED BY <1>11, <2>7, <3>1, <3>4, <3>5 DEF Applied
  <2>8. CASE i \notin down
    <3>1. Crossed(i)' = Crossed(i)
      BY <1>11, <2>3, <2>4, <2>5, <2>6, <2>8 DEF Crossed
    <3> QED BY <1>11, <2>1, <2>8, <3>1 DEF Applied, Odd
  <2> QED BY <2>7, <2>8
<1>19. down \in SUBSET Run(v) /\ start' \in [Thread -> Nat] /\ \A u \in Thread : start'[u] = start[u]
  BY <1>2, <1>10
<1> QED BY <1>6, <1>8, <1>10, <1>12, <1>14, <1>17, <1>18, <1>19, UpdateMove DEF Places

(* The last loop applies one position of the thread's own, or ends.          *)
LEMMA MiddleMoves ==
  ASSUME FiniteSetFacts, Running, NEW t \in Thread, Middle(t)
  PROVE  Moved
<1> DEFINE F == SFs[todo]
           p == start[t]
<1>1. /\ F \in SUBSET Edge /\ edges = get_sorted_adjacency(F)
      /\ Len(edges) \in Nat /\ num_threads \in Nat \ {0} /\ t \in Nat
  BY RunningFacts
<1>2. /\ pc[t] = "middle" /\ ThreadInv(t) /\ pc \in [Thread -> Places]
      /\ start \in [Thread -> Nat] /\ end \in [Thread -> Nat]
  BY DEF Middle, Running, FilterInv, FilterTypes
<1>3. /\ end[t] <= Len(edges) /\ \A i \in Pos : i >= p => AboveLeft(t, i)
      /\ \A i \in Pos : i < end[t] <=> BelowRight(t, i)
  BY <1>2 DEF ThreadInv
<1>4. UNCHANGED <<end, mutex, phase, filterRest>> /\ edges' = edges /\ num_threads' = num_threads
  BY DEF Middle, filterRest
<1>5. /\ Pos' = Pos /\ Thread' = Thread
      /\ \A b : BoundAt(b)' = BoundAt(b) /\ (Split(b)' <=> Split(b)) /\ Src(b)' = Src(b)
      /\ \A b : Bounds(b)' = Bounds(b)
      /\ \A u, j : /\ AboveLeft(u, j)' <=> AboveLeft(u, j)
                   /\ BelowRight(u, j)' <=> BelowRight(u, j)
  BY <1>4, SamePositions
<1>6. MutexInv /\ mutex \in [Node -> Int]
  BY DEF Running, FilterInv, FilterTypes
<1>7. CASE p < end[t]
  <2>1. /\ Update(Src(p), {p}, {}) /\ start' = [start EXCEPT ![t] = @ + 1] /\ pc' = pc
    BY <1>7 DEF Middle
  <2>2. p \in Pos /\ p \in Nat
    BY <1>1, <1>2, <1>3, <1>7 DEF Pos
  <2>3. AboveLeft(t, p) /\ BelowRight(t, p)
    BY <1>3, <1>7, <2>2
  <2>4. Src(p) \in Node /\ {p} \in SUBSET Run(Src(p))
    BY <1>1, <2>2, Positions DEF Run, Pos
  <2>5. /\ start' \in [Thread -> Nat] /\ start'[t] = p + 1
        /\ \A u \in Thread : u # t => start'[u] = start[u]
    BY <1>2, <2>1
  <2>6. ThreadInv(t)'
    <3>1. \A i \in Pos : i >= p + 1 => AboveLeft(t, i)
      BY <1>1, <1>3, <2>2 DEF Pos
    <3> QED BY <1>2, <1>3, <1>4, <1>5, <2>1, <2>5, <3>1 DEF ThreadInv
  <2>7. MutexInv'
    BY <1>4, <1>5, <1>6, <2>1 DEF MutexInv
  <2>8. ASSUME NEW i \in Pos PROVE Applied(i)' <=> ~(Applied(i) <=> i \in {p})
    <3>1. Crossed(i)' = Crossed(i) /\ Bounds(i)' = Bounds(i)
      BY <1>5, <2>1 DEF Crossed
    <3>2. i \in Int
      BY <1>1 DEF Pos
    <3>3. CASE i = p
      <4>1. Bounds(i) = {}
        BY <1>1, <2>2, <2>3, <3>3, MiddleRun
      <4>2. InMiddle(t, i)'
        BY <1>2, <1>5, <2>1, <2>2, <2>3, <2>5, <3>3 DEF InMiddle
      <4>3. ASSUME NEW u \in Thread, InMiddle(u, i) PROVE FALSE
        <5>1. u # t
          BY <2>2, <3>3, <4>3 DEF InMiddle
        <5>2. /\ u \in Nat /\ t \in Nat /\ u + 1 \in Nat /\ t + 1 \in Nat
          BY <1>1 DEF Thread
        <5>3. /\ BoundAt(u) <= i /\ i < BoundAt(u + 1)
              /\ BoundAt(t) <= i /\ i < BoundAt(t + 1)
          BY <2>2, <2>3, <3>3, <4>3 DEF InMiddle, AboveLeft, BelowRight
        <5>4. /\ \A b \in Nat : BoundAt(b) \in Nat
              /\ \A b, c \in Nat : b <= c => BoundAt(b) <= BoundAt(c)
          BY <1>1, ThreadBounds
        <5>5. u + 1 <= t \/ t + 1 <= u
          BY <5>1, <5>2
        <5>6. BoundAt(u + 1) <= BoundAt(t) \/ BoundAt(t + 1) <= BoundAt(u)
          BY <5>2, <5>4, <5>5
        <5>7. BoundAt(u) \in Nat /\ BoundAt(t) \in Nat /\ BoundAt(u + 1) \in Nat /\ BoundAt(t + 1) \in Nat
          BY <5>2, <5>4
        <5> QED BY <2>2, <3>2, <5>3, <5>6, <5>7
      <4> QED BY <1>5, <3>1, <3>3, <4>1, <4>2, <4>3 DEF Applied
    <3>4. CASE i # p
      <4>1. \A u \in Thread : InMiddle(u, i)' <=> InMiddle(u, i)
        <5> TAKE u \in Thread
        <5>1. CASE u = t
          BY <1>5, <2>1, <2>2, <2>5, <3>2, <3>4, <5>1 DEF InMiddle
        <5>2. CASE u # t
          BY <1>5, <2>1, <2>5, <5>2 DEF InMiddle
        <5> QED BY <5>1, <5>2
      <4> QED BY <1>5, <3>1, <3>4, <4>1 DEF Applied, Odd
    <3> QED BY <3>3, <3>4
  <2>9. pc' = [pc EXCEPT ![t] = "middle"] /\ end' \in [Thread -> Nat] /\ mutex' \in [Node -> Int]
    BY <1>2, <1>4, <1>6, <2>1
  <2> QED BY <1>4, <2>1, <2>4, <2>5, <2>6, <2>7, <2>8, <2>9, UpdateMove DEF Places
<1>8. CASE ~(p < end[t])
  <2>1. Goto(t, "done") /\ UNCHANGED <<sketches, start>>
    BY <1>8 DEF Middle
  <2>2. pc' = [pc EXCEPT ![t] = "done"] /\ pc'[t] = "done" /\ \A u \in Thread : u # t => pc'[u] = pc[u]
    BY <1>2, <2>1 DEF Goto
  <2>3. \A j \in Pos : Applied(j)' <=> Applied(j)
    BY <1>1, <1>2, <1>4, <2>1, <2>2, AppliedStays
  <2>4. ThreadInv(t)'
    <3>1. p >= end[t]
      BY <1>2, <1>8
    <3> QED BY <1>3, <1>4, <1>5, <2>1, <2>2, <3>1 DEF ThreadInv
  <2>5. MutexInv'
    <3> SUFFICES ASSUME NEW w \in Node, NEW u \in Thread, mutex[w] = u
                 PROVE  \/ pc'[u] = "up" /\ Split(u) /\ w = Src(BoundAt(u))
                        \/ pc'[u] = "down" /\ Split(u + 1) /\ w = Src(BoundAt(u + 1))
      BY <1>4, <1>5 DEF MutexInv
    <3>1. u # t
      BY <1>2, <1>6 DEF MutexInv
    <3> QED BY <1>6, <2>2, <3>1 DEF MutexInv
  <2>6. UNCHANGED <<sketches, start, end, phase, filterRest>> /\ mutex' \in [Node -> Int]
    BY <1>4, <1>6, <2>1
  <2> QED BY <2>1, <2>3, <2>4, <2>5, <2>6, QuietMove DEF Places
<1> QED BY <1>7, <1>8

(* A step of a thread that reads within edges.                               *)
LEMMA FilterMoves ==
  ASSUME FiniteSetFacts, Running, NEW t \in Thread, filter_sf_edges(t), ~outside'
  PROVE  Moved
BY TestLeftMoves, UpMoves, TestRightMoves, DownMoves, MiddleMoves DEF filter_sf_edges

-----------------------------------------------------------------------------
(* A vertex is the source of at most half of the positions.                  *)
LEMMA RunHalf ==
  ASSUME FiniteSetFacts,
         NEW F \in SUBSET Edge, edges = get_sorted_adjacency(F), NEW v \in Node
  PROVE  /\ IsFiniteSet(Run(v)) /\ Cardinality(Run(v)) \in Nat
         /\ 2 * Cardinality(Run(v)) <= Len(edges)
<1> DEFINE S == BothWays(F)
           back(a) == <<a[2], a[1]>>
           Q == Pos \ Run(v)
<1>1. /\ \A i \in 1 .. Len(edges) : edges[i] \in S
      /\ \A b \in S : \E i \in 1 .. Len(edges) : edges[i] = b
      /\ \A i, j \in 1 .. Len(edges) : i < j => Smaller(edges[i], edges[j])
  BY SortedAdjacency
<1>2. Len(edges) \in Nat
  BY Positions
<1>3. \A a \in S : a \in Node \X Node /\ a[1] # a[2] /\ back(a) \in S
  BY VertexAssumption DEF BothWays, Edge, Node
<1> HIDE DEF S
<1>4. \A i \in Pos : i + 1 \in 1 .. Len(edges) /\ edges[i + 1] \in S
  BY <1>1, <1>2 DEF Pos
<1>5. \A b \in S : \E j \in Pos : edges[j + 1] = b
  <2> TAKE b \in S
  <2>1. PICK i \in 1 .. Len(edges) : edges[i] = b
    BY <1>1
  <2>2. i - 1 \in Pos /\ (i - 1) + 1 = i
    BY <1>2 DEF Pos
  <2> QED BY <2>1, <2>2
<1>6. Run(v) \in SUBSET Pos /\ \A i \in Pos : i \in Run(v) <=> edges[i + 1][1] = v
  BY DEF Run, Pos, Src
<1> DEFINE f == [i \in Run(v) |-> CHOOSE j \in Pos : edges[j + 1] = back(edges[i + 1])]
<1>7. \A i \in Run(v) : f[i] \in Pos /\ edges[f[i] + 1] = back(edges[i + 1])
  <2> TAKE i \in Run(v)
  <2>1. \E j \in Pos : edges[j + 1] = back(edges[i + 1])
    BY <1>3, <1>4, <1>5, <1>6
  <2> QED BY <2>1
<1>8. \A i \in Run(v) : f[i] \in Q
  <2> TAKE i \in Run(v)
  <2>1. edges[i + 1] \in S /\ edges[i + 1][1] = v
    BY <1>4, <1>6
  <2>2. edges[f[i] + 1] = back(edges[i + 1]) /\ edges[i + 1][2] # v
    BY <1>3, <1>7, <2>1
  <2>3. edges[f[i] + 1][1] # v
    BY <2>2
  <2> QED BY <1>6, <1>7, <2>3
<1>9. \A i, j \in Pos : edges[i + 1] = edges[j + 1] => i = j
  <2> TAKE i, j \in Pos
  <2> HAVE edges[i + 1] = edges[j + 1]
  <2>1. ~Smaller(edges[i + 1], edges[j + 1]) /\ ~Smaller(edges[j + 1], edges[i + 1])
    <3>1. edges[i + 1] \in Node \X Node
      BY <1>3, <1>4
    <3> QED BY <3>1, SmallerTotal
  <2>2. ~(i + 1 < j + 1) /\ ~(j + 1 < i + 1)
    BY <1>1, <1>4, <2>1
  <2> QED BY <1>2, <2>2 DEF Pos
<1>10. \A i, j \in Run(v) : f[i] = f[j] => i = j
  <2> TAKE i, j \in Run(v)
  <2> HAVE f[i] = f[j]
  <2>1. back(edges[i + 1]) = back(edges[j + 1])
    BY <1>7
  <2>2. edges[i + 1] \in Node \X Node /\ edges[j + 1] \in Node \X Node
    BY <1>3, <1>4, <1>6
  <2>3. edges[i + 1] = edges[j + 1]
    BY <2>1, <2>2
  <2> QED BY <1>6, <1>9, <2>3
<1>11. f \in [Run(v) -> Q]
  <2>1. \A i \in Run(v) : (CHOOSE j \in Pos : edges[j + 1] = back(edges[i + 1])) \in Q
    BY <1>8
  <2> QED BY <2>1
<1> HIDE DEF f
<1>13. IsFiniteSet(Pos) /\ Cardinality(Pos) = Len(edges)
  <2>1. 0 \in Int /\ Len(edges) - 1 \in Int
    BY <1>2
  <2>2. /\ IsFiniteSet(0 .. Len(edges) - 1)
        /\ Cardinality(0 .. Len(edges) - 1) = IF 0 > Len(edges) - 1 THEN 0 ELSE Len(edges) - 1 - 0 + 1
    BY <2>1, FiniteInterval
  <2> QED BY <1>2, <2>2 DEF Pos
<1>14. IsFiniteSet(Run(v)) /\ Cardinality(Run(v)) \in Nat
  BY <1>6, <1>13, FiniteSubset, FiniteCount
<1>15. /\ IsFiniteSet(Q) /\ Cardinality(Q) = Cardinality(Pos) - Cardinality(Pos \cap Run(v))
       /\ Pos \cap Run(v) = Run(v)
  <2>1. Pos \cap Run(v) = Run(v)
    BY <1>6
  <2> QED BY <1>13, <2>1, FiniteDifference
<1>16. Cardinality(Run(v)) <= Cardinality(Q)
  BY <1>10, <1>11, <1>15, FiniteInjection
<1>17. Cardinality(Run(v)) <= Len(edges) - Cardinality(Run(v))
  BY <1>13, <1>15, <1>16
<1> QED BY <1>2, <1>14, <1>17

(* With at most two threads nothing is read outside edges: the one bound     *)
(* between them is in the middle, and no run is longer than half.            *)
LEMMA TwoThreads ==
  ASSUME FiniteSetFacts, Running, num_threads <= 2, ~outside, NEW t \in Thread,
         TestLeft(t) \/ Up(t) \/ TestRight(t) \/ Down(t) \/ Middle(t)
  PROVE  ~outside'
<1> DEFINE F == SFs[todo]
           l == Len(edges)
<1>1. /\ F \in SUBSET Edge /\ edges = get_sorted_adjacency(F)
      /\ l \in Nat /\ num_threads \in {1, 2} /\ t \in {0, 1}
      /\ t = 1 => num_threads = 2
      /\ Split(t) => t \in 1 .. num_threads - 1 /\ BoundAt(t) \in 1 .. l - 1
      /\ Split(t + 1) => t + 1 \in 1 .. num_threads - 1 /\ BoundAt(t + 1) \in 1 .. l - 1
  BY RunningFacts
<1>2. ThreadInv(t) /\ pc \in [Thread -> Places] /\ start \in [Thread -> Nat]
  BY DEF Running, FilterInv, FilterTypes
<1>3. BoundAt(0) = 0
  BY <1>1, ThreadBounds
<1>4. num_threads = 2 => /\ BoundAt(1) \in Nat
                         /\ \A i \in Nat : BoundAt(1) <= i <=> l <= 2 * i
  <2> HAVE num_threads = 2
  <2>1. 1 \in Nat /\ 2 \in Nat \ {0}
    OBVIOUS
  <2>2. \A i \in Nat : Bound(l, 1, 2) \in Nat /\ (Bound(l, 1, 2) <= i <=> l * 1 <= 2 * i)
    BY <1>1, <2>1, BoundUpTo
  <2>3. BoundAt(1) = Bound(l, 1, 2) /\ l * 1 = l /\ 0 \in Nat
    BY <1>1 DEF BoundAt
  <2> QED BY <2>2, <2>3
<1>5. CASE TestLeft(t)
  <2>1. pc[t] = "left" /\ start[t] = BoundAt(t)
    BY <1>2, <1>5 DEF TestLeft, ThreadInv
  <2>2. ASSUME start[t] > 0, start[t] = l PROVE FALSE
    <3>1. t = 1 /\ num_threads = 2 /\ BoundAt(1) = l /\ l > 0
      <4>1. t # 0
        <5>1. t = 0 => BoundAt(t) = BoundAt(0)
          OBVIOUS
        <5>2. t = 0 => start[t] = 0
          BY <1>3, <2>1, <5>1
        <5> QED BY <2>2, <5>2
      <4> QED BY <1>1, <2>1, <2>2, <4>1
    <3>2. l = 1
      <4>1. ~(BoundAt(1) <= l - 1) /\ l - 1 \in Nat
        BY <1>1, <3>1
      <4>2. ~(l <= 2 * (l - 1))
        BY <1>4, <3>1, <4>1
      <4>3. \A n \in Nat : n > 0 /\ ~(n <= 2 * (n - 1)) => n = 1
        OBVIOUS
      <4> QED BY <1>1, <3>1, <4>2, <4>3, Zenon
    <3>3. 0 \in Pos
      BY <3>2 DEF Pos
    <3>4. Src(0) \in Node /\ 0 \in Run(Src(0))
      BY <1>1, <3>3, Positions DEF Run, Pos
    <3>5. /\ IsFiniteSet(Run(Src(0))) /\ Cardinality(Run(Src(0))) \in Nat
          /\ 2 * Cardinality(Run(Src(0))) <= l
      BY <1>1, <3>4, RunHalf
    <3>6. Cardinality(Run(Src(0))) # 0
      BY <3>4, <3>5, FiniteEmpty
    <3> QED BY <3>2, <3>5, <3>6
  <2> QED BY <1>5, <2>2 DEF TestLeft
<1>6. CASE Up(t)
  <2> DEFINE v == Src(start[t] - 1)
             up == {i \in Run(v) : i >= start[t]}
             m == BoundAt(t)
  <2>1. pc[t] = "up" /\ start[t] = m /\ Split(t)
    BY <1>2, <1>6 DEF Up, ThreadInv
  <2>2. t = 1 /\ num_threads = 2 /\ m \in 1 .. l - 1
    BY <1>1, <2>1
  <2>3. v = Src(m) /\ m \in Pos /\ m - 1 \in Pos /\ m - 1 \in Run(v) /\ m - 1 \notin up
    BY <1>1, <2>1, <2>2 DEF Split, Pos, Run
  <2>4. v \in Node
    BY <1>1, <2>3, Positions
  <2>5. IsFiniteSet(Run(v)) /\ Cardinality(Run(v)) \in Nat /\ 2 * Cardinality(Run(v)) <= l
    BY <1>1, <2>4, RunHalf
  <2>6. IsFiniteSet(up) /\ Cardinality(up) \in Nat
    BY <2>5, FiniteSubset, FiniteCount
  <2>7. Cardinality(up \cup {m - 1}) = Cardinality(up) + 1
    BY <2>3, <2>6, FiniteAdd
  <2>8. Cardinality(up \cup {m - 1}) <= Cardinality(Run(v))
    BY <2>3, <2>5, FiniteSubset
  <2>9. l > 2 * (m - 1)
    <3>1. ~(BoundAt(1) <= m - 1) /\ m - 1 \in Nat
      BY <2>2
    <3>2. ~(l <= 2 * (m - 1))
      BY <1>4, <2>2, <3>1
    <3> QED BY <1>1, <2>2, <3>2
  <2>10. ~(start[t] + Cardinality(up) = l)
    <3> HIDE DEF up, m, v, l
    <3> QED BY <1>1, <2>1, <2>2, <2>5, <2>6, <2>7, <2>8, <2>9
  <2> QED BY <1>6, <2>10 DEF Up
<1>7. CASE Down(t)
  <2> DEFINE v == Src(end[t] - 1)
             down == {i \in Run(v) : i < end[t]}
             m == BoundAt(t + 1)
  <2>1. pc[t] = "down" /\ end[t] = m /\ Split(t + 1)
    BY <1>2, <1>7 DEF Down, ThreadInv
  <2>2. t + 1 = 1 /\ num_threads = 2 /\ m \in 1 .. l - 1
    BY <1>1, <2>1
  <2>3. v = Src(m) /\ m \in Pos /\ m \in Run(v) /\ m \notin down
    BY <1>1, <2>1, <2>2 DEF Split, Pos, Run
  <2>4. v \in Node
    BY <1>1, <2>3, Positions
  <2>5. IsFiniteSet(Run(v)) /\ Cardinality(Run(v)) \in Nat /\ 2 * Cardinality(Run(v)) <= l
    BY <1>1, <2>4, RunHalf
  <2>6. IsFiniteSet(down) /\ Cardinality(down) \in Nat
    BY <2>5, FiniteSubset, FiniteCount
  <2>7. Cardinality(down \cup {m}) = Cardinality(down) + 1
    BY <2>3, <2>6, FiniteAdd
  <2>8. Cardinality(down \cup {m}) <= Cardinality(Run(v))
    BY <2>3, <2>5, FiniteSubset
  <2>9. l <= 2 * m
    <3>1. BoundAt(1) <= m /\ m \in Nat
      BY <2>2
    <3> QED BY <1>4, <2>2, <3>1
  <2>10. ~(end[t] = Cardinality(down))
    <3> HIDE DEF down, m, v, l
    <3> QED BY <1>1, <2>1, <2>2, <2>5, <2>6, <2>7, <2>8, <2>9
  <2> QED BY <1>7, <2>10 DEF Down
<1>8. CASE TestRight(t) \/ Middle(t)
  BY <1>8 DEF TestRight, Middle
<1> QED BY <1>5, <1>6, <1>7, <1>8

-----------------------------------------------------------------------------
(* No thread is at a sketch that another one updates without the mutex.      *)
LEMMA NoRaceHolds ==
  ASSUME FiniteSetFacts, Running
  PROVE  NoRace
<1> SUFFICES ASSUME NEW t \in Thread, NEW u \in Thread, t # u, pc[t] = "middle", start[t] < end[t]
             PROVE  /\ mutex[Src(start[t])] # u
                    /\ (pc[u] = "middle" /\ start[u] < end[u]) => Src(start[u]) # Src(start[t])
  BY DEF NoRace
<1> DEFINE F == SFs[todo]
<1>1. /\ F \in SUBSET Edge /\ edges = get_sorted_adjacency(F)
      /\ Len(edges) \in Nat /\ num_threads \in Nat \ {0}
      /\ t \in Nat /\ t + 1 \in Nat /\ u \in Nat /\ u + 1 \in Nat
  BY RunningFacts
<1>2. start \in [Thread -> Nat] /\ end \in [Thread -> Nat] /\ MutexInv
  BY DEF Running, FilterTypes, FilterInv
<1>3. \A w \in Thread : pc[w] = "middle" /\ start[w] < end[w] =>
        start[w] \in Pos /\ AboveLeft(w, start[w]) /\ BelowRight(w, start[w])
  <2> SUFFICES ASSUME NEW w \in Thread, pc[w] = "middle", start[w] < end[w]
               PROVE  start[w] \in Pos /\ AboveLeft(w, start[w]) /\ BelowRight(w, start[w])
    OBVIOUS
  <2>1. /\ end[w] <= Len(edges) /\ \A i \in Pos : i >= start[w] => AboveLeft(w, i)
        /\ \A i \in Pos : i < end[w] <=> BelowRight(w, i)
    BY DEF Running, FilterInv, ThreadInv
  <2>2. start[w] \in Nat /\ end[w] \in Nat
    BY <1>2
  <2>3. start[w] \in Pos /\ start[w] >= start[w]
    BY <1>1, <2>1, <2>2 DEF Pos
  <2> QED BY <2>1, <2>3
<1>4. PICK p \in Pos : p = start[t]
  BY <1>3
<1>5. /\ \A j \in Pos : Src(j) = Src(p) => BoundAt(t) <= j /\ j < BoundAt(t + 1)
      /\ \A b \in Nat : ~(Split(b) /\ Src(BoundAt(b)) = Src(p))
  BY <1>1, <1>3, <1>4, MiddleRun
<1>6. mutex[Src(p)] # u
  <2>1. Src(p) \in Node
    BY <1>1, Positions
  <2> QED BY <1>1, <1>2, <1>5, <2>1 DEF MutexInv
<1>7. ASSUME pc[u] = "middle", start[u] < end[u], Src(start[u]) = Src(p) PROVE FALSE
  <2>1. PICK q \in Pos : q = start[u]
    BY <1>3, <1>7
  <2>2. BoundAt(t) <= q /\ q < BoundAt(t + 1)
    BY <1>5, <1>7, <2>1
  <2>3. BoundAt(u) <= q /\ q < BoundAt(u + 1)
    BY <1>3, <1>7, <2>1 DEF AboveLeft, BelowRight
  <2>4. /\ \A b \in Nat : BoundAt(b) \in Nat
        /\ \A b, c \in Nat : b <= c => BoundAt(b) <= BoundAt(c)
    BY <1>1, ThreadBounds
  <2>5. u + 1 <= t \/ t + 1 <= u
    BY <1>1
  <2>6. BoundAt(u + 1) <= BoundAt(t) \/ BoundAt(t + 1) <= BoundAt(u)
    BY <1>1, <2>4, <2>5
  <2>7. BoundAt(u) \in Nat /\ BoundAt(t) \in Nat /\ BoundAt(u + 1) \in Nat /\ BoundAt(t + 1) \in Nat
    BY <1>1, <2>4
  <2>8. q \in Int
    BY <1>1 DEF Pos
  <2> QED BY <2>2, <2>3, <2>6, <2>7, <2>8
<1> QED BY <1>4, <1>6, <1>7

(* The bounds inside a run, from the forest and from the positions.          *)
LEMMA BoundsAreWithin ==
  ASSUME FiniteSetFacts,
         NEW F \in SUBSET Edge, edges = get_sorted_adjacency(F), num_threads \in Nat \ {0},
         NEW i \in Pos
  PROVE  BoundsWithin(F, Src(i)) = Bounds(i)
<1>1. edges \in Seq(Node \X Node) /\ Len(edges) \in Nat /\ DOMAIN edges = 1 .. Len(edges)
  BY SortedAdjacency
<1>2. \A b \in Nat : BoundAt(b) \in Nat
  BY <1>1, ThreadBounds
<1> DEFINE run == {j \in 1 .. Len(edges) : edges[j][1] = Src(i)}
<1>3. ASSUME NEW m \in Nat
      PROVE  m \in run /\ m + 1 \in run
               <=> m \in 1 .. Len(edges) - 1 /\ Src(m - 1) = Src(m) /\ Src(m) = Src(i)
  <2>1. (m - 1) + 1 = m
    OBVIOUS
  <2>2. Src(m - 1) = edges[m][1] /\ Src(m) = edges[m + 1][1]
    BY <2>1 DEF Src
  <2>3. m \in 1 .. Len(edges) /\ m + 1 \in 1 .. Len(edges) <=> m \in 1 .. Len(edges) - 1
    BY <1>1
  <2> QED BY <2>2, <2>3
<1>4. \A b \in 1 .. num_threads - 1 :
        BoundAt(b) \in run /\ BoundAt(b) + 1 \in run <=> Split(b) /\ Src(BoundAt(b)) = Src(i)
  <2> TAKE b \in 1 .. num_threads - 1
  <2>1. BoundAt(b) \in Nat
    BY <1>2
  <2> HIDE DEF run
  <2> QED BY <1>3, <2>1 DEF Split
<1>5. BoundsWithin(F, Src(i)) =
        {b \in 1 .. num_threads - 1 : BoundAt(b) \in run /\ BoundAt(b) + 1 \in run}
  BY <1>1 DEF BoundsWithin, BoundAt
<1> HIDE DEF run
<1> QED BY <1>4, <1>5 DEF Bounds

(* When all threads are done, a run with no bound inside it has been applied *)
(* once, and every other run as often as it has bounds inside it.            *)
LEMMA AppliedAtEnd ==
  ASSUME FiniteSetFacts, Running, Filtered, NEW i \in Pos
  PROVE  Applied(i) <=> Deletes(SFs[todo], Src(i))
<1> DEFINE F == SFs[todo]
<1>1. num_threads \in Nat \ {0} /\ 0 \in Thread
  BY DEF Running, FilterTypes, Thread
<1>2. /\ F \in SUBSET Edge /\ edges = get_sorted_adjacency(F) /\ Len(edges) \in Nat
  BY <1>1, RunningFacts
<1>3. BoundsWithin(F, Src(i)) = Bounds(i)
  BY <1>1, <1>2, BoundsAreWithin
<1>4. CASE Bounds(i) = {}
  <2>1. i \in 0 .. Len(edges) - 1
    BY DEF Pos
  <2>2. PICK t \in Thread : BoundAt(t) <= i /\ i < BoundAt(t + 1)
    BY <1>1, <1>2, <2>1, BoundsAround DEF BoundAt, Thread
  <2>3. ~(Split(t) /\ Src(i) = Src(BoundAt(t)))
    <3>1. Split(t) => t \in 1 .. num_threads - 1
      BY RunningFacts
    <3> QED BY <1>4, <3>1 DEF Bounds
  <2>4. ~(Split(t + 1) /\ Src(i) = Src(BoundAt(t + 1)))
    <3>1. Split(t + 1) => t + 1 \in 1 .. num_threads - 1
      BY RunningFacts
    <3> QED BY <1>4, <3>1 DEF Bounds
  <2>5. BoundAt(t) \in Nat /\ i \in Int
    BY <1>2, RunningFacts DEF Pos
  <2>6. AboveLeft(t, i) /\ BelowRight(t, i)
    BY <2>2, <2>3, <2>4, <2>5 DEF AboveLeft, BelowRight
  <2>7. pc[t] = "done" /\ ThreadInv(t) /\ start[t] \in Nat /\ end[t] \in Nat
    BY DEF Filtered, Running, FilterInv, FilterTypes
  <2>8. i < start[t]
    <3>1. i < end[t] /\ start[t] >= end[t]
      BY <2>6, <2>7 DEF ThreadInv
    <3> QED BY <2>5, <2>7, <3>1
  <2>9. InMiddle(t, i)
    BY <2>6, <2>7, <2>8 DEF InMiddle
  <2> QED BY <1>3, <1>4, <2>9 DEF Applied, Deletes
<1>5. CASE Bounds(i) # {}
  <2>1. \A b \in Bounds(i) : b \in Thread /\ b - 1 \in Thread
    BY <1>1 DEF Bounds, Thread
  <2>2. Crossed(i) = Bounds(i)
    BY <2>1 DEF Crossed, Filtered
  <2> QED BY <1>3, <1>5, <2>2 DEF Applied, Deletes
<1> QED BY <1>4, <1>5

(* What filter_sf_edges has done to the sketches when all threads are done.  *)
LEMMA FilterDone ==
  ASSUME FiniteSetFacts, Running, Filtered
  PROVE  \A v \in Node : sketches[graph_id][v] =
           IF Deletes(SFs[todo], v) THEN Toggle(before[v], Incident(SFs[todo], v)) ELSE before[v]
<1> DEFINE F == SFs[todo]
<1>1. num_threads \in Nat \ {0} /\ 0 \in Thread
  BY DEF Running, FilterTypes, Thread
<1>2. /\ F \in SUBSET Edge /\ edges = get_sorted_adjacency(F)
  BY <1>1, RunningFacts
<1> TAKE v \in Node
<1>3. sketches[graph_id][v] \in SUBSET Edge /\ before[v] \in SUBSET Edge
  BY DEF Running, FilterTypes
<1>4. EffectInv
  BY DEF Running, FilterInv
<1>5. ASSUME NEW e \in Edge
      PROVE  e \in sketches[graph_id][v]
               <=> ~(e \in before[v] <=> Deletes(F, v) /\ e \in Incident(F, v))
  <2>1. CASE e \in Incident(F, v)
    <3>1. PICK i \in Pos : Src(i) = v /\ AtPosition(i) = e
      BY <1>2, <2>1, Positions
    <3>2. Applied(i) <=> Deletes(F, v)
      BY <3>1, AppliedAtEnd
    <3>3. AtPosition(i) \in sketches[graph_id][Src(i)]
            <=> ~(AtPosition(i) \in before[Src(i)] <=> Applied(i))
      BY <1>4 DEF EffectInv
    <3> QED BY <2>1, <3>1, <3>2, <3>3
  <2>2. CASE e \notin Incident(F, v)
    BY <1>4, <2>2 DEF EffectInv
  <2> QED BY <2>1, <2>2
<1>6. Incident(F, v) \in SUBSET Edge
  BY <1>2 DEF Incident
<1> QED BY <1>3, <1>5, <1>6 DEF Toggle

(* Threads that hold no mutex hold none after a step that moves none to a    *)
(* locked loop.                                                              *)
LEMMA MutexIdle ==
  ASSUME MutexInv, UNCHANGED <<num_threads, mutex>>, \A t \in Thread : pc[t] = "done"
  PROVE  MutexInv'
<1>1. \A v \in Node, t \in Thread : mutex[v] # t
  BY DEF MutexInv
<1>2. Thread' = Thread
  BY DEF Thread
<1> QED BY <1>1, <1>2 DEF MutexInv

(* filter_sf_edges is called.                                                *)
LEMMA StartMoves ==
  ASSUME FiniteSetFacts, FilterTypes, NEW F \in SUBSET Edge, StartThreads(F), MutexInv,
         \A t \in Thread : pc[t] = "done", UNCHANGED <<num_threads, sketches, graph_id>>
  PROVE  /\ MutexInv' /\ EffectInv' /\ \A t \in Thread' : ThreadInv(t)'
         /\ edges' = get_sorted_adjacency(F)
         /\ start' \in [Thread' -> Nat] /\ end' \in [Thread' -> Nat]
         /\ pc' \in [Thread' -> Places] /\ mutex' \in [Node -> Int]
         /\ before' = sketches[graph_id] /\ before' \in [Node -> SUBSET Edge]
<1>1. MutexInv' /\ mutex' \in [Node -> Int]
  BY MutexIdle DEF StartThreads, FilterTypes
<1>2. Thread' = Thread /\ num_threads \in Nat \ {0}
  BY DEF Thread, FilterTypes
<1>3. edges' = get_sorted_adjacency(F) /\ Len(edges') \in Nat
  BY SortedAdjacency DEF StartThreads
<1>4. \A t \in Thread : t \in Nat /\ t + 1 \in Nat
  BY <1>2 DEF Thread
<1>5. \A b \in Nat : Bound(Len(edges'), b, num_threads) \in Nat
  BY <1>2, <1>3, BoundsRise
<1>6. /\ start' = [t \in Thread |-> Bound(Len(edges'), t, num_threads)]
      /\ end' = [t \in Thread |-> Bound(Len(edges'), t + 1, num_threads)]
      /\ pc' = [t \in Thread |-> "left"] /\ before' = sketches[graph_id]
  BY DEF StartThreads
<1>7. start' \in [Thread -> Nat] /\ end' \in [Thread -> Nat] /\ pc' \in [Thread -> Places]
  BY <1>4, <1>5, <1>6 DEF Places
<1>8. \A t \in Thread : ThreadInv(t)'
  BY <1>6 DEF ThreadInv, BoundAt
<1>9. before' \in [Node -> SUBSET Edge]
  BY <1>6 DEF FilterTypes
<1>10. \A i \in Pos' : ~Applied(i)'
  <2> TAKE i \in Pos'
  <2>1. \A b \in Bounds(i)' : b \in Thread /\ b - 1 \in Thread
    BY <1>2 DEF Bounds, Thread
  <2>2. Crossed(i)' = {}
    BY <1>6, <2>1 DEF Crossed
  <2>3. ~Odd(Crossed(i))'
    BY <2>2, OddEmpty DEF Odd
  <2>4. \A t \in Thread : ~InMiddle(t, i)'
    BY <1>6 DEF InMiddle
  <2> QED BY <1>2, <2>3, <2>4 DEF Applied
<1>11. EffectInv'
  BY <1>6, <1>10 DEF EffectInv
<1> QED BY <1>1, <1>2, <1>3, <1>6, <1>7, <1>8, <1>9, <1>11
==============================================================================
