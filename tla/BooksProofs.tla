---------------------------- MODULE BooksProofs -----------------------------
(***************************************************************************)
(* Proofs about the ledger, for every set of accounts, tickers, order      *)
(* sizes, prices and amounts, about the fill of a market order at the      *)
(* open, about the allocation of a budget and about the collection of      *)
(* quotes.                                                                 *)
(***************************************************************************)
EXTENDS Ledger, MarketOnOpen, Allocation, Collector, AccountProofs, Functions, FiniteSetTheorems

-----------------------------------------------------------------------------
(***************************************************************************)
(* Sums over a finite set.  SumFunctionOnSet is a recursive function on    *)
(* the subsets of the set, which exists because the set is finite; what    *)
(* satisfies its equation is it, so that what the sum of a sum, of a       *)
(* multiple or of a single value is can be read off the equation.          *)
(***************************************************************************)
Some(s) == CHOOSE x \in s : TRUE

IsSum(f, T, sum) ==
  /\ sum \in [SUBSET T -> Int]
  /\ \A s \in SUBSET T : sum[s] = IF s = {} THEN 0 ELSE f[Some(s)] + sum[s \ {Some(s)}]

IsFold(base, next, T, g) ==
  \A s \in SUBSET T : g[s] = IF s = {} THEN base ELSE next[s][g[s \ {Some(s)}]]

(* The element chosen from a set is one of its elements.                   *)
LEMMA SomeFact ==
  ASSUME NEW T, NEW s \in SUBSET T, s # {}
  PROVE  Some(s) \in s /\ Some(s) \in T
BY DEF Some

(* A set without the element chosen from it is smaller.                    *)
LEMMA SmallerWithout ==
  ASSUME NEW T, IsFiniteSet(T), NEW s \in SUBSET T, NEW x \in s
  PROVE  /\ Cardinality(s) \in Nat /\ Cardinality(s \ {x}) \in Nat
         /\ Cardinality(s \ {x}) = Cardinality(s) - 1
         /\ s \ {x} \in SUBSET T
BY FS_Subset, FS_CardinalityType, FS_RemoveElement

(* Induction over numbers, for what can be said of them as a set.          *)
LEMMA NumberInduction ==
  ASSUME NEW good, 0 \in good, \A n \in Nat : n \in good => n + 1 \in good
  PROVE  \A n \in Nat : n \in good
<1> DEFINE bad == {n \in Nat : n \notin good}
<1>1. CASE bad # {}
  <2>1. bad \in SUBSET Nat
    OBVIOUS
  <2>2. PICK n \in bad : \A m \in bad : n <= m
    <3> HIDE DEF bad
    <3>1. QED BY <1>1, <2>1, MinFact
  <2>3. n \in Nat /\ n # 0
    BY <2>2
  <2>4. n - 1 \in Nat /\ (n - 1) + 1 = n /\ ~(n <= n - 1)
    BY <2>3
  <2>5. n - 1 \in good
    BY <2>2, <2>4
  <2>6. (n - 1) + 1 \in good
    BY <2>4, <2>5
  <2>7. QED BY <2>2, <2>4, <2>6
<1>2. QED BY <1>1

(* Induction over the subsets of a finite set: one element less at a time. *)
LEMMA SubsetInduction ==
  ASSUME NEW T, IsFiniteSet(T), NEW good, {} \in good,
         \A s \in SUBSET T : s # {} /\ s \ {Some(s)} \in good => s \in good
  PROVE  \A s \in SUBSET T : s \in good
<1> DEFINE sizes == {n \in Nat : \A s \in SUBSET T : Cardinality(s) <= n => s \in good}
<1>1. \A s \in SUBSET T : IsFiniteSet(s) /\ Cardinality(s) \in Nat
  BY FS_Subset, FS_CardinalityType
<1>2. 0 \in sizes
  <2>1. \A s \in SUBSET T : Cardinality(s) <= 0 => s = {}
    BY <1>1, FS_EmptySet
  <2>2. QED BY <2>1
<1>3. ASSUME NEW n \in Nat, n \in sizes
      PROVE  n + 1 \in sizes
  <2>1. ASSUME NEW s \in SUBSET T, Cardinality(s) <= n + 1, s # {}
        PROVE  s \in good
    <3>1. Some(s) \in s
      BY <2>1, SomeFact
    <3>2. /\ Cardinality(s) \in Nat /\ Cardinality(s \ {Some(s)}) \in Nat
          /\ Cardinality(s \ {Some(s)}) = Cardinality(s) - 1 /\ s \ {Some(s)} \in SUBSET T
      BY <3>1, SmallerWithout
    <3>3. Cardinality(s \ {Some(s)}) <= n
      BY <2>1, <3>2
    <3>4. QED BY <1>3, <2>1, <3>2, <3>3
  <2>2. QED BY <2>1
<1>4. \A n \in Nat : n \in sizes
  <2> HIDE DEF sizes
  <2>1. \A n \in Nat : n \in sizes => n + 1 \in sizes
    BY <1>3
  <2>2. QED BY ONLY <1>2, <2>1, NumberInduction
<1>5. ASSUME NEW s \in SUBSET T
      PROVE  s \in good
  <2>1. PICK n \in Nat : n = Cardinality(s)
    BY <1>1
  <2>2. n <= n
    OBVIOUS
  <2>3. QED BY <1>4, <2>1, <2>2
<1>6. QED BY <1>5

(* Recursion over the subsets of a finite set has a solution.              *)
LEMMA FoldExists ==
  ASSUME NEW T, IsFiniteSet(T), NEW base \in Int, NEW next,
         \A s \in SUBSET T : s # {} => \A v \in Int : next[s][v] \in Int
  PROVE  \E g \in [SUBSET T -> Int] : IsFold(base, next, T, g)
<1> DEFINE upTo(n) == {s \in SUBSET T : Cardinality(s) <= n}
           folded(n) == \E g \in [upTo(n) -> Int] :
                          \A s \in upTo(n) :
                            g[s] = IF s = {} THEN base ELSE next[s][g[s \ {Some(s)}]]
<1>1. \A s \in SUBSET T : IsFiniteSet(s) /\ Cardinality(s) \in Nat
  BY FS_Subset, FS_CardinalityType
<1>2. folded(0)
  <2>1. \A s \in upTo(0) : s = {}
    BY <1>1, FS_EmptySet
  <2>2. PICK g : g = [s \in upTo(0) |-> base]
    OBVIOUS
  <2>3. g \in [upTo(0) -> Int] /\ \A s \in upTo(0) : g[s] = base
    BY <2>2
  <2>4. QED BY <2>1, <2>3
<1>3. ASSUME NEW n \in Nat, folded(n)
      PROVE  folded(n + 1)
  <2>1. PICK g \in [upTo(n) -> Int] :
          \A s \in upTo(n) :
            g[s] = IF s = {} THEN base ELSE next[s][g[s \ {Some(s)}]]
    BY <1>3
  <2>2. PICK more : more = [s \in upTo(n + 1) |->
                              IF s \in upTo(n) THEN g[s]
                                               ELSE next[s][g[s \ {Some(s)}]]]
    OBVIOUS
  <2>3. ASSUME NEW s \in upTo(n + 1)
        PROVE  /\ s = {} => s \in upTo(n)
               /\ s # {} => /\ s \ {Some(s)} \in upTo(n) /\ s \ {Some(s)} \in upTo(n + 1)
                            /\ \A v \in Int : next[s][v] \in Int
    <3>1. CASE s = {}
      BY <3>1, FS_EmptySet
    <3>2. CASE s # {}
      <4>1. Some(s) \in s /\ Some(s) \in T
        BY <3>2, SomeFact
      <4>2. /\ Cardinality(s) \in Nat /\ Cardinality(s \ {Some(s)}) \in Nat
            /\ Cardinality(s \ {Some(s)}) = Cardinality(s) - 1
            /\ s \ {Some(s)} \in SUBSET T
        BY <4>1, SmallerWithout
      <4>3. QED BY <3>2, <4>1, <4>2
    <3>3. QED BY <3>1, <3>2
  <2>4. \A s \in upTo(n) : s \in upTo(n + 1)
    BY <1>1
  <2> HIDE DEF upTo
  <2>5. \A s \in upTo(n + 1) : more[s] \in Int
    BY <2>1, <2>2, <2>3
  <2>6. more \in [upTo(n + 1) -> Int]
    BY <2>2, <2>5
  <2>7. ASSUME NEW s \in upTo(n + 1)
        PROVE  more[s] = IF s = {} THEN base ELSE next[s][more[s \ {Some(s)}]]
    <3>1. s # {} => more[s \ {Some(s)}] = g[s \ {Some(s)}]
      BY <2>2, <2>3
    <3>2. CASE s \in upTo(n)
      BY <2>1, <2>2, <3>1, <3>2
    <3>3. CASE s \notin upTo(n)
      BY <2>2, <2>3, <3>1, <3>3
    <3>4. QED BY <3>2, <3>3
  <2>8. QED BY <2>6, <2>7
<1>4. folded(Cardinality(T))
  <2> HIDE DEF folded
  <2>1. PICK good : good = {n \in Nat : folded(n)}
    OBVIOUS
  <2>2. 0 \in good /\ \A n \in Nat : n \in good => n + 1 \in good
    BY <1>2, <1>3, <2>1
  <2>3. \A n \in Nat : n \in good
    BY ONLY <2>2, NumberInduction
  <2>4. QED BY <1>1, <2>1, <2>3
<1>5. upTo(Cardinality(T)) = SUBSET T
  <2>1. \A s \in SUBSET T : Cardinality(s) <= Cardinality(T)
    BY FS_Subset
  <2>2. QED BY <2>1
<1> HIDE DEF upTo
<1>6. QED BY <1>4, <1>5 DEF IsFold

(* Every sum of integers exists.                                           *)
LEMMA SumExists ==
  ASSUME NEW T, IsFiniteSet(T), NEW f, \A x \in T : f[x] \in Int
  PROVE  \E sum : IsSum(f, T, sum)
<1>1. PICK next : next = [s \in SUBSET T |-> [v \in Int |-> f[Some(s)] + v]]
  OBVIOUS
<1>2. \A s \in SUBSET T : \A v \in Int : next[s][v] = f[Some(s)] + v
  BY <1>1
<1>3. ASSUME NEW s \in SUBSET T, s # {}
      PROVE  \A v \in Int : next[s][v] \in Int
  <2>1. f[Some(s)] \in Int
    BY <1>3, SomeFact
  <2>2. QED BY <1>2, <2>1
<1>4. PICK g \in [SUBSET T -> Int] : IsFold(0, next, T, g)
  <2>1. \A s \in SUBSET T : s # {} => \A v \in Int : next[s][v] \in Int
    BY <1>3
  <2>2. 0 \in Int
    OBVIOUS
  <2>3. QED BY ONLY IsFiniteSet(T), <2>1, <2>2, FoldExists
<1>5. ASSUME NEW s \in SUBSET T
      PROVE  g[s] = IF s = {} THEN 0 ELSE f[Some(s)] + g[s \ {Some(s)}]
  <2>1. s \ {Some(s)} \in SUBSET T
    OBVIOUS
  <2>2. g[s \ {Some(s)}] \in Int
    BY <1>4, <2>1
  <2>3. next[s][g[s \ {Some(s)}]] = f[Some(s)] + g[s \ {Some(s)}]
    BY <1>2, <2>2
  <2>4. g[s] = IF s = {} THEN 0 ELSE next[s][g[s \ {Some(s)}]]
    BY <1>4 DEF IsFold
  <2>5. QED BY <2>3, <2>4
<1>6. QED BY <1>4, <1>5 DEF IsSum

(* What satisfies the equation of a sum is the sum.                        *)
LEMMA SumUnique ==
  ASSUME NEW T, IsFiniteSet(T), NEW f, NEW g, NEW sum, IsSum(f, T, sum),
         \A s \in SUBSET T : g[s] = IF s = {} THEN 0 ELSE f[Some(s)] + g[s \ {Some(s)}]
  PROVE  \A s \in SUBSET T : g[s] = sum[s]
<1> DEFINE good == {s \in SUBSET T : g[s] = sum[s]}
<1>1. {} \in good
  <2>1. {} \in SUBSET T
    OBVIOUS
  <2>2. QED BY <2>1 DEF IsSum
<1>2. ASSUME NEW s \in SUBSET T, s # {}, s \ {Some(s)} \in good
      PROVE  s \in good
  BY <1>2 DEF IsSum
<1>3. \A s \in SUBSET T : s \in good
  <2>1. \A s \in SUBSET T : s # {} /\ s \ {Some(s)} \in good => s \in good
    BY <1>2
  <2> HIDE DEF good
  <2>2. QED BY ONLY IsFiniteSet(T), <1>1, <2>1, SubsetInduction
<1>4. QED BY <1>3

(* The sum is what its equation says.                                      *)
LEMMA SumIs ==
  ASSUME NEW T, IsFiniteSet(T), NEW f, NEW sum, IsSum(f, T, sum)
  PROVE  SumFunctionOnSet(f, T) = sum[T] /\ sum[T] \in Int
<1> DEFINE Solves(g) ==
             g = [s \in SUBSET T |-> IF s = {} THEN 0 ELSE f[Some(s)] + g[s \ {Some(s)}]]
<1>1. Solves(sum)
  BY DEF IsSum
<1>2. PICK g : g = (CHOOSE h : Solves(h)) /\ Solves(g)
  BY <1>1
<1>3. \A s \in SUBSET T : g[s] = IF s = {} THEN 0 ELSE f[Some(s)] + g[s \ {Some(s)}]
  BY <1>2
<1> HIDE DEF Solves
<1>4. g[T] = sum[T]
  <2>1. \A s \in SUBSET T : g[s] = sum[s]
    BY ONLY IsFiniteSet(T), IsSum(f, T, sum), <1>3, SumUnique
  <2>2. QED BY <2>1
<1>5. SumFunctionOnSet(f, T) = (CHOOSE h : Solves(h))[T]
  BY DEF Solves, SumFunctionOnSet, FoldFunctionOnSet, MapThenFoldSet, Some
<1>6. sum[T] \in Int
  BY DEF IsSum
<1>7. QED BY <1>2, <1>4, <1>5, <1>6

(* Nothing adds up to nothing.                                             *)
LEMMA EmptySum ==
  ASSUME NEW T, NEW f, NEW sum, IsSum(f, T, sum)
  PROVE  sum[{}] = 0
<1>1. {} \in SUBSET T
  OBVIOUS
<1>2. QED BY <1>1 DEF IsSum

(* The sum of integers is an integer.                                      *)
LEMMA SumType ==
  ASSUME NEW T, IsFiniteSet(T), NEW f, \A x \in T : f[x] \in Int
  PROVE  SumFunctionOnSet(f, T) \in Int
BY SumExists, SumIs

(* A sum depends on the values that are added only.                        *)
LEMMA SumSame ==
  ASSUME NEW T, IsFiniteSet(T), NEW f, NEW g,
         \A x \in T : f[x] \in Int, \A x \in T : g[x] = f[x]
  PROVE  SumFunctionOnSet(g, T) = SumFunctionOnSet(f, T)
<1>1. PICK sum : IsSum(f, T, sum)
  BY SumExists
<1>2. \A s \in SUBSET T : s # {} => g[Some(s)] = f[Some(s)]
  BY SomeFact
<1>3. IsSum(g, T, sum)
  BY <1>1, <1>2 DEF IsSum
<1>4. QED BY <1>1, <1>3, SumIs

(* A sum of smaller values is smaller.                                     *)
LEMMA SumMonotone ==
  ASSUME NEW T, IsFiniteSet(T), NEW f, NEW g,
         \A x \in T : f[x] \in Int, \A x \in T : g[x] \in Int, \A x \in T : f[x] <= g[x]
  PROVE  SumFunctionOnSet(f, T) <= SumFunctionOnSet(g, T)
<1>1. PICK few : IsSum(f, T, few)
  BY SumExists
<1>2. PICK many : IsSum(g, T, many)
  BY SumExists
<1> DEFINE good == {s \in SUBSET T : few[s] <= many[s]}
<1>3. {} \in good
  <2>1. few[{}] = 0 /\ many[{}] = 0
    BY <1>1, <1>2, EmptySum
  <2>2. QED BY <2>1
<1>4. ASSUME NEW s \in SUBSET T, s # {}, s \ {Some(s)} \in good
      PROVE  s \in good
  <2>1. PICK rest \in SUBSET T : rest = s \ {Some(s)}
    OBVIOUS
  <2>2. PICK x \in T : x = Some(s)
    BY <1>4, SomeFact
  <2>3. few[s] = f[x] + few[rest] /\ many[s] = g[x] + many[rest]
    BY <1>1, <1>2, <1>4, <2>1, <2>2 DEF IsSum
  <2>4. few[rest] \in Int /\ many[rest] \in Int /\ few[rest] <= many[rest]
    BY <1>1, <1>2, <1>4, <2>1 DEF IsSum
  <2>5. QED BY <2>2, <2>3, <2>4
<1>5. \A s \in SUBSET T : s \in good
  <2>1. \A s \in SUBSET T : s # {} /\ s \ {Some(s)} \in good => s \in good
    BY <1>4
  <2> HIDE DEF good
  <2>2. QED BY ONLY IsFiniteSet(T), <1>3, <2>1, SubsetInduction
<1>6. few[T] <= many[T]
  BY <1>5
<1>7. QED BY <1>1, <1>2, <1>6, SumIs

(* A sum of multiples is the multiple of the sum.                          *)
LEMMA SumScales ==
  ASSUME NEW T, IsFiniteSet(T), NEW f, NEW g, NEW c \in Int,
         \A x \in T : f[x] \in Int, \A x \in T : g[x] = c * f[x]
  PROVE  SumFunctionOnSet(g, T) = c * SumFunctionOnSet(f, T)
<1>1. PICK sum : IsSum(f, T, sum)
  BY SumExists
<1>2. PICK times : times = [s \in SUBSET T |-> c * sum[s]]
  OBVIOUS
<1>3. \A s \in SUBSET T : sum[s] \in Int
  BY <1>1 DEF IsSum
<1>4. ASSUME NEW s \in SUBSET T, s # {}
      PROVE  times[s] = g[Some(s)] + times[s \ {Some(s)}]
  <2>1. PICK rest \in SUBSET T : rest = s \ {Some(s)}
    OBVIOUS
  <2>2. PICK x \in T : x = Some(s)
    BY <1>4, SomeFact
  <2>3. sum[s] = f[x] + sum[rest]
    BY <1>1, <1>4, <2>1, <2>2 DEF IsSum
  <2>4. c * sum[s] = c * f[x] + c * sum[rest]
    <3>1. PICK a \in Int, b \in Int : a = f[x] /\ b = sum[rest]
      BY <1>3, <2>1, <2>2
    <3>2. c * (a + b) = c * a + c * b
      OBVIOUS
    <3>3. QED BY <2>3, <3>1, <3>2
  <2>5. g[x] = c * f[x]
    BY <2>2
  <2>6. QED BY <1>2, <2>1, <2>2, <2>4, <2>5
<1>5. times[{}] = 0
  <2>1. sum[{}] = 0
    BY <1>1, EmptySum
  <2>2. QED BY <1>2, <2>1
<1>6. times \in [SUBSET T -> Int]
  BY <1>2, <1>3
<1>7. IsSum(g, T, times)
  BY <1>4, <1>5, <1>6 DEF IsSum
<1>8. times[T] = c * sum[T]
  BY <1>2
<1>9. QED BY <1>1, <1>7, <1>8, SumIs

(* A sum of sums is the sum of both.                                       *)
LEMMA SumAdds ==
  ASSUME NEW T, IsFiniteSet(T), NEW f, NEW g, NEW h,
         \A x \in T : f[x] \in Int, \A x \in T : g[x] \in Int,
         \A x \in T : h[x] = f[x] + g[x]
  PROVE  SumFunctionOnSet(h, T) = SumFunctionOnSet(f, T) + SumFunctionOnSet(g, T)
<1>1. PICK one : IsSum(f, T, one)
  BY SumExists
<1>2. PICK two : IsSum(g, T, two)
  BY SumExists
<1>3. PICK both : both = [s \in SUBSET T |-> one[s] + two[s]]
  OBVIOUS
<1>4. \A s \in SUBSET T : one[s] \in Int /\ two[s] \in Int
  BY <1>1, <1>2 DEF IsSum
<1>5. ASSUME NEW s \in SUBSET T, s # {}
      PROVE  both[s] = h[Some(s)] + both[s \ {Some(s)}]
  <2>1. PICK rest \in SUBSET T : rest = s \ {Some(s)}
    OBVIOUS
  <2>2. PICK x \in T : x = Some(s)
    BY <1>5, SomeFact
  <2>3. one[s] = f[x] + one[rest] /\ two[s] = g[x] + two[rest]
    BY <1>1, <1>2, <1>5, <2>1, <2>2 DEF IsSum
  <2>4. both[s] = one[s] + two[s] /\ both[rest] = one[rest] + two[rest] /\ h[x] = f[x] + g[x]
    BY <1>3, <2>1, <2>2
  <2>5. f[x] \in Int /\ g[x] \in Int /\ one[rest] \in Int /\ two[rest] \in Int
    BY <1>4, <2>1, <2>2
  <2>6. QED BY <2>1, <2>2, <2>3, <2>4, <2>5
<1>6. both[{}] = 0
  <2>1. one[{}] = 0 /\ two[{}] = 0
    BY <1>1, <1>2, EmptySum
  <2>2. QED BY <1>3, <2>1
<1>7. both \in [SUBSET T -> Int]
  BY <1>3, <1>4
<1>8. IsSum(h, T, both)
  BY <1>5, <1>6, <1>7 DEF IsSum
<1>9. both[T] = one[T] + two[T]
  BY <1>3
<1>10. QED BY <1>1, <1>2, <1>8, <1>9, SumIs

(* What is nothing everywhere adds up to nothing.                          *)
LEMMA SumOfNothing ==
  ASSUME NEW T, IsFiniteSet(T), NEW f, \A x \in T : f[x] = 0
  PROVE  SumFunctionOnSet(f, T) = 0
<1>1. PICK sum : sum = [s \in SUBSET T |-> 0]
  OBVIOUS
<1>2. ASSUME NEW s \in SUBSET T, s # {}
      PROVE  sum[s] = f[Some(s)] + sum[s \ {Some(s)}]
  <2>1. s \ {Some(s)} \in SUBSET T /\ f[Some(s)] = 0
    BY <1>2, SomeFact
  <2>2. QED BY <1>1, <2>1
<1>3. sum \in [SUBSET T -> Int] /\ sum[{}] = 0
  BY <1>1
<1>4. IsSum(f, T, sum)
  BY <1>2, <1>3 DEF IsSum
<1>5. QED BY <1>1, <1>4, SumIs

(* A sum grows by what one of its members grows by.                        *)
LEMMA SumGrows ==
  ASSUME NEW T, IsFiniteSet(T), NEW f, \A x \in T : f[x] \in Int,
         NEW t \in T, NEW d \in Int, NEW g, g = [x \in T |-> IF x = t THEN f[x] + d ELSE f[x]]
  PROVE  SumFunctionOnSet(g, T) = SumFunctionOnSet(f, T) + d
<1>1. PICK sum : IsSum(f, T, sum)
  BY SumExists
<1>2. PICK more : more = [s \in SUBSET T |-> IF t \in s THEN sum[s] + d ELSE sum[s]]
  OBVIOUS
<1>3. \A s \in SUBSET T : sum[s] \in Int
  BY <1>1 DEF IsSum
<1>4. more \in [SUBSET T -> Int]
  BY <1>2, <1>3
<1>5. ASSUME NEW s \in SUBSET T
      PROVE  more[s] = IF s = {} THEN 0 ELSE g[Some(s)] + more[s \ {Some(s)}]
  <2>1. CASE s = {}
    BY <1>1, <1>2, <2>1 DEF IsSum
  <2>2. CASE s # {}
    <3>1. PICK x \in s : x = Some(s) /\ x \in T
      BY <2>2, SomeFact
    <3>2. PICK rest \in SUBSET T : rest = s \ {x}
      OBVIOUS
    <3>3. sum[s] = f[x] + sum[rest] /\ sum[rest] \in Int /\ sum[s] \in Int /\ f[x] \in Int
      BY <1>1, <1>3, <2>2, <3>1, <3>2 DEF IsSum
    <3>4. more[s] = g[x] + more[rest]
      <4>1. CASE x = t
        <5>1. t \in s /\ t \notin rest /\ g[x] = f[x] + d
          BY <3>1, <3>2, <4>1
        <5>2. QED BY <1>2, <3>3, <5>1
      <4>2. CASE x # t
        <5>1. (t \in s <=> t \in rest) /\ g[x] = f[x]
          BY <3>1, <3>2, <4>2
        <5>2. QED BY <1>2, <3>3, <5>1
      <4>3. QED BY <4>1, <4>2
    <3>5. QED BY <2>2, <3>1, <3>2, <3>4
  <2>3. QED BY <2>1, <2>2
<1>6. IsSum(g, T, more)
  BY <1>4, <1>5 DEF IsSum
<1>7. more[T] = sum[T] + d
  BY <1>2
<1>8. QED BY <1>1, <1>6, <1>7, SumIs

(* No member of a sum of naturals exceeds it.                              *)
LEMMA SumCovers ==
  ASSUME NEW T, IsFiniteSet(T), NEW f, \A x \in T : f[x] \in Nat, NEW t \in T
  PROVE  f[t] <= SumFunctionOnSet(f, T)
<1>1. PICK g : g = [x \in T |-> IF x = t THEN 0 ELSE f[x]]
  OBVIOUS
<1>2. PICK none : none = [x \in T |-> 0]
  OBVIOUS
<1>3. SumFunctionOnSet(none, T) = 0
  BY <1>2, SumOfNothing
<1>4. \A x \in T : g[x] \in Int /\ none[x] \in Int /\ none[x] <= g[x]
  BY <1>1, <1>2
<1>5. 0 <= SumFunctionOnSet(g, T)
  BY <1>3, <1>4, SumMonotone
<1>6. PICK d \in Int : d = f[t]
  OBVIOUS
<1>7. PICK again : again = [x \in T |-> IF x = t THEN g[x] + d ELSE g[x]]
  OBVIOUS
<1>8. SumFunctionOnSet(again, T) = SumFunctionOnSet(g, T) + d
  BY <1>4, <1>6, <1>7, SumGrows
<1>9. \A x \in T : again[x] = f[x]
  BY <1>1, <1>6, <1>7
<1>10. SumFunctionOnSet(again, T) = SumFunctionOnSet(f, T)
  BY <1>9, SumSame
<1>11. SumFunctionOnSet(g, T) \in Int
  BY <1>4, SumType
<1>12. QED BY <1>5, <1>6, <1>8, <1>10, <1>11

(* The last value added to a sum can be any of its values.                 *)
LEMMA SumFromAny ==
  ASSUME NEW T, IsFiniteSet(T), NEW f, NEW sum, IsSum(f, T, sum), \A x \in T : f[x] \in Int
  PROVE  \A s \in SUBSET T, x \in T : x \in s => sum[s] = f[x] + sum[s \ {x}]
<1> DEFINE sizes == {n \in Nat : \A s \in SUBSET T : Cardinality(s) <= n =>
                                    \A x \in s : sum[s] = f[x] + sum[s \ {x}]}
<1>1. \A s \in SUBSET T : IsFiniteSet(s) /\ Cardinality(s) \in Nat
  BY FS_Subset, FS_CardinalityType
<1>2. 0 \in sizes
  <2>1. \A s \in SUBSET T : Cardinality(s) <= 0 => s = {}
    BY <1>1, FS_EmptySet
  <2>2. QED BY <2>1
<1>3. ASSUME NEW n \in Nat, n \in sizes
      PROVE  n + 1 \in sizes
  <2>1. ASSUME NEW s \in SUBSET T, Cardinality(s) <= n + 1, NEW x \in s
        PROVE  sum[s] = f[x] + sum[s \ {x}]
    <3>1. PICK y \in s : y = Some(s)
      BY SomeFact
    <3>2. sum[s] = f[y] + sum[s \ {y}]
      BY <3>1 DEF IsSum
    <3>3. CASE x # y
      <4>1. PICK r \in SUBSET T : r = s \ {y}
        OBVIOUS
      <4>2. PICK q \in SUBSET T : q = s \ {x}
        OBVIOUS
      <4>3. Cardinality(r) <= n /\ Cardinality(q) <= n
        BY <2>1, <4>1, <4>2, SmallerWithout
      <4>4. x \in r /\ y \in q /\ r \ {x} = q \ {y}
        BY <3>1, <3>3, <4>1, <4>2
      <4>5. sum[r] = f[x] + sum[r \ {x}]
        BY <1>3, <4>3, <4>4
      <4>6. sum[q] = f[y] + sum[q \ {y}]
        BY <1>3, <4>3, <4>4
      <4>7. PICK rest \in SUBSET T : rest = r \ {x}
        OBVIOUS
      <4>8. f[x] \in Int /\ f[y] \in Int /\ sum[rest] \in Int
        BY DEF IsSum
      <4>9. sum[s] = f[y] + sum[r] /\ sum[r] = f[x] + sum[rest] /\ sum[q] = f[y] + sum[rest]
        BY <3>2, <4>1, <4>4, <4>5, <4>6, <4>7
      <4>10. sum[s] = f[x] + sum[q]
        BY ONLY <4>8, <4>9
      <4>11. QED BY <4>2, <4>10
    <3>4. QED BY <3>1, <3>2, <3>3
  <2>2. QED BY <2>1
<1>4. \A n \in Nat : n \in sizes
  <2> HIDE DEF sizes
  <2>1. \A n \in Nat : n \in sizes => n + 1 \in sizes
    BY <1>3
  <2>2. QED BY ONLY <1>2, <2>1, NumberInduction
<1>5. ASSUME NEW s \in SUBSET T
      PROVE  \A x \in s : sum[s] = f[x] + sum[s \ {x}]
  <2>1. PICK n \in Nat : n = Cardinality(s)
    BY <1>1
  <2>2. n <= n
    OBVIOUS
  <2>3. QED BY <1>4, <2>1, <2>2
<1>6. QED BY <1>5

(* The sum of the values outside a set is the sum in which the set counts  *)
(* for nothing.                                                            *)
LEMMA SumWithout ==
  ASSUME NEW T, IsFiniteSet(T), NEW f, \A x \in T : f[x] \in Int, NEW S,
         NEW z, z = [x \in T |-> IF x \in S THEN 0 ELSE f[x]]
  PROVE  SumFunctionOnSet(Restrict(f, T \ S), T \ S) = SumFunctionOnSet(z, T)
<1>1. PICK sum : IsSum(f, T, sum)
  BY SumExists
<1>2. \A s \in SUBSET T, x \in T : x \in s => sum[s] = f[x] + sum[s \ {x}]
  BY ONLY IsFiniteSet(T), \A x \in T : f[x] \in Int, <1>1, SumFromAny
<1>3. \A s \in SUBSET T : sum[s] \in Int
  BY <1>1 DEF IsSum
<1>4. PICK out : out = [s \in SUBSET T |-> sum[s \ S]]
  OBVIOUS
<1>5. out \in [SUBSET T -> Int]
  <2>1. \A s \in SUBSET T : s \ S \in SUBSET T
    OBVIOUS
  <2>2. QED BY <1>3, <1>4, <2>1
<1>6. ASSUME NEW s \in SUBSET T, s # {}
      PROVE  out[s] = z[Some(s)] + out[s \ {Some(s)}]
  <2>1. PICK x \in s : x = Some(s) /\ x \in T
    BY <1>6, SomeFact
  <2>2. PICK rest \in SUBSET T : rest = s \ {x}
    OBVIOUS
  <2>3. out[s] = sum[s \ S] /\ out[rest] = sum[rest \ S]
    BY <1>4
  <2>4. PICK a \in SUBSET T, b \in SUBSET T : a = s \ S /\ b = rest \ S
    OBVIOUS
  <2>5. sum[b] \in Int
    BY <1>3
  <2>6. CASE x \in S
    <3>1. a = b /\ z[x] = 0
      BY <2>1, <2>2, <2>4, <2>6
    <3>2. out[s] = z[x] + out[rest]
      BY <2>3, <2>4, <2>5, <3>1
    <3>3. QED BY <2>1, <2>2, <3>2
  <2>7. CASE x \notin S
    <3>1. x \in a /\ b = a \ {x} /\ z[x] = f[x]
      BY <2>1, <2>2, <2>4, <2>7
    <3>2. sum[a] = f[x] + sum[b]
      BY <1>2, <3>1
    <3>3. QED BY <2>1, <2>2, <2>3, <2>4, <3>1, <3>2
  <2>8. QED BY <2>6, <2>7
<1>7. out[{}] = 0
  <2>1. sum[{}] = 0 /\ {} \ S = {}
    BY <1>1, EmptySum
  <2>2. QED BY <1>4, <2>1
<1>8. IsSum(z, T, out)
  BY <1>5, <1>6, <1>7 DEF IsSum
<1>9. SumFunctionOnSet(z, T) = sum[T \ S]
  <2>1. SumFunctionOnSet(z, T) = out[T]
    BY ONLY IsFiniteSet(T), <1>8, SumIs
  <2>2. T \in SUBSET T
    OBVIOUS
  <2>3. QED BY <1>4, <2>1, <2>2
<1>10. PICK U : U = T \ S
  OBVIOUS
<1>11. PICK part : part = [s \in SUBSET U |-> sum[s]]
  OBVIOUS
<1>12. IsFiniteSet(U) /\ U \in SUBSET T
  BY <1>10, FS_Subset
<1>13. ASSUME NEW s \in SUBSET U
       PROVE  part[s] \in Int /\ part[s] = IF s = {} THEN 0
                                           ELSE Restrict(f, U)[Some(s)] + part[s \ {Some(s)}]
  <2>1. part[s] = sum[s] /\ s \in SUBSET T
    BY <1>11, <1>12
  <2>2. CASE s = {}
    BY <1>1, <2>1, <2>2, EmptySum
  <2>3. CASE s # {}
    <3>1. PICK x \in s : x = Some(s) /\ x \in U
      BY <2>3, SomeFact
    <3>2. part[s \ {x}] = sum[s \ {x}] /\ Restrict(f, U)[x] = f[x]
      BY <1>11, <3>1 DEF Restrict
    <3>3. sum[s] = f[x] + sum[s \ {x}]
      BY <1>2, <2>1
    <3>4. QED BY <1>3, <2>1, <2>3, <3>1, <3>2, <3>3
  <2>4. QED BY <2>2, <2>3
<1>14. part \in [SUBSET U -> Int]
  BY <1>11, <1>13
<1>15. IsSum(Restrict(f, U), U, part)
  BY <1>13, <1>14 DEF IsSum
<1>16. SumFunctionOnSet(Restrict(f, U), U) = part[U]
  BY <1>12, <1>15, SumIs
<1>17. QED BY <1>9, <1>10, <1>11, <1>16

(* The same value for each member of a set.                                *)
LEMMA SumCounts ==
  ASSUME NEW T, IsFiniteSet(T), NEW S \in SUBSET T, NEW c \in Int,
         NEW f, f = [x \in T |-> IF x \in S THEN c ELSE 0]
  PROVE  SumFunctionOnSet(f, T) = Cardinality(S) * c
<1>1. \A s \in SUBSET T : IsFiniteSet(s) /\ IsFiniteSet(s \cap S) /\ Cardinality(s \cap S) \in Nat
  BY FS_Subset, FS_CardinalityType
<1>2. PICK sum : sum = [s \in SUBSET T |-> Cardinality(s \cap S) * c]
  OBVIOUS
<1>3. sum \in [SUBSET T -> Int]
  <2>1. \A n \in Nat : n * c \in Int
    OBVIOUS
  <2>2. QED BY <1>1, <1>2, <2>1
<1>4. sum[{}] = 0
  <2>1. {} \cap S = {} /\ Cardinality({}) = 0
    BY FS_EmptySet
  <2>2. QED BY <1>2, <2>1
<1>5. ASSUME NEW s \in SUBSET T, s # {}
      PROVE  sum[s] = f[Some(s)] + sum[s \ {Some(s)}]
  <2>1. PICK x \in s : x = Some(s) /\ x \in T
    BY <1>5, SomeFact
  <2>2. PICK rest \in SUBSET T : rest = s \ {x}
    OBVIOUS
  <2>3. PICK n \in Nat, m \in Nat : n = Cardinality(s \cap S) /\ m = Cardinality(rest \cap S)
    BY <1>1
  <2>4. sum[s] = n * c /\ sum[rest] = m * c
    BY <1>2, <2>3
  <2>5. CASE x \in S
    <3>1. rest \cap S = (s \cap S) \ {x} /\ x \in s \cap S /\ f[x] = c
      BY <2>1, <2>2, <2>5
    <3>2. PICK k : k = s \cap S /\ IsFiniteSet(k) /\ x \in k
      BY <1>1, <3>1
    <3>3. Cardinality(k \ {x}) = Cardinality(k) - 1
      BY ONLY <3>2, FS_RemoveElement
    <3>4. m = n - 1
      BY <2>3, <3>1, <3>2, <3>3
    <3>5. n * c = c + (n - 1) * c
      OBVIOUS
    <3>6. sum[s] = f[x] + sum[rest]
      BY <2>4, <3>1, <3>4, <3>5
    <3>7. QED BY <2>1, <2>2, <3>6
  <2>6. CASE x \notin S
    <3>1. rest \cap S = s \cap S /\ f[x] = 0
      BY <2>1, <2>2, <2>6
    <3>2. n = m /\ n * c \in Int
      BY <2>3, <3>1
    <3>3. sum[s] = f[x] + sum[rest]
      BY <2>4, <3>1, <3>2
    <3>4. QED BY <2>1, <2>2, <3>3
  <2>7. QED BY <2>5, <2>6
<1>6. IsSum(f, T, sum)
  BY <1>3, <1>4, <1>5 DEF IsSum
<1>7. sum[T] = Cardinality(S) * c
  <2>1. T \cap S = S
    OBVIOUS
  <2>2. QED BY <1>2, <2>1
<1>8. QED BY <1>6, <1>7, SumIs

(* Repeating a step a number of times has a result.                        *)
IsIteration(base, next, N, a) ==
  \A n \in 0 .. N : a[n] = IF n = 0 THEN base ELSE next[a[n - 1]]

(* A recursion over the numbers up to a bound has a solution.              *)
LEMMA IterateExists ==
  ASSUME NEW S, NEW base \in S, NEW next \in [S -> S], NEW N \in Nat
  PROVE  \E a \in [0 .. N -> S] : IsIteration(base, next, N, a)
<1> DEFINE reached == {m \in Nat : \E a \in [0 .. m -> S] :
                          \A n \in 0 .. m : a[n] = IF n = 0 THEN base ELSE next[a[n - 1]]}
<1>1. 0 \in reached
  <2>1. PICK a : a = [n \in 0 .. 0 |-> base]
    OBVIOUS
  <2>2. a \in [0 .. 0 -> S] /\ \A n \in 0 .. 0 : n = 0 /\ a[n] = base
    BY <2>1
  <2>3. QED BY <2>2
<1>2. ASSUME NEW m \in Nat, m \in reached
      PROVE  m + 1 \in reached
  <2>1. PICK a \in [0 .. m -> S] : \A n \in 0 .. m : a[n] = IF n = 0 THEN base ELSE next[a[n - 1]]
    BY <1>2
  <2>2. PICK b : b = [n \in 0 .. m + 1 |-> IF n = m + 1 THEN next[a[m]] ELSE a[n]]
    OBVIOUS
  <2>3. m \in 0 .. m /\ \A n \in 0 .. m + 1 : n # m + 1 => n \in 0 .. m
    OBVIOUS
  <2>4. b \in [0 .. m + 1 -> S]
    BY <2>1, <2>2, <2>3
  <2>5. ASSUME NEW n \in 0 .. m + 1
        PROVE  b[n] = IF n = 0 THEN base ELSE next[b[n - 1]]
    <3>1. CASE n = m + 1
      <4>1. n - 1 = m /\ m \in 0 .. m + 1 /\ m # m + 1 /\ n # 0
        BY <3>1
      <4>2. b[m] = a[m] /\ b[n] = next[a[m]]
        BY <2>2, <3>1, <4>1
      <4>3. QED BY <4>1, <4>2
    <3>2. CASE n # m + 1
      <4>1. n \in 0 .. m /\ b[n] = a[n]
        BY <2>2, <2>3, <3>2
      <4>2. n # 0 => n - 1 \in 0 .. m /\ n - 1 \in 0 .. m + 1 /\ n - 1 # m + 1
        BY <4>1
      <4>3. n # 0 => b[n - 1] = a[n - 1]
        BY <2>2, <4>2
      <4>4. QED BY <2>1, <4>1, <4>3
    <3>3. QED BY <3>1, <3>2
  <2>6. QED BY <2>4, <2>5
<1>3. \A n \in Nat : n \in reached
  <2> HIDE DEF reached
  <2>1. \A m \in Nat : m \in reached => m + 1 \in reached
    BY <1>2
  <2>2. QED BY ONLY <1>1, <2>1, NumberInduction
<1>4. QED BY <1>3 DEF IsIteration

-----------------------------------------------------------------------------
(* The ledger.                                                             *)

(* The inductive invariant.                                                *)
Inv ==
  /\ books \in [Accounts -> Book]
  /\ initial \in [Accounts -> Funds]
  /\ \A a \in Accounts : Sound(books[a])

(* It holds when the store is created.                                     *)
LEMMA InitInv == Init => Inv
<1> SUFFICES ASSUME Init PROVE Inv
  OBVIOUS
<1>1. DefaultCash \in Nat
  BY FundsAssumption, DefaultAssumption
<1>2. Sound(EmptyBook(DefaultCash))
  BY <1>1, EmptySound
<1>3. QED BY <1>2, DefaultAssumption DEF Init, Inv, Sound

(* Every step keeps it.                                                    *)
LEMMA StepInv == Inv /\ [Next]_vars => Inv'
<1> SUFFICES ASSUME Inv, [Next]_vars PROVE Inv'
  OBVIOUS
<1>1. ASSUME NEW a \in Accounts, NEW t \in Tickers, NEW n \in Quantities, NEW price \in Prices,
             Buy(a, t, n, price)
      PROVE  Inv'
  <2>1. n \in Nat \ {0} /\ n % Lot = 0 /\ price \in Nat
    BY QuantitiesAssumption, PricesAssumption
  <2>2. Sound(AfterBuy(books[a], t, n, price))
    BY <1>1, <2>1, BuyKeepsSound DEF Buy, Inv
  <2>3. books' = [books EXCEPT ![a] = AfterBuy(books[a], t, n, price)] /\ initial' = initial
    BY <1>1 DEF Buy
  <2>4. QED BY <2>2, <2>3 DEF Inv, Sound
<1>2. ASSUME NEW a \in Accounts, NEW t \in Tickers, NEW n \in Quantities, NEW price \in Prices,
             Sell(a, t, n, price)
      PROVE  Inv'
  <2>1. n \in Nat \ {0} /\ n % Lot = 0 /\ price \in Nat
    BY QuantitiesAssumption, PricesAssumption
  <2>2. Sound(AfterSell(books[a], t, n, price))
    BY <1>2, <2>1, SellKeepsSound DEF Sell, Inv
  <2>3. books' = [books EXCEPT ![a] = AfterSell(books[a], t, n, price)] /\ initial' = initial
    BY <1>2 DEF Sell
  <2>4. QED BY <2>2, <2>3 DEF Inv, Sound
<1>3. ASSUME NEW cash \in Funds, Reset(cash)
      PROVE  Inv'
  <2>1. Sound(EmptyBook(cash))
    BY FundsAssumption, EmptySound
  <2>2. QED BY <1>3, <2>1 DEF Reset, Inv, Sound
<1>4. CASE UNCHANGED vars
  BY <1>4 DEF vars, Inv
<1>5. QED BY <1>1, <1>2, <1>3, <1>4 DEF Next

(* The invariant holds always.                                             *)
THEOREM AlwaysInv == Spec => []Inv
  BY InitInv, StepInv, PTL DEF Spec

(* Books and initial amounts keep their types.                             *)
THEOREM TypeCorrect == Spec => []TypeOK
<1>1. Inv => TypeOK
  BY DEF Inv, TypeOK
<1>2. QED BY <1>1, AlwaysInv, PTL

(* No sequence of accepted orders overdraws a book: a purchase is refused  *)
(* beyond the cash, and the tax a sale costs never exceeds what it brings  *)
(* in.                                                                     *)
THEOREM NeverOverdrawn == Spec => []CashNonNegative
<1>1. Inv => CashNonNegative
  BY DEF Inv, Sound, CashNonNegative
<1>2. QED BY <1>1, AlwaysInv, PTL

(* The tax withheld is the tax on the net profit, gains and losses netted. *)
THEOREM TaxIsOnNetProfit == Spec => []TaxMatchesProfit
<1>1. Inv => TaxMatchesProfit
  BY DEF Inv, Sound, TaxMatchesProfit
<1>2. QED BY <1>1, AlwaysInv, PTL

(* Positions are whole lots and closed positions leave no cost behind.     *)
THEOREM PositionsAreSound == Spec => []PositionsSound
<1>1. Inv => PositionsSound
  BY DEF Inv, Sound, PositionsSound
<1>2. QED BY <1>1, AlwaysInv, PTL

(***************************************************************************)
(* The cost of what a book holds grows by what is paid for a purchase and  *)
(* shrinks by the share of it a sale takes, whatever else is held; the     *)
(* tax and the profit of the sale explain the rest.  The initial amount is *)
(* what the cash of an empty book is.                                      *)
(***************************************************************************)
HeldCost(book) == SumFunctionOnSet(book.basis, Tickers)

Conserved(book, opening) == book.cash + HeldCost(book) + book.withheld = opening + book.pnl

(* What is held of each ticker cost a whole number of yen, and so did all  *)
(* of it.                                                                  *)
LEMMA HeldCostType ==
  ASSUME NEW book \in Book
  PROVE  HeldCost(book) \in Int /\ HeldCost(book) = SumFunction(book.basis)
<1>1. DOMAIN book.basis = Tickers /\ \A t \in Tickers : book.basis[t] \in Int
  BY DEF Book
<1>2. PICK sum : IsSum(book.basis, Tickers, sum)
  BY <1>1, SumExists, FiniteAssumption
<1>3. QED BY <1>1, <1>2, SumIs, FiniteAssumption DEF HeldCost, SumFunction

(* A new book has all its money.                                           *)
LEMMA EmptyConserves ==
  ASSUME NEW cash \in Nat
  PROVE  Conserved(EmptyBook(cash), cash)
<1>1. PICK none : none = [t \in Tickers |-> 0]
  OBVIOUS
<1>2. SumFunctionOnSet(none, Tickers) = 0
  BY <1>1, SumOfNothing, FiniteAssumption
<1>3. QED BY <1>1, <1>2 DEF Conserved, HeldCost, EmptyBook

(* A purchase moves money into the cost of what is held.                   *)
LEMMA BuyConserves ==
  ASSUME NEW book \in Book, NEW t \in Tickers, NEW n \in Nat, NEW price \in Nat,
         NEW opening \in Int, Conserved(book, opening)
  PROVE  Conserved(AfterBuy(book, t, n, price), opening)
<1>1. PICK paid \in Int : paid = n * price
  OBVIOUS
<1>2. PICK basis : basis = [x \in Tickers |-> IF x = t THEN book.basis[x] + paid ELSE book.basis[x]]
  OBVIOUS
<1>3. AfterBuy(book, t, n, price).basis = basis
  BY <1>1, <1>2 DEF AfterBuy, Book
<1>4. \A x \in Tickers : book.basis[x] \in Int
  BY DEF Book
<1>5. SumFunctionOnSet(basis, Tickers) = HeldCost(book) + paid
  BY <1>2, <1>4, SumGrows, FiniteAssumption DEF HeldCost
<1>6. HeldCost(AfterBuy(book, t, n, price)) = HeldCost(book) + paid /\ HeldCost(book) \in Int
  BY <1>3, <1>5, HeldCostType DEF HeldCost
<1>7. /\ AfterBuy(book, t, n, price).cash = book.cash - paid
      /\ AfterBuy(book, t, n, price).pnl = book.pnl
      /\ AfterBuy(book, t, n, price).withheld = book.withheld
  BY <1>1 DEF AfterBuy
<1>8. book.cash \in Int /\ book.pnl \in Int /\ book.withheld \in Int
  BY DEF Book
<1>9. QED BY <1>6, <1>7, <1>8 DEF Conserved

(* A sale moves it back, with what was gained, less the tax on it.         *)
LEMMA SellConserves ==
  ASSUME NEW book \in Book, NEW t \in Tickers, NEW n \in Nat \ {0}, NEW price \in Nat,
         CanSell(book, t, n), NEW opening \in Int, Conserved(book, opening)
  PROVE  Conserved(AfterSell(book, t, n, price), opening)
<1>1. PICK got \in Int, cost \in Int : got = n * price /\ cost = CostOf(book, t, n)
  BY CostOfBounds DEF CanSell
<1>2. PICK basis : basis = [x \in Tickers |-> IF x = t THEN book.basis[x] + (-cost) ELSE book.basis[x]]
  OBVIOUS
<1>3. PICK after : after = AfterSell(book, t, n, price)
  OBVIOUS
<1>4. /\ after.basis = [book.basis EXCEPT ![t] = @ - cost]
      /\ after.cash = book.cash + got - (TaxDue(book.pnl + (got - cost)) - book.withheld)
      /\ after.pnl = book.pnl + (got - cost)
      /\ after.withheld = TaxDue(book.pnl + (got - cost))
  BY <1>1, <1>3 DEF AfterSell, TaxDelta
<1>5. \A x \in Tickers : book.basis[x] \in Int
  BY DEF Book
<1>6. after.basis = basis
  BY <1>2, <1>4, <1>5 DEF Book
<1>7. SumFunctionOnSet(basis, Tickers) = HeldCost(book) + (-cost)
  BY <1>2, <1>5, SumGrows, FiniteAssumption DEF HeldCost
<1>8. HeldCost(after) = HeldCost(book) + (-cost) /\ HeldCost(book) \in Int
  BY <1>6, <1>7, HeldCostType DEF HeldCost
<1>9. book.cash \in Int /\ book.pnl \in Int /\ book.withheld \in Int
  BY DEF Book
<1>10. TaxDue(book.pnl + (got - cost)) \in Int
  BY <1>9, TaxDueType
<1>11. QED BY <1>3, <1>4, <1>8, <1>9, <1>10 DEF Conserved

(* Every book conserves its money.                                         *)
MoneyInv == Inv /\ \A a \in Accounts : Conserved(books[a], initial[a])

(* No order creates or loses money.                                        *)
LEMMA StepMoneyInv == MoneyInv /\ [Next]_vars => MoneyInv'
<1> SUFFICES ASSUME MoneyInv, [Next]_vars PROVE MoneyInv'
  OBVIOUS
<1>1. Inv'
  BY StepInv DEF MoneyInv
<1>2. \A a \in Accounts : books[a] \in Book /\ initial[a] \in Int /\ Conserved(books[a], initial[a])
  <2>1. \A cash \in Funds : cash \in Int
    BY FundsAssumption
  <2>2. QED BY <2>1 DEF MoneyInv, Inv
<1>3. ASSUME NEW a \in Accounts, NEW after, books' = [books EXCEPT ![a] = after],
             Conserved(after, initial[a]), initial' = initial
      PROVE  \A b \in Accounts : Conserved(books'[b], initial'[b])
  <2>1. books \in [Accounts -> Book]
    BY DEF MoneyInv, Inv
  <2>2. \A b \in Accounts : books'[b] = IF b = a THEN after ELSE books[b]
    BY <1>3, <2>1
  <2>3. QED BY <1>2, <1>3, <2>2
<1>4. ASSUME NEW a \in Accounts, NEW t \in Tickers, NEW n \in Quantities, NEW price \in Prices,
             Buy(a, t, n, price)
      PROVE  \A b \in Accounts : Conserved(books'[b], initial'[b])
  <2>1. n \in Nat /\ price \in Nat
    BY QuantitiesAssumption, PricesAssumption
  <2>2. Conserved(AfterBuy(books[a], t, n, price), initial[a])
    BY <1>2, <2>1, BuyConserves
  <2>3. QED BY <1>3, <1>4, <2>2 DEF Buy
<1>5. ASSUME NEW a \in Accounts, NEW t \in Tickers, NEW n \in Quantities, NEW price \in Prices,
             Sell(a, t, n, price)
      PROVE  \A b \in Accounts : Conserved(books'[b], initial'[b])
  <2>1. n \in Nat \ {0} /\ price \in Nat
    BY QuantitiesAssumption, PricesAssumption
  <2>2. Conserved(AfterSell(books[a], t, n, price), initial[a])
    BY <1>2, <1>5, <2>1, SellConserves DEF Sell
  <2>3. QED BY <1>3, <1>5, <2>2 DEF Sell
<1>6. ASSUME NEW cash \in Funds, Reset(cash)
      PROVE  \A b \in Accounts : Conserved(books'[b], initial'[b])
  <2>1. Conserved(EmptyBook(cash), cash)
    BY FundsAssumption, EmptyConserves
  <2>2. QED BY <1>6, <2>1 DEF Reset
<1>7. CASE UNCHANGED vars
  <2>1. \A b \in Accounts : Conserved(books'[b], initial'[b])
    BY <1>2, <1>7 DEF vars
  <2>2. QED BY <1>1, <2>1 DEF MoneyInv
<1>8. QED BY <1>1, <1>4, <1>5, <1>6, <1>7 DEF Next, MoneyInv

(* Cash, the cost of what is held and the tax withheld add up to the       *)
(* initial amount and the realized profit, over any sequence of purchases, *)
(* partial sales and resets.                                               *)
THEOREM MoneyIsConserved == Spec => []MoneyConserved
<1>1. Init => MoneyInv
  <2> SUFFICES ASSUME Init PROVE MoneyInv
    OBVIOUS
  <2>1. Conserved(EmptyBook(DefaultCash), DefaultCash)
    BY DefaultAssumption, FundsAssumption, EmptyConserves
  <2>2. QED BY <2>1, InitInv DEF Init, MoneyInv
<1>2. MoneyInv => MoneyConserved
  <2> SUFFICES ASSUME MoneyInv, NEW a \in Accounts
               PROVE  books[a].cash + SumFunction(books[a].basis) + books[a].withheld
                        = initial[a] + books[a].pnl
    BY DEF MoneyConserved
  <2>1. books[a] \in Book /\ Conserved(books[a], initial[a])
    BY DEF MoneyInv, Inv
  <2>2. QED BY <2>1, HeldCostType DEF Conserved
<1>3. QED BY <1>1, <1>2, StepMoneyInv, PTL DEF Spec

-----------------------------------------------------------------------------
(* The fill of a market-on-open order, for any opening price, previous     *)
(* close and slippage.                                                     *)

(* The ticks of the table, in mills.                                       *)
TickOf(price) ==
  IF price < 3000000 THEN 1000
  ELSE IF price < 5000000 THEN 5000
  ELSE IF price < 30000000 THEN 10000
  ELSE IF price < 50000000 THEN 50000
  ELSE IF price < 300000000 THEN 100000
  ELSE IF price < 500000000 THEN 500000
  ELSE 1000000

(* The tick of a price, row by row of the table.                           *)
LEMMA TickSteps ==
  ASSUME NEW price \in Int
  PROVE  TickSize(price) = TickOf(price)
<1> DEFINE rows == RowsAbove(TickTable, price)
<1>1. /\ rows \in SUBSET (1 .. 6)
      /\ 1 \in rows <=> price < 3000000
      /\ 2 \in rows <=> price < 5000000
      /\ 3 \in rows <=> price < 30000000
      /\ 4 \in rows <=> price < 50000000
      /\ 5 \in rows <=> price < 300000000
      /\ 6 \in rows <=> price < 500000000
  BY SMT DEF RowsAbove, TickTable, Yen
<1>2. /\ TickTable[1].step = 1 /\ TickTable[2].step = 5 /\ TickTable[3].step = 10
      /\ TickTable[4].step = 50 /\ TickTable[5].step = 100 /\ TickTable[6].step = 500
  BY SMT DEF TickTable
<1>3. TickSize(price) = 1000 * (IF rows = {} THEN 1000 ELSE TickTable[Min(rows)].step)
  BY SMT DEF TickSize, Yen, TickCatchall
<1> HIDE DEF rows
<1>4. ASSUME NEW k \in rows, \A i \in rows : k <= i
      PROVE  TickSize(price) = 1000 * TickTable[k].step
  <2>1. rows \in SUBSET Nat
    BY <1>1, SMT
  <2>2. PICK m \in rows : m = Min(rows) /\ \A i \in rows : m <= i
    BY <1>4, <2>1, MinFact
  <2>3. m = k
    BY <1>4, <2>1, <2>2, SMT
  <2>4. QED BY <1>3, <2>2, <2>3, SMT
<1>5. CASE price < 3000000
  <2>1. 1 \in rows /\ \A i \in rows : 1 <= i
    BY <1>1, <1>5, SMT
  <2>2. QED BY <1>2, <1>4, <1>5, <2>1, SMT DEF TickOf
<1>6. CASE price >= 3000000 /\ price < 5000000
  <2>1. 2 \in rows /\ \A i \in rows : 2 <= i
    BY <1>1, <1>6, SMT
  <2>2. QED BY <1>2, <1>4, <1>6, <2>1, SMT DEF TickOf
<1>7. CASE price >= 5000000 /\ price < 30000000
  <2>1. 3 \in rows /\ \A i \in rows : 3 <= i
    BY <1>1, <1>7, SMT
  <2>2. QED BY <1>2, <1>4, <1>7, <2>1, SMT DEF TickOf
<1>8. CASE price >= 30000000 /\ price < 50000000
  <2>1. 4 \in rows /\ \A i \in rows : 4 <= i
    BY <1>1, <1>8, SMT
  <2>2. QED BY <1>2, <1>4, <1>8, <2>1, SMT DEF TickOf
<1>9. CASE price >= 50000000 /\ price < 300000000
  <2>1. 5 \in rows /\ \A i \in rows : 5 <= i
    BY <1>1, <1>9, SMT
  <2>2. QED BY <1>2, <1>4, <1>9, <2>1, SMT DEF TickOf
<1>10. CASE price >= 300000000 /\ price < 500000000
  <2>1. 6 \in rows /\ \A i \in rows : 6 <= i
    BY <1>1, <1>10, SMT
  <2>2. QED BY <1>2, <1>4, <1>10, <2>1, SMT DEF TickOf
<1>11. CASE price >= 500000000
  <2>1. rows = {}
    BY <1>1, <1>11, SMT
  <2>2. QED BY <1>3, <1>11, <2>1, SMT DEF TickOf
<1>12. QED BY <1>5, <1>6, <1>7, <1>8, <1>9, <1>10, <1>11, SMT

(* A rounded price is a whole number of the ticks of the band it falls in, *)
(* also when rounding carries it into the next one, and it is less than a  *)
(* tick away, on the side the order is on.                                 *)
LEMMA RoundedFits ==
  ASSUME NEW price \in Int, NEW side \in Sides
  PROVE  /\ RoundToTick(price, side) \in Int
         /\ RoundToTick(price, side) % TickSize(RoundToTick(price, side)) = 0
         /\ side = "buy" => price <= RoundToTick(price, side)
                            /\ RoundToTick(price, side) < price + TickSize(price)
         /\ side = "sell" => RoundToTick(price, side) <= price
                             /\ price - TickSize(price) < RoundToTick(price, side)
<1>1. TickSize(price) = TickOf(price)
  BY TickSteps, SMT
<1>2. CASE side = "buy"
  <2>1. PICK up : up = RoundToTick(price, side)
    OBVIOUS
  <2>2. up = ((price + TickOf(price) - 1) \div TickOf(price)) * TickOf(price)
    BY <1>1, <1>2, <2>1, SMT DEF RoundToTick, RoundUp
  <2>3. up \in Int /\ price <= up /\ up < price + TickOf(price) /\ up % TickOf(up) = 0
    BY <2>2, SMT DEF TickOf
  <2>4. QED BY <1>1, <1>2, <2>1, <2>3, TickSteps, SMT
<1>3. CASE side = "sell"
  <2>1. PICK down : down = RoundToTick(price, side)
    OBVIOUS
  <2>2. down = (price \div TickOf(price)) * TickOf(price)
    BY <1>1, <1>3, <2>1, SMT DEF RoundToTick, RoundDown
  <2>3. down \in Int /\ down <= price /\ price - TickOf(price) < down /\ down % TickOf(down) = 0
    BY <2>2, SMT DEF TickOf
  <2>4. QED BY <1>1, <1>3, <2>1, <2>3, TickSteps, SMT
<1>4. QED BY <1>2, <1>3, SMT DEF Sides

(* The band of the day is wide enough for a tick: its edges are further    *)
(* apart than the nearest prices that can be quoted inside it.             *)
LEMMA BandHoldsATick ==
  ASSUME NEW reference \in Nat
  PROVE  LET band == PriceLimitBand(reference)
         IN  /\ band.low \in Int /\ band.high \in Int
             /\ band.low + TickSize(band.low) <= band.high
             /\ band.low <= band.high - TickSize(band.high)
<1> DEFINE rows == RowsAbove(LimitTable, reference)
<1>1. /\ rows \in SUBSET (1 .. 18)
      /\ reference < 150000000 => 18 \in rows
      /\ reference >= 3000000 => \A k \in rows : k >= 9
  BY SMT DEF RowsAbove, LimitTable, Yen
<1>2. /\ LimitTable[1].width = 30 /\ LimitTable[2].width = 50 /\ LimitTable[3].width = 80
      /\ LimitTable[4].width = 100 /\ LimitTable[5].width = 150 /\ LimitTable[6].width = 300
      /\ LimitTable[7].width = 400 /\ LimitTable[8].width = 500 /\ LimitTable[9].width = 700
      /\ LimitTable[10].width = 1000 /\ LimitTable[11].width = 1500 /\ LimitTable[12].width = 3000
      /\ LimitTable[13].width = 4000 /\ LimitTable[14].width = 5000 /\ LimitTable[15].width = 7000
      /\ LimitTable[16].width = 10000 /\ LimitTable[17].width = 15000 /\ LimitTable[18].width = 30000
  BY SMT DEF LimitTable
<1>3. ASSUME NEW k \in 1 .. 18
      PROVE  /\ LimitTable[k].width \in Nat
             /\ 30 <= LimitTable[k].width /\ LimitTable[k].width <= 30000
             /\ k >= 9 => LimitTable[k].width >= 700
  <2>1. CASE k <= 8
    <3>1. k \in {1, 2, 3, 4, 5, 6, 7, 8}
      BY <2>1, SMT
    <3>2. QED BY <1>2, <3>1, SMT
  <2>2. CASE k >= 9
    <3>1. k \in {9, 10, 11, 12, 13, 14, 15, 16, 17, 18}
      BY <2>2, SMT
    <3>2. QED BY <1>2, <3>1, SMT
  <2>3. QED BY <2>1, <2>2, SMT
<1>4. PICK width : width = IF rows = {} THEN reference \div 5 ELSE Yen * LimitTable[Min(rows)].width
  OBVIOUS
<1>5. PriceLimitBand(reference) = [low |-> reference - width, high |-> reference + width]
  BY <1>4, SMT DEF PriceLimitBand
<1> HIDE DEF rows
<1>6. /\ width \in Nat
      /\ reference < 3000000 => width >= 30000 /\ width <= 30000000
      /\ reference >= 3000000 => width >= 700000
  <2>1. CASE rows = {}
    BY <1>1, <1>4, <2>1, SMT
  <2>2. CASE rows # {}
    <3>1. rows \in SUBSET (1 .. 18) /\ rows \in SUBSET Nat
      BY <1>1, SMT
    <3>2. Min(rows) \in rows
      BY <2>2, <3>1, MinFact
    <3>3. PICK k \in 1 .. 18 : k \in rows /\ k = Min(rows)
      BY <3>1, <3>2
    <3>4. width = 1000 * LimitTable[k].width
      BY <1>4, <2>2, <3>3, SMT DEF Yen
    <3>5. PICK w \in Nat : w = LimitTable[k].width /\ 30 <= w /\ w <= 30000 /\ (k >= 9 => w >= 700)
      BY <1>3, SMT
    <3>6. QED BY <1>1, <3>3, <3>4, <3>5, SMT
  <2>3. QED BY <2>1, <2>2, SMT
<1>7. PICK low \in Int, high \in Int : low = reference - width /\ high = reference + width
  BY <1>6, SMT
<1>8. TickOf(low) \in Nat /\ TickOf(high) \in Nat
  BY SMT DEF TickOf
<1>9. TickOf(low) <= 2 * width /\ TickOf(high) <= 2 * width
  <2>1. CASE reference < 3000000
    BY <1>6, <1>7, <2>1, SMT DEF TickOf
  <2>2. CASE reference >= 3000000
    BY <1>6, <2>2, SMT DEF TickOf
  <2>3. QED BY <2>1, <2>2, SMT
<1>10. low + TickOf(low) <= high /\ low <= high - TickOf(high)
  BY <1>6, <1>7, <1>8, <1>9, SMT
<1>11. TickSize(low) = TickOf(low) /\ TickSize(high) = TickOf(high)
  BY <1>7, TickSteps
<1>12. PriceLimitBand(reference).low = low /\ PriceLimitBand(reference).high = high
  BY <1>5, <1>7
<1>13. QED BY <1>7, <1>10, <1>11, <1>12

(* Every order is filled by an opening price, and against a previous       *)
(* close, of a whole number of yen.                                        *)
FillInv ==
  /\ order.open \in Nat /\ order.prevClose \in Nat /\ order.side \in Sides
  /\ order.open \div Yen \in Nat /\ order.slip \in Nat
  /\ \/ fill = Pending
     \/ fill = FillPrice(order.open, order.prevClose, order.side, order.slip)

(* The fill under way is what FillPrice gives for whole prices.            *)
LEMMA AlwaysFillInv == FillSpec => []FillInv
<1>1. FillInit => FillInv
  <2> SUFFICES ASSUME FillInit PROVE FillInv
    OBVIOUS
  <2>1. PICK q \in Nat, p \in Nat : order.open = q * 1000 /\ order.prevClose = p * 1000
    BY QuotesAssumption DEF FillInit, Yen
  <2>2. PICK opens, closes : order \in [open: opens, prevClose: closes, side: Sides, slip: Slippages]
    BY DEF FillInit
  <2>3. order.side \in Sides /\ order.slip \in Slippages
    BY <2>2
  <2>4. \A x \in 0 .. 1000 : x \in Nat
    OBVIOUS
  <2>5. order.slip \in Nat
    BY <2>3, <2>4, SlippagesAssumption
  <2>6. QED BY <2>1, <2>3, <2>5 DEF FillInit, FillInv, Yen
<1>2. FillInv /\ [Fill]_fillVars => FillInv'
  BY DEF FillInv, Fill, fillVars
<1>3. QED BY <1>1, <1>2, PTL DEF FillSpec

(* What an order asks for before the limit of the day is looked at.        *)
LEMMA AskedIsWhole ==
  ASSUME FillInv
  PROVE  ApplySlippage(order.open, order.side, order.slip) \in Int
<1>1. PICK yen \in Nat, slip \in Nat : yen = order.open \div Yen /\ slip = order.slip
  BY DEF FillInv
<1>2. yen * slip \in Nat
  OBVIOUS
<1>3. QED BY <1>1, <1>2 DEF FillInv, ApplySlippage

(* clamp_to_limit: every fill can be quoted and lies within the limit of   *)
(* the day.                                                                *)
THEOREM FillsAreQuotable == FillSpec => []QuotableInBand
<1>1. FillInv => QuotableInBand
  <2> SUFFICES ASSUME FillInv, fill # Pending
               PROVE  LET band == PriceLimitBand(order.prevClose)
                      IN  /\ fill.price % TickSize(fill.price) = 0
                          /\ band.low <= fill.price /\ fill.price <= band.high
    BY DEF QuotableInBand
  <2>1. PICK asked \in Int : asked = ApplySlippage(order.open, order.side, order.slip)
    BY AskedIsWhole
  <2>2. PICK price \in Int : price = RoundToTick(asked, order.side)
    BY RoundedFits DEF FillInv
  <2>3. fill = ClampToLimit(price, order.prevClose)
    BY <2>1, <2>2 DEF FillInv, FillPrice
  <2>4. PICK low \in Int, high \in Int :
          low = PriceLimitBand(order.prevClose).low /\ high = PriceLimitBand(order.prevClose).high
    BY BandHoldsATick DEF FillInv
  <2>5. low + TickSize(low) <= high /\ low <= high - TickSize(high)
    BY <2>4, BandHoldsATick DEF FillInv
  <2>6. TickSize(low) \in Nat /\ TickSize(high) \in Nat
    BY TickSteps DEF TickOf
  <2>7. CASE price < low
    <3>1. fill.price = RoundToTick(low, "buy")
      BY <2>3, <2>4, <2>5, <2>6, <2>7 DEF ClampToLimit
    <3>2. PICK up \in Int : up = RoundToTick(low, "buy") /\ low <= up /\ up < low + TickSize(low)
                            /\ up % TickSize(up) = 0
      BY RoundedFits DEF Sides
    <3>3. QED BY <2>4, <2>5, <2>6, <3>1, <3>2
  <2>8. CASE ~(price < low) /\ price > high
    <3>1. fill.price = RoundToTick(high, "sell")
      BY <2>3, <2>4, <2>8 DEF ClampToLimit
    <3>2. PICK down \in Int : down = RoundToTick(high, "sell") /\ down <= high /\ high - TickSize(high) < down
                              /\ down % TickSize(down) = 0
      BY RoundedFits DEF Sides
    <3>3. QED BY <2>4, <2>5, <2>6, <3>1, <3>2
  <2>9. CASE ~(price < low) /\ ~(price > high)
    <3>1. fill.price = price
      BY <2>3, <2>4, <2>9 DEF ClampToLimit
    <3>2. price % TickSize(price) = 0
      BY <2>2, RoundedFits DEF FillInv
    <3>3. QED BY <2>4, <2>9, <3>1, <3>2
  <2>10. QED BY <2>7, <2>8, <2>9
<1>2. QED BY <1>1, AlwaysFillInv, PTL

(* apply_slippage and round_to_tick: within the limit of the day no order  *)
(* fills better than the open with its slippage, and none is a tick worse. *)
THEOREM FillsAreFair == FillSpec => []NeverBetterThanOpen
<1>1. FillInv => NeverBetterThanOpen
  <2> SUFFICES ASSUME FillInv, fill # Pending, ~fill.clamped
               PROVE  LET cost == (order.open \div Yen) * order.slip
                      IN  IF order.side = "buy"
                            THEN LET asked == order.open + cost
                                 IN  asked <= fill.price /\ fill.price < asked + TickSize(asked)
                            ELSE LET bid == order.open - cost
                                 IN  fill.price <= bid /\ bid - TickSize(bid) < fill.price
    BY DEF NeverBetterThanOpen
  <2>1. PICK asked \in Int : asked = ApplySlippage(order.open, order.side, order.slip)
    BY AskedIsWhole
  <2>2. fill = ClampToLimit(RoundToTick(asked, order.side), order.prevClose)
    BY <2>1 DEF FillInv, FillPrice
  <2>3. fill.price = RoundToTick(asked, order.side)
    BY <2>2 DEF ClampToLimit
  <2>4. CASE order.side = "buy"
    <3>1. asked = order.open + (order.open \div Yen) * order.slip
      BY <2>1, <2>4 DEF ApplySlippage
    <3>2. asked <= fill.price /\ fill.price < asked + TickSize(asked)
      BY <2>3, <2>4, RoundedFits DEF Sides
    <3>3. QED BY <2>4, <3>1, <3>2
  <2>5. CASE order.side = "sell"
    <3>1. asked = order.open - (order.open \div Yen) * order.slip
      BY <2>1, <2>5 DEF ApplySlippage
    <3>2. fill.price <= asked /\ asked - TickSize(asked) < fill.price
      BY <2>3, <2>5, RoundedFits DEF Sides
    <3>3. QED BY <2>5, <3>1, <3>2
  <2>6. QED BY <2>4, <2>5 DEF FillInv, Sides
<1>2. QED BY <1>1, AlwaysFillInv, PTL

-----------------------------------------------------------------------------
(***************************************************************************)
(* The allocation of a budget, for any finite number of holdings and every *)
(* lot price, worth, budget, target, cap and size of table.  What the code *)
(* computes by recursion (the weights, the names fixed at the cap, the     *)
(* table of the knapsack) is any function that satisfies its equation; the *)
(* invariant says what the lots bought, what is left and what the table    *)
(* still promises have to do with each other.                              *)
(***************************************************************************)
(* A request has been made.                                                *)
Asked == request \in BudgetRequests \cup TargetRequests

(* A total is a sum over what it totals.                                   *)
LEMMA TotalIs ==
  ASSUME NEW f
  PROVE  Total(f) = SumFunctionOnSet(f, DOMAIN f)
BY DEF Total, FoldFunction, SumFunctionOnSet

(* What a request holds.                                                   *)
LEMMA AskedFacts ==
  ASSUME Asked
  PROVE  /\ request.mode \in {"equal", "safety", "yield", "cash_min", "dividend_max",
                              "target_best", "target_spread"}
         /\ Cost \in [Holdings -> Nat \ {0}] /\ Worth \in [Holdings -> Nat]
         /\ request.budget \in Nat /\ request.target \in Nat
<1>1. /\ LotCosts \subseteq Nat \ {0} /\ LotWorths \subseteq Nat
      /\ Budgets \subseteq Nat /\ Targets \subseteq Nat
  BY AllocationAssumption
<1>2. /\ request.mode \in {"equal", "safety", "yield", "cash_min", "dividend_max",
                          "target_best", "target_spread"}
      /\ request.cost \in [Holdings -> LotCosts]
      /\ request.worth = NoLots \/ request.worth \in [Holdings -> LotWorths]
      /\ request.budget \in Budgets \/ request.budget = 0
      /\ request.target \in Targets \/ request.target = 0
  BY SMT DEF Asked, BudgetRequests, TargetRequests, Requested
<1>3. request.cost \in [Holdings -> Nat \ {0}]
  BY <1>1, <1>2
<1>4. request.worth \in [Holdings -> Nat]
  <2>1. \A w \in [Holdings -> LotWorths] : w \in [Holdings -> Nat]
    BY <1>1
  <2>2. NoLots \in [Holdings -> Nat]
    BY DEF NoLots
  <2>3. QED BY <1>2, <2>1, <2>2
<1>5. request.budget \in Nat /\ request.target \in Nat
  <2>1. (\A b \in Budgets : b \in Nat) /\ (\A b \in Targets : b \in Nat) /\ 0 \in Nat
    BY <1>1
  <2>2. QED BY <1>2, <2>1
<1>6. QED BY <1>2, <1>3, <1>4, <1>5 DEF Cost, Worth

(* The product of the costs is no less than one of them, so that no yield  *)
(* of a holding that is worth something is rounded to nothing.             *)
LEMMA ProductFits ==
  ASSUME Asked
  PROVE  Product \in Nat /\ \A h \in Holdings : Cost[h] <= Product
<1>1. PICK cost \in [Holdings -> Nat \ {0}] : cost = Cost
  BY AskedFacts
<1> DEFINE Solves(g) ==
             g = [s \in SUBSET Holdings |-> IF s = {} THEN 1 ELSE cost[Some(s)] * g[s \ {Some(s)}]]
<1>2. \E g : Solves(g)
  <2>1. PICK next : next = [s \in SUBSET Holdings |-> [v \in Int |-> cost[Some(s)] * v]]
    OBVIOUS
  <2>2. ASSUME NEW s \in SUBSET Holdings, s # {}, NEW v \in Int
        PROVE  next[s][v] = cost[Some(s)] * v /\ next[s][v] \in Int
    <3>1. PICK c \in Int : c = cost[Some(s)]
      BY <2>2, SomeFact
    <3>2. c * v \in Int
      OBVIOUS
    <3>3. QED BY <2>1, <3>1, <3>2
  <2>3. \A s \in SUBSET Holdings : s # {} => \A v \in Int : next[s][v] \in Int
    BY <2>2
  <2>4. IsFiniteSet(Holdings) /\ 1 \in Int
    BY AllocationAssumption
  <2>5. PICK g \in [SUBSET Holdings -> Int] : IsFold(1, next, Holdings, g)
    BY ONLY <2>3, <2>4, FoldExists
  <2>6. ASSUME NEW s \in SUBSET Holdings
        PROVE  g[s] = IF s = {} THEN 1 ELSE cost[Some(s)] * g[s \ {Some(s)}]
    <3>1. g[s \ {Some(s)}] \in Int
      BY <2>5
    <3>2. s # {} => next[s][g[s \ {Some(s)}]] = cost[Some(s)] * g[s \ {Some(s)}]
      BY <2>2, <3>1
    <3>3. QED BY <2>5, <3>2 DEF IsFold
  <2>7. Solves(g)
    BY <2>5, <2>6
  <2>8. QED BY <2>7
<1>3. PICK g : g = (CHOOSE h : Solves(h)) /\ Solves(g)
  BY <1>2
<1>4. Product = (CHOOSE h : Solves(h))[Holdings]
  BY <1>1 DEF Product, FoldFunction, FoldFunctionOnSet, MapThenFoldSet, Some
<1>5. \A s \in SUBSET Holdings : g[s] = IF s = {} THEN 1 ELSE cost[Some(s)] * g[s \ {Some(s)}]
  BY <1>3
<1> HIDE DEF Solves
<1> DEFINE good == {s \in SUBSET Holdings : g[s] \in Nat \ {0} /\ \A h \in s : cost[h] <= g[s]}
<1>6. {} \in good
  BY <1>5
<1>7. ASSUME NEW s \in SUBSET Holdings, s # {}, s \ {Some(s)} \in good
      PROVE  s \in good
  <2>1. PICK x \in s : x = Some(s)
    BY <1>7, SomeFact
  <2>2. PICK c \in Nat \ {0}, v \in Nat \ {0} : c = cost[x] /\ v = g[s \ {x}]
    BY <1>7, <2>1
  <2>3. g[s] = c * v
    BY <1>5, <1>7, <2>1, <2>2
  <2>4. c * v \in Nat \ {0} /\ c <= c * v /\ v <= c * v
    OBVIOUS
  <2>5. \A h \in s : cost[h] <= c * v
    <3>1. ASSUME NEW h \in s, h # x
          PROVE  cost[h] <= c * v
      <4>1. cost[h] <= v /\ cost[h] \in Nat
        BY <1>7, <2>1, <2>2, <3>1
      <4>2. QED BY <2>4, <4>1
    <3>2. QED BY <2>2, <2>4, <3>1
  <2>6. QED BY <2>3, <2>4, <2>5
<1>8. \A s \in SUBSET Holdings : s \in good
  <2>1. \A s \in SUBSET Holdings : s # {} /\ s \ {Some(s)} \in good => s \in good
    BY <1>7
  <2>2. IsFiniteSet(Holdings)
    BY AllocationAssumption
  <2> HIDE DEF good
  <2>3. QED BY ONLY <1>6, <2>1, <2>2, SubsetInduction
<1>9. Holdings \in good
  BY <1>8
<1>10. QED BY <1>1, <1>3, <1>4, <1>9

(* The weights before the cap: naturals, none of them zero by yield, and   *)
(* not all of them zero whenever they are used.                            *)
LEMMA RawFacts ==
  ASSUME Asked
  PROVE  /\ RawWeights \in [Holdings -> Nat]
         /\ request.mode = "yield" => \A h \in Holdings : RawWeights[h] > 0
         /\ \E h \in Holdings : RawWeights[h] > 0
<1>1. PICK c \in [Holdings -> Nat \ {0}], w \in [Holdings -> Nat], p \in Nat :
        c = Cost /\ w = Worth /\ p = Product /\ \A h \in Holdings : c[h] <= p
  BY AskedFacts, ProductFits
<1>2. \E h \in Holdings : TRUE
  BY AllocationAssumption
<1>3. ASSUME NEW h \in Holdings
      PROVE  Yield(h) \in Nat /\ (h \in Eligible => Yield(h) > 0)
  <2>1. PICK q \in Int : q = p \div c[h]
    OBVIOUS
  <2>2. q \in Nat /\ q > 0
    BY <1>1, <2>1
  <2>3. w[h] * q \in Nat /\ (w[h] > 0 => w[h] * q > 0)
    BY <2>2
  <2>4. QED BY <1>1, <2>1, <2>3 DEF Yield, Eligible
<1>4. CASE request.mode = "yield" /\ Eligible # {}
  <2> DEFINE yields == {Yield(g) : g \in Eligible}
  <2>1. yields \in SUBSET Nat /\ yields # {} /\ \A y \in yields : y > 0
    BY <1>3, <1>4 DEF Eligible
  <2>2. Min(yields) \in yields
    <3> HIDE DEF yields
    <3>1. QED BY <2>1, MinFact
  <2>3. RawWeights = [h \in Holdings |-> IF h \in Eligible THEN Yield(h) ELSE Min(yields)]
    BY <1>4 DEF RawWeights
  <2> HIDE DEF yields
  <2>4. \A h \in Holdings : RawWeights[h] \in Nat /\ RawWeights[h] > 0
    BY <1>3, <2>1, <2>2, <2>3
  <2>5. RawWeights \in [Holdings -> Nat]
    BY <2>3, <2>4
  <2>6. QED BY <1>2, <2>4, <2>5
<1>5. CASE request.mode = "safety" /\ Eligible # {}
  <2>1. RawWeights = w
    BY <1>1, <1>5 DEF RawWeights
  <2>2. \E h \in Holdings : w[h] > 0
    BY <1>1, <1>5 DEF Eligible
  <2>3. QED BY <1>5, <2>1, <2>2
<1>6. CASE ~(request.mode = "yield" /\ Eligible # {}) /\ ~(request.mode = "safety" /\ Eligible # {})
  <2>1. RawWeights = [h \in Holdings |-> 1]
    BY <1>6 DEF RawWeights
  <2>2. QED BY <1>2, <2>1
<1>7. QED BY <1>4, <1>5, <1>6

(* The weights that are not fixed yet.                                     *)
LEMMA ActiveFacts ==
  ASSUME Asked, NEW F \in SUBSET Holdings,
         NEW rest, rest = [x \in Holdings |-> IF x \in F THEN 0 ELSE RawWeights[x]]
  PROVE  /\ Active(F) = SumFunctionOnSet(rest, Holdings) /\ Active(F) \in Nat
         /\ \A x \in Holdings : rest[x] \in Nat /\ rest[x] <= Active(F)
<1>1. PICK raw \in [Holdings -> Nat] : raw = RawWeights
  BY RawFacts
<1>2. (\A x \in Holdings : raw[x] \in Int) /\ IsFiniteSet(Holdings)
  BY AllocationAssumption
<1>3. \A x \in Holdings : rest[x] \in Nat
  BY <1>1
<1>4. DOMAIN Restrict(raw, Holdings \ F) = Holdings \ F
  BY DEF Restrict
<1>5. Active(F) = SumFunctionOnSet(Restrict(raw, Holdings \ F), Holdings \ F)
  BY <1>1, <1>4, TotalIs DEF Active
<1>6. SumFunctionOnSet(Restrict(raw, Holdings \ F), Holdings \ F) = SumFunctionOnSet(rest, Holdings)
  <2>1. rest = [x \in Holdings |-> IF x \in F THEN 0 ELSE raw[x]]
    BY <1>1
  <2>2. QED BY ONLY <1>2, <2>1, SumWithout
<1>7. \A x \in Holdings : rest[x] <= SumFunctionOnSet(rest, Holdings)
  BY ONLY <1>2, <1>3, SumCovers
<1>8. PICK h \in Holdings : TRUE
  BY AllocationAssumption
<1>9. SumFunctionOnSet(rest, Holdings) \in Int
  <2>1. \A x \in Holdings : rest[x] \in Int
    BY <1>3
  <2>2. QED BY ONLY <1>2, <2>1, SumType
<1>10. SumFunctionOnSet(rest, Holdings) >= 0
  BY <1>3, <1>7, <1>8, <1>9
<1>11. QED BY <1>3, <1>5, <1>6, <1>7, <1>9, <1>10

(* The names over the cap take more of what is left than they are fixed    *)
(* at, so that fixing them leaves something to the others.                 *)
LEMMA OverLeavesRoom ==
  ASSUME Asked, NEW F \in SUBSET Holdings, Remaining(F) > 0
  PROVE  F \cup Over(F) \in SUBSET Holdings /\ Remaining(F \cup Over(F)) > 0
<1>1. PICK rest : rest = [x \in Holdings |-> IF x \in F THEN 0 ELSE RawWeights[x]]
  OBVIOUS
<1>2. PICK active \in Nat : active = Active(F) /\ active = SumFunctionOnSet(rest, Holdings)
  BY <1>1, ActiveFacts
<1>3. \A x \in Holdings : rest[x] \in Nat /\ rest[x] <= active
  BY <1>1, <1>2, ActiveFacts
<1>4. PICK over \in SUBSET Holdings : over = Over(F)
  BY DEF Over
<1>5. /\ IsFiniteSet(Holdings) /\ IsFiniteSet(F) /\ IsFiniteSet(over)
      /\ Cardinality(F) \in Nat /\ Cardinality(over) \in Nat
      /\ CapNum \in Nat \ {0} /\ CapDen \in Nat \ {0}
  BY AllocationAssumption, FS_Subset, FS_CardinalityType
<1>6. PICK room \in Nat \ {0}, num \in Nat \ {0}, n \in Nat :
        room = Remaining(F) /\ num = CapNum /\ n = Cardinality(over)
  <2>1. PICK f \in Nat, num \in Nat, den \in Nat : f = Cardinality(F) /\ num = CapNum /\ den = CapDen
    BY <1>5
  <2>2. f * num \in Nat
    OBVIOUS
  <2>3. Remaining(F) = den - f * num
    BY <2>1 DEF Remaining
  <2>4. Remaining(F) \in Nat \ {0}
    BY <2>2, <2>3
  <2>5. CapNum \in Nat \ {0} /\ Cardinality(over) \in Nat
    BY <1>5
  <2>6. QED BY <2>4, <2>5
<1>7. over \cap F = {} /\ \A x \in over : rest[x] * room > num * active
  BY <1>1, <1>2, <1>4, <1>6 DEF Over
<1>8. Cardinality(F \cup over) = Cardinality(F) + n
  <2>1. Cardinality(F \cup over) = Cardinality(F) + Cardinality(over) - Cardinality(F \cap over)
    BY <1>5, FS_Union
  <2>2. F \cap over = {} /\ Cardinality({}) = 0
    BY <1>7, FS_EmptySet
  <2>3. QED BY <1>5, <1>6, <2>1, <2>2
<1>9. Remaining(F \cup over) = room - n * num
  <2>1. PICK f \in Nat : f = Cardinality(F)
    BY <1>5
  <2>2. (f + n) * num = f * num + n * num
    OBVIOUS
  <2>3. QED BY <1>5, <1>6, <1>8, <2>1, <2>2 DEF Remaining
<1>10. n * num < room
  <2>1. CASE n = 0
    BY <1>6, <2>1
  <2>2. CASE n > 0
    <3>1. PICK lower : lower = [x \in Holdings |-> IF x \in over THEN num * active + 1 ELSE 0]
      OBVIOUS
    <3>2. PICK upper : upper = [x \in Holdings |-> room * rest[x]]
      OBVIOUS
    <3>3. \A x \in Holdings : upper[x] \in Int /\ lower[x] \in Int /\ rest[x] \in Int
                              /\ upper[x] = room * rest[x]
      <4>1. \A r \in Nat : room * r \in Int
        OBVIOUS
      <4>2. num * active + 1 \in Int
        OBVIOUS
      <4>3. QED BY <1>3, <3>1, <3>2, <4>1, <4>2
    <3>4. \A x \in Holdings : lower[x] <= upper[x]
      <4>1. ASSUME NEW x \in Holdings
            PROVE  lower[x] <= upper[x]
        <5>1. PICK r \in Nat : r = rest[x]
          BY <1>3
        <5>2. room * r \in Nat /\ r * room = room * r /\ num * active \in Nat
          OBVIOUS
        <5>3. CASE x \in over
          BY <1>7, <3>1, <3>2, <5>1, <5>2, <5>3
        <5>4. CASE x \notin over
          BY <3>1, <3>2, <5>1, <5>2, <5>4
        <5>5. QED BY <5>3, <5>4
      <4>2. QED BY <4>1
    <3>5. SumFunctionOnSet(lower, Holdings) <= SumFunctionOnSet(upper, Holdings)
      BY <1>5, <3>3, <3>4, SumMonotone
    <3>6. SumFunctionOnSet(upper, Holdings) = room * active
      BY <1>2, <1>5, <3>2, <3>3, SumScales
    <3>7. SumFunctionOnSet(lower, Holdings) = n * (num * active + 1)
      <4>1. PICK c \in Int : c = num * active + 1
        OBVIOUS
      <4>2. SumFunctionOnSet(lower, Holdings) = Cardinality(over) * c
        BY <1>5, <3>1, <4>1, SumCounts
      <4>3. QED BY <1>6, <4>1, <4>2
    <3>8. n * (num * active + 1) <= room * active
      BY <3>5, <3>6, <3>7
    <3>9. n * (num * active + 1) = (n * num) * active + n
      OBVIOUS
    <3>10. (n * num) * active < room * active
      BY <2>2, <3>8, <3>9
    <3>11. PICK k \in Nat : k = n * num
      OBVIOUS
    <3>12. k < room
      BY <3>10, <3>11
    <3>13. QED BY <3>11, <3>12
  <2>3. QED BY <2>1, <2>2
<1>11. QED BY <1>4, <1>6, <1>9, <1>10

(* As long as something is left, a cap that can be kept has not fixed all. *)
LEMMA SomeNotFixed ==
  ASSUME NEW F \in SUBSET Holdings, Remaining(F) > 0, CapFeasible
  PROVE  /\ \E h \in Holdings : h \notin F
         /\ Cardinality(F) \in Nat /\ Cardinality(F) < Cardinality(Holdings)
<1>1. PICK n \in Nat, f \in Nat, num \in Nat, den \in Nat :
        n = Cardinality(Holdings) /\ f = Cardinality(F) /\ num = CapNum /\ den = CapDen
  BY AllocationAssumption, FS_Subset, FS_CardinalityType
<1>2. den - f * num > 0 /\ n * num >= den
  BY <1>1 DEF Remaining, CapFeasible
<1>3. f < n
  BY <1>2
<1>4. F # Holdings
  BY <1>1, <1>3
<1>5. QED BY <1>1, <1>3, <1>4

(* Fixing goes on until no name is over the cap, and leaves something to   *)
(* those it does not fix.                                                  *)
LEMMA FixedFacts ==
  ASSUME Asked
  PROVE  /\ Fixed \in SUBSET Holdings /\ Remaining(Fixed) > 0
         /\ IF request.mode = "yield" /\ CapFeasible THEN Over(Fixed) = {} ELSE Fixed = {}
<1>1. PICK N \in Nat : N = Cardinality(Holdings)
  BY AllocationAssumption, FS_CardinalityType
<1>2. Remaining({}) > 0
  <2>1. Cardinality({}) = 0 /\ CapNum \in Nat /\ CapDen \in Nat \ {0}
    BY AllocationAssumption, FS_EmptySet
  <2>2. QED BY <2>1 DEF Remaining
<1>3. CASE ~(request.mode = "yield" /\ CapFeasible)
  <2>1. Fixed = {}
    BY <1>3 DEF Fixed
  <2>2. QED BY <1>2, <1>3, <2>1
<1>4. CASE request.mode = "yield" /\ CapFeasible
  <2> DEFINE Solves(a) == a = [n \in 0 .. N |-> IF n = 0 THEN {} ELSE a[n - 1] \cup Over(a[n - 1])]
  <2>1. PICK next : next = [F \in SUBSET Holdings |-> F \cup Over(F)]
    OBVIOUS
  <2>2. next \in [SUBSET Holdings -> SUBSET Holdings]
    BY <2>1 DEF Over
  <2>3. PICK b \in [0 .. N -> SUBSET Holdings] : IsIteration({}, next, N, b)
    <3>1. {} \in SUBSET Holdings /\ N \in Nat
      OBVIOUS
    <3>2. QED BY ONLY <2>2, <3>1, IterateExists
  <2>4. ASSUME NEW n \in 0 .. N
        PROVE  b[n] = IF n = 0 THEN {} ELSE b[n - 1] \cup Over(b[n - 1])
    <3>1. n # 0 => b[n - 1] \in SUBSET Holdings
      <4>1. n # 0 => n - 1 \in 0 .. N
        OBVIOUS
      <4>2. QED BY <2>3, <4>1
    <3>2. b[n] = IF n = 0 THEN {} ELSE next[b[n - 1]]
      BY <2>3 DEF IsIteration
    <3>3. QED BY <2>1, <3>1, <3>2
  <2>5. Solves(b)
    BY <2>3, <2>4
  <2>6. PICK a : a = (CHOOSE c : Solves(c)) /\ Solves(a)
    BY <2>5
  <2>7. Fixed = (CHOOSE c : Solves(c))[N]
    BY <1>1, <1>4 DEF Fixed
  <2>8. \A n \in 0 .. N : a[n] = IF n = 0 THEN {} ELSE a[n - 1] \cup Over(a[n - 1])
    BY <2>6
  <2> HIDE DEF Solves
  <2> DEFINE good == {n \in Nat : n <= N =>
                        /\ a[n] \in SUBSET Holdings /\ Remaining(a[n]) > 0
                        /\ Over(a[n]) = {} \/ Cardinality(a[n]) >= n}
  <2>9. 0 \in good
    <3>1. 0 \in 0 .. N
      OBVIOUS
    <3>2. a[0] = {}
      BY <2>8, <3>1
    <3>3. Cardinality({}) = 0
      BY FS_EmptySet
    <3>4. QED BY <1>2, <3>2, <3>3
  <2>10. ASSUME NEW n \in Nat, n \in good
         PROVE  n + 1 \in good
    <3>1. SUFFICES ASSUME n + 1 <= N
                   PROVE  /\ a[n + 1] \in SUBSET Holdings /\ Remaining(a[n + 1]) > 0
                          /\ Over(a[n + 1]) = {} \/ Cardinality(a[n + 1]) >= n + 1
      OBVIOUS
    <3>2. PICK F \in SUBSET Holdings : F = a[n] /\ Remaining(F) > 0
                                       /\ (Over(F) = {} \/ Cardinality(F) >= n)
      BY <2>10, <3>1
    <3>3. a[n + 1] = F \cup Over(F)
      <4>1. n + 1 \in 0 .. N /\ n + 1 # 0 /\ (n + 1) - 1 = n
        BY <3>1
      <4>2. QED BY <2>8, <3>2, <4>1
    <3>4. a[n + 1] \in SUBSET Holdings /\ Remaining(a[n + 1]) > 0
      BY <3>2, <3>3, OverLeavesRoom
    <3>5. CASE Over(F) = {}
      <4>1. F \cup Over(F) = F
        BY <3>5
      <4>2. QED BY <3>3, <3>4, <3>5, <4>1
    <3>6. CASE Over(F) # {}
      <4>1. PICK x \in Over(F) : x \notin F
        BY <3>6 DEF Over
      <4>2. PICK G \in SUBSET Holdings : G = a[n + 1]
        BY <3>4
      <4>3. IsFiniteSet(G) /\ IsFiniteSet(F) /\ Cardinality(G) \in Nat /\ Cardinality(F) \in Nat
        BY AllocationAssumption, FS_Subset, FS_CardinalityType
      <4>4. F \subseteq G /\ F # G
        BY <3>3, <4>1, <4>2
      <4>5. Cardinality(F) < Cardinality(G)
        BY <4>3, <4>4, FS_Subset
      <4>6. QED BY <3>2, <3>4, <3>6, <4>2, <4>3, <4>5
    <3>7. QED BY <3>5, <3>6
  <2>11. N \in good
    <3>1. \A n \in Nat : n \in good => n + 1 \in good
      BY <2>10
    <3> HIDE DEF good
    <3>2. \A n \in Nat : n \in good
      BY ONLY <2>9, <3>1, NumberInduction
    <3>3. QED BY <3>2
  <2>12. PICK F \in SUBSET Holdings : F = a[N] /\ Remaining(F) > 0
                                      /\ (Over(F) = {} \/ Cardinality(F) >= N)
    BY <2>11
  <2>13. Over(F) = {}
    <3>1. Cardinality(F) \in Nat /\ Cardinality(F) < N
      BY <1>1, <1>4, <2>12, SomeNotFixed
    <3>2. QED BY <2>12, <3>1
  <2>14. Fixed = F
    BY <2>6, <2>7, <2>12
  <2>15. QED BY <1>4, <2>12, <2>13, <2>14
<1>5. QED BY <1>3, <1>4

(* Something is left to divide by.                                         *)
LEMMA WeightsLeft ==
  ASSUME Asked
  PROVE  Active(Fixed) \in Nat \ {0}
<1>1. PICK F \in SUBSET Holdings : F = Fixed /\ Remaining(F) > 0
                                   /\ (F = {} \/ (request.mode = "yield" /\ CapFeasible))
  BY FixedFacts
<1>2. PICK h \in Holdings : h \notin F /\ RawWeights[h] > 0
  <2>1. CASE F = {}
    BY <2>1, RawFacts
  <2>2. CASE request.mode = "yield" /\ CapFeasible
    BY <1>1, <2>2, RawFacts, SomeNotFixed
  <2>3. QED BY <1>1, <2>1, <2>2
<1>3. PICK rest : rest = [x \in Holdings |-> IF x \in F THEN 0 ELSE RawWeights[x]]
  OBVIOUS
<1>4. Active(F) \in Nat /\ rest[h] <= Active(F)
  BY <1>3, ActiveFacts
<1>5. rest[h] \in Nat /\ rest[h] > 0
  BY <1>2, <1>3, RawFacts
<1>6. QED BY <1>1, <1>4, <1>5

(* No holding gets more than the cap.                                      *)
LEMMA CapHolds ==
  ASSUME Asked, request.mode = "yield", CapFeasible, NEW h \in Holdings
  PROVE  Weight(h).num * CapDen <= CapNum * Weight(h).den
<1>1. PICK F \in SUBSET Holdings : F = Fixed /\ Remaining(F) > 0 /\ Over(F) = {}
  BY FixedFacts
<1>2. PICK num \in Nat, den \in Nat, active \in Nat, raw \in Nat :
        num = CapNum /\ den = CapDen /\ active = Active(F) /\ raw = RawWeights[h]
  BY <1>1, AllocationAssumption, WeightsLeft, RawFacts
<1>3. CASE h \in F
  <2>1. Weight(h).num = num /\ Weight(h).den = den
    BY <1>1, <1>2, <1>3 DEF Weight
  <2>2. QED BY <1>2, <2>1
<1>4. CASE h \notin F
  <2>1. PICK room \in Nat : room = Remaining(F)
    <3>1. PICK f \in Nat : f = Cardinality(F)
      BY AllocationAssumption, FS_Subset, FS_CardinalityType
    <3>2. f * num \in Nat
      OBVIOUS
    <3>3. QED BY <1>1, <1>2, <3>1, <3>2 DEF Remaining
  <2>2. ~(raw * room > num * active)
    BY <1>1, <1>2, <1>4, <2>1 DEF Over
  <2>3. PICK w \in Nat, a \in Nat : w = raw * room /\ a = num * active
    OBVIOUS
  <2>4. Weight(h).num = w /\ Weight(h).den = den * active
    BY <1>1, <1>2, <1>4, <2>1, <2>3 DEF Weight
  <2>5. w * den <= a * den
    BY <2>2, <2>3
  <2>6. a * den = num * (den * active)
    BY <2>3
  <2>7. QED BY <1>2, <2>4, <2>5, <2>6
<1>5. QED BY <1>3, <1>4

(* The lots that the weights buy cost no more than the budget: the weights *)
(* add up to one, and each share of the budget is rounded down.            *)
LEMMA SplitFits ==
  ASSUME Asked
  PROVE  /\ FloorLots \in [Holdings -> Nat]
         /\ Total([h \in Holdings |-> FloorLots[h] * Cost[h]]) <= request.budget
<1>1. PICK F \in SUBSET Holdings : F = Fixed /\ Remaining(F) > 0
  BY FixedFacts
<1>2. PICK num \in Nat, den \in Nat \ {0}, n \in Nat, active \in Nat \ {0}, budget \in Nat :
        num = CapNum /\ den = CapDen /\ n = Cardinality(F) /\ active = Active(F) /\ budget = request.budget
  BY <1>1, AllocationAssumption, WeightsLeft, AskedFacts, FS_Subset, FS_CardinalityType
<1>3. PICK raw \in [Holdings -> Nat], cost \in [Holdings -> Nat \ {0}] : raw = RawWeights /\ cost = Cost
  BY RawFacts, AskedFacts
<1>4. PICK room \in Nat : room = Remaining(F) /\ room = den - n * num
  <2>1. n * num \in Nat
    OBVIOUS
  <2>2. QED BY <1>1, <1>2, <2>1 DEF Remaining
<1>5. IsFiniteSet(Holdings)
  BY AllocationAssumption
<1>6. PICK rest : rest = [x \in Holdings |-> IF x \in F THEN 0 ELSE RawWeights[x]]
  OBVIOUS
<1>7. /\ active = SumFunctionOnSet(rest, Holdings)
      /\ \A x \in Holdings : rest[x] \in Nat
  BY <1>2, <1>6, ActiveFacts
<1>8. PICK share : share = [x \in Holdings |-> IF x \in F THEN num * active ELSE raw[x] * room]
  OBVIOUS
<1>9. PICK spent : spent = [x \in Holdings |-> FloorLots[x] * cost[x]]
  OBVIOUS
<1>10. ASSUME NEW h \in Holdings
       PROVE  /\ FloorLots[h] \in Nat /\ share[h] \in Nat /\ spent[h] \in Nat
              /\ (den * active) * spent[h] <= budget * share[h]
  <2>1. PICK c \in Nat \ {0}, r \in Nat : c = cost[h] /\ r = raw[h]
    BY <1>3
  <2>2. FloorLots[h] = (budget * Weight(h).num) \div (Weight(h).den * c)
    BY <1>2, <1>3, <2>1 DEF FloorLots
  <2>3. ASSUME NEW top \in Nat, NEW bottom \in Nat \ {0},
               Weight(h).num = top, Weight(h).den = bottom
        PROVE  FloorLots[h] \in Nat /\ spent[h] \in Nat /\ bottom * spent[h] <= budget * top
    <3>1. PICK all \in Nat, unit \in Nat \ {0} : all = budget * top /\ unit = bottom * c
      OBVIOUS
    <3>2. PICK q \in Nat : q = all \div unit /\ unit * q <= all
      OBVIOUS
    <3>3. FloorLots[h] = q /\ spent[h] = q * c
      BY <1>9, <2>1, <2>2, <2>3, <3>1, <3>2
    <3>4. unit * q = bottom * (q * c) /\ q * c \in Nat
      BY <3>1
    <3>5. QED BY <3>1, <3>2, <3>3, <3>4
  <2>4. CASE h \in F
    <3>1. Weight(h).num = num /\ Weight(h).den = den
      BY <1>1, <1>2, <2>4 DEF Weight
    <3>2. FloorLots[h] \in Nat /\ spent[h] \in Nat /\ den * spent[h] <= budget * num
      BY <2>3, <3>1
    <3>3. PICK s \in Nat : s = spent[h]
      BY <3>2
    <3>4. PICK x \in Nat, y \in Nat : x = den * s /\ y = budget * num
      OBVIOUS
    <3>5. x * active <= y * active
      BY <3>2, <3>3, <3>4
    <3>6. x * active = (den * active) * s /\ y * active = budget * (num * active) /\ num * active \in Nat
      BY <3>4
    <3>7. share[h] = num * active
      BY <1>8, <2>4
    <3>8. QED BY <3>2, <3>3, <3>5, <3>6, <3>7
  <2>5. CASE h \notin F
    <3>1. r * room \in Nat /\ den * active \in Nat \ {0}
      OBVIOUS
    <3>2. Weight(h).num = r * room /\ Weight(h).den = den * active
      BY <1>1, <1>2, <1>3, <1>4, <2>1, <2>5 DEF Weight
    <3>3. share[h] = r * room
      BY <1>8, <2>1, <2>5
    <3>4. QED BY <2>3, <3>1, <3>2, <3>3
  <2>6. QED BY <2>4, <2>5
<1>11. SumFunctionOnSet(share, Holdings) = den * active
  <2>1. PICK pinned : pinned = [x \in Holdings |-> IF x \in F THEN num * active ELSE 0]
    OBVIOUS
  <2>2. PICK others : others = [x \in Holdings |-> room * rest[x]]
    OBVIOUS
  <2>3. ASSUME NEW x \in Holdings
        PROVE  /\ pinned[x] \in Int /\ others[x] \in Int /\ rest[x] \in Int
               /\ others[x] = room * rest[x] /\ share[x] = pinned[x] + others[x]
    <3>1. PICK r \in Nat, w \in Nat : r = raw[x] /\ w = rest[x] /\ w = (IF x \in F THEN 0 ELSE r)
      BY <1>3, <1>6
    <3>2. room * r \in Nat /\ r * room = room * r /\ num * active \in Nat /\ room * 0 = 0
      OBVIOUS
    <3>3. CASE x \in F
      <4>1. pinned[x] = num * active /\ others[x] = 0 /\ share[x] = num * active
        BY <1>8, <2>1, <2>2, <3>1, <3>2, <3>3
      <4>2. QED BY <3>1, <3>2, <3>3, <4>1
    <3>4. CASE x \notin F
      <4>1. pinned[x] = 0 /\ others[x] = room * r /\ share[x] = r * room
        BY <1>8, <2>1, <2>2, <3>1, <3>4
      <4>2. QED BY <3>1, <3>2, <3>4, <4>1
    <3>5. QED BY <3>3, <3>4
  <2>4. SumFunctionOnSet(pinned, Holdings) = n * (num * active)
    <3>1. PICK c \in Int : c = num * active
      OBVIOUS
    <3>2. SumFunctionOnSet(pinned, Holdings) = Cardinality(F) * c
      BY <1>5, <2>1, <3>1, SumCounts
    <3>3. QED BY <1>2, <3>1, <3>2
  <2>5. SumFunctionOnSet(others, Holdings) = room * active
    BY <1>5, <1>7, <2>3, SumScales
  <2>6. SumFunctionOnSet(share, Holdings)
          = SumFunctionOnSet(pinned, Holdings) + SumFunctionOnSet(others, Holdings)
    BY <1>5, <2>3, SumAdds
  <2>7. n * (num * active) + room * active = (n * num + room) * active
    OBVIOUS
  <2>8. n * num + room = den
    BY <1>4
  <2>9. QED BY <2>4, <2>5, <2>6, <2>7, <2>8
<1>12. PICK k \in Nat \ {0} : k = den * active
  OBVIOUS
<1>13. PICK lower : lower = [x \in Holdings |-> k * spent[x]]
  OBVIOUS
<1>14. PICK upper : upper = [x \in Holdings |-> budget * share[x]]
  OBVIOUS
<1>15. ASSUME NEW x \in Holdings
       PROVE  /\ lower[x] \in Int /\ upper[x] \in Int /\ spent[x] \in Int /\ share[x] \in Int
              /\ lower[x] = k * spent[x] /\ upper[x] = budget * share[x] /\ lower[x] <= upper[x]
  <2>1. PICK s \in Nat, w \in Nat : s = spent[x] /\ w = share[x]
    BY <1>10
  <2>2. k * s \in Int /\ budget * w \in Int
    OBVIOUS
  <2>3. QED BY <1>10, <1>12, <1>13, <1>14, <2>1, <2>2
<1>16. SumFunctionOnSet(lower, Holdings) = k * SumFunctionOnSet(spent, Holdings)
  BY <1>5, <1>15, SumScales
<1>17. SumFunctionOnSet(upper, Holdings) = budget * k
  <2>1. SumFunctionOnSet(upper, Holdings) = budget * SumFunctionOnSet(share, Holdings)
    BY <1>5, <1>15, SumScales
  <2>2. QED BY <1>11, <1>12, <2>1
<1>18. SumFunctionOnSet(lower, Holdings) <= SumFunctionOnSet(upper, Holdings)
  BY <1>5, <1>15, SumMonotone
<1>19. SumFunctionOnSet(spent, Holdings) \in Int
  BY <1>5, <1>15, SumType
<1>20. SumFunctionOnSet(spent, Holdings) <= budget
  <2>1. PICK s \in Int : s = SumFunctionOnSet(spent, Holdings)
    BY <1>19
  <2>2. k * s <= budget * k
    BY <1>16, <1>17, <1>18, <2>1
  <2>3. s <= budget
    BY <2>2
  <2>4. QED BY <2>1, <2>3
<1>21. Total([h \in Holdings |-> FloorLots[h] * Cost[h]]) = SumFunctionOnSet(spent, Holdings)
  <2>1. DOMAIN spent = Holdings /\ spent = [h \in Holdings |-> FloorLots[h] * Cost[h]]
    BY <1>3, <1>9
  <2>2. QED BY <2>1, TotalIs
<1>22. FloorLots \in [Holdings -> Nat]
  BY <1>10 DEF FloorLots
<1>23. QED BY <1>2, <1>20, <1>21, <1>22

(* The table of the knapsack: the most of each capacity that lots can      *)
(* fill.                                                                   *)
Fills(r, t, c) == {0} \cup {t[c - r[h]] + r[h] : h \in {g \in Holdings : r[g] <= c}}

IsTable(r, C, t) == \A c \in 0 .. C : t[c] = Max(Fills(r, t, c))

(* One entry, when those before it are no more than their capacity.        *)
LEMMA EntryFacts ==
  ASSUME NEW r \in [Holdings -> Nat \ {0}], NEW t, NEW c \in Nat,
         \A d \in Nat : d < c => t[d] \in Nat /\ t[d] <= d
  PROVE  LET most == Max(Fills(r, t, c))
         IN  /\ most \in Nat /\ most <= c
             /\ \A h \in Holdings : r[h] <= c => t[c - r[h]] + r[h] <= most
             /\ most = 0 \/ \E h \in Holdings : r[h] <= c /\ most = t[c - r[h]] + r[h]
<1>1. ASSUME NEW h \in Holdings, r[h] <= c
      PROVE  t[c - r[h]] + r[h] \in 0 .. c
  <2>1. PICK k \in Nat \ {0} : k = r[h]
    OBVIOUS
  <2>2. c - k \in Nat /\ c - k < c
    BY <1>1, <2>1
  <2>3. t[c - k] \in Nat /\ t[c - k] <= c - k
    BY <2>2
  <2>4. QED BY <2>1, <2>3
<1>2. Fills(r, t, c) \in SUBSET (0 .. c) /\ 0 \in Fills(r, t, c)
  BY <1>1 DEF Fills
<1>3. PICK most : most = Max(Fills(r, t, c))
  OBVIOUS
<1>4. most \in Fills(r, t, c) /\ \A x \in Fills(r, t, c) : x <= most
  <2>1. PICK all \in SUBSET (0 .. c) : all = Fills(r, t, c) /\ all # {}
    BY <1>2
  <2>2. QED BY <1>3, <2>1, BoundedMax
<1>5. \A h \in Holdings : r[h] <= c => t[c - r[h]] + r[h] \in Fills(r, t, c)
  BY DEF Fills
<1>6. most \in 0 .. c
  BY <1>2, <1>4
<1>7. most = 0 \/ \E h \in Holdings : r[h] <= c /\ most = t[c - r[h]] + r[h]
  BY <1>4 DEF Fills
<1>8. QED BY <1>3, <1>4, <1>5, <1>6, <1>7

(* Every entry of a table is such a filling, the best of those that take   *)
(* one lot first.                                                          *)
LEMMA TableFacts ==
  ASSUME NEW r \in [Holdings -> Nat \ {0}], NEW C \in Nat, NEW t, IsTable(r, C, t)
  PROVE  \A c \in 0 .. C :
           /\ t[c] \in Nat /\ t[c] <= c
           /\ \A h \in Holdings : r[h] <= c => t[c - r[h]] + r[h] <= t[c]
           /\ t[c] = 0 \/ \E h \in Holdings : r[h] <= c /\ t[c] = t[c - r[h]] + r[h]
<1> DEFINE good == {n \in Nat : \A d \in 0 .. C : d < n => t[d] \in Nat /\ t[d] <= d}
<1>1. 0 \in good
  OBVIOUS
<1>2. ASSUME NEW n \in Nat, n \in good, n <= C
      PROVE  /\ t[n] = Max(Fills(r, t, n))
             /\ \A d \in Nat : d < n => t[d] \in Nat /\ t[d] <= d
  <2>1. n \in 0 .. C /\ \A d \in Nat : d < n => d \in 0 .. C
    BY <1>2
  <2>2. QED BY <1>2, <2>1 DEF IsTable
<1>3. ASSUME NEW n \in Nat, n \in good
      PROVE  n + 1 \in good
  <2>1. SUFFICES ASSUME NEW d \in 0 .. C, d < n + 1
                 PROVE  t[d] \in Nat /\ t[d] <= d
    OBVIOUS
  <2>2. CASE d < n
    BY <1>3, <2>2
  <2>3. CASE d = n
    <3>1. n <= C
      BY <2>3
    <3>2. Max(Fills(r, t, n)) \in Nat /\ Max(Fills(r, t, n)) <= n
      BY <1>2, <1>3, <3>1, EntryFacts
    <3>3. QED BY <1>2, <1>3, <2>3, <3>1, <3>2
  <2>4. QED BY <2>1, <2>2, <2>3
<1>4. \A n \in Nat : n \in good
  <2>1. \A n \in Nat : n \in good => n + 1 \in good
    BY <1>3
  <2> HIDE DEF good
  <2>2. QED BY ONLY <1>1, <2>1, NumberInduction
<1>5. ASSUME NEW c \in 0 .. C
      PROVE  /\ t[c] \in Nat /\ t[c] <= c
             /\ \A h \in Holdings : r[h] <= c => t[c - r[h]] + r[h] <= t[c]
             /\ t[c] = 0 \/ \E h \in Holdings : r[h] <= c /\ t[c] = t[c - r[h]] + r[h]
  <2>1. c \in Nat /\ c \in good /\ c <= C
    BY <1>4
  <2>2. /\ t[c] = Max(Fills(r, t, c))
        /\ \A d \in Nat : d < c => t[d] \in Nat /\ t[d] <= d
    BY <1>2, <2>1
  <2>3. PICK most : most = Max(Fills(r, t, c))
    OBVIOUS
  <2>4. /\ most \in Nat /\ most <= c
        /\ \A h \in Holdings : r[h] <= c => t[c - r[h]] + r[h] <= most
        /\ most = 0 \/ \E h \in Holdings : r[h] <= c /\ most = t[c - r[h]] + r[h]
    BY <2>1, <2>2, <2>3, EntryFacts
  <2>5. QED BY <2>2, <2>3, <2>4
<1>6. QED BY <1>5

(* There is a table.                                                       *)
LEMMA TableExists ==
  ASSUME NEW r \in [Holdings -> Nat \ {0}], NEW C \in Nat
  PROVE  \E t \in [0 .. C -> Nat] : IsTable(r, C, t)
<1> DEFINE good == {m \in Nat : \E t \in [0 .. m -> Nat] : IsTable(r, m, t)}
<1>1. ASSUME NEW t, NEW u, NEW c \in Nat, NEW m \in Nat, c <= m, \A d \in 0 .. m : d < c => u[d] = t[d]
      PROVE  Fills(r, u, c) = Fills(r, t, c)
  <2>1. ASSUME NEW h \in Holdings, r[h] <= c
        PROVE  u[c - r[h]] = t[c - r[h]]
    <3>1. c - r[h] \in 0 .. m /\ c - r[h] < c
      BY <1>1, <2>1
    <3>2. QED BY <1>1, <3>1
  <2>2. QED BY <2>1 DEF Fills
<1>2. ASSUME NEW m \in Nat, NEW t, \A d \in Nat : d < m => t[d] \in Nat /\ t[d] <= d,
             \A d \in Nat : d < m => t[d] = Max(Fills(r, t, d))
      PROVE  \E u \in [0 .. m -> Nat] : IsTable(r, m, u)
  <2>1. PICK u : u = [c \in 0 .. m |-> IF c = m THEN Max(Fills(r, t, m)) ELSE t[c]]
    OBVIOUS
  <2>2. Max(Fills(r, t, m)) \in Nat
    BY <1>2, EntryFacts
  <2>3. u \in [0 .. m -> Nat]
    BY <1>2, <2>1, <2>2
  <2>4. ASSUME NEW c \in 0 .. m
        PROVE  u[c] = Max(Fills(r, u, c))
    <3>1. \A d \in 0 .. m : d < c => u[d] = t[d]
      BY <2>1
    <3>2. Fills(r, u, c) = Fills(r, t, c)
      <4>1. c \in Nat /\ c <= m
        OBVIOUS
      <4>2. QED BY <1>1, <3>1, <4>1
    <3>3. CASE c = m
      BY <2>1, <3>2, <3>3
    <3>4. CASE c # m
      <4>1. c \in Nat /\ c < m
        BY <3>4
      <4>2. t[c] = Max(Fills(r, t, c)) /\ u[c] = t[c]
        BY <1>2, <2>1, <4>1
      <4>3. QED BY <3>2, <4>2
    <3>5. QED BY <3>3, <3>4
  <2>5. QED BY <2>3, <2>4 DEF IsTable
<1>3. 0 \in good
  <2>1. PICK t : t = <<>>
    OBVIOUS
  <2>2. \A d \in Nat : ~(d < 0)
    OBVIOUS
  <2>3. \E u \in [0 .. 0 -> Nat] : IsTable(r, 0, u)
    BY <1>2, <2>2
  <2>4. QED BY <2>3
<1>4. ASSUME NEW n \in Nat, n \in good
      PROVE  n + 1 \in good
  <2>1. PICK t \in [0 .. n -> Nat] : IsTable(r, n, t)
    BY <1>4
  <2>2. \A c \in 0 .. n : t[c] \in Nat /\ t[c] <= c
    BY <2>1, TableFacts
  <2>3. \A d \in Nat : d < n + 1 => d \in 0 .. n
    OBVIOUS
  <2>4. \A d \in Nat : d < n + 1 => t[d] = Max(Fills(r, t, d))
    BY <2>1, <2>3 DEF IsTable
  <2>5. \E u \in [0 .. n + 1 -> Nat] : IsTable(r, n + 1, u)
    <3>1. \A d \in Nat : d < n + 1 => t[d] \in Nat /\ t[d] <= d
      BY <2>2, <2>3
    <3>2. PICK m \in Nat : m = n + 1
      OBVIOUS
    <3>3. \E u \in [0 .. m -> Nat] : IsTable(r, m, u)
      BY <1>2, <2>4, <3>1, <3>2
    <3>4. QED BY <3>2, <3>3
  <2>6. QED BY <2>5
<1>5. \A n \in Nat : n \in good
  <2>1. \A n \in Nat : n \in good => n + 1 \in good
    BY <1>4
  <2> HIDE DEF good
  <2>2. QED BY ONLY <1>3, <2>1, NumberInduction
<1>6. QED BY <1>5

(* What some lots come to, by the cost or the worth of a lot.              *)
Value(f, r) == Total([x \in Holdings |-> f[x] * r[x]])

(* One lot more.                                                           *)
LEMMA OneMore ==
  ASSUME NEW f \in [Holdings -> Nat], NEW r \in [Holdings -> Nat], NEW h \in Holdings,
         NEW g, g[h] = f[h] + 1, \A x \in Holdings : x # h => g[x] = f[x]
  PROVE  Value(g, r) = Value(f, r) + r[h] /\ Value(f, r) \in Nat
<1>1. PICK before : before = [x \in Holdings |-> f[x] * r[x]]
  OBVIOUS
<1>2. PICK after : after = [x \in Holdings |-> g[x] * r[x]]
  OBVIOUS
<1>3. \A x \in Holdings : before[x] \in Nat
  <2>1. ASSUME NEW x \in Holdings
        PROVE  before[x] \in Nat
    <3>1. PICK a \in Nat, b \in Nat : a = f[x] /\ b = r[x]
      OBVIOUS
    <3>2. a * b \in Nat
      OBVIOUS
    <3>3. QED BY <1>1, <3>1, <3>2
  <2>2. QED BY <2>1
<1>4. PICK d \in Int : d = r[h]
  OBVIOUS
<1>5. after = [x \in Holdings |-> IF x = h THEN before[x] + d ELSE before[x]]
  <2>1. ASSUME NEW x \in Holdings
        PROVE  after[x] = IF x = h THEN before[x] + d ELSE before[x]
    <3>1. PICK a \in Nat, b \in Nat : a = f[x] /\ b = r[x]
      OBVIOUS
    <3>2. (a + 1) * b = a * b + b
      OBVIOUS
    <3>3. CASE x = h
      <4>1. g[x] = a + 1
        BY <3>1, <3>3
      <4>2. QED BY <1>1, <1>2, <1>4, <3>1, <3>2, <3>3, <4>1
    <3>4. CASE x # h
      BY <1>1, <1>2, <3>4
    <3>5. QED BY <3>3, <3>4
  <2>2. QED BY <1>2, <2>1
<1>6. IsFiniteSet(Holdings)
  BY AllocationAssumption
<1>7. SumFunctionOnSet(after, Holdings) = SumFunctionOnSet(before, Holdings) + d
  <2>1. \A x \in Holdings : before[x] \in Int
    BY <1>3
  <2>2. QED BY ONLY <1>4, <1>5, <1>6, <2>1, SumGrows
<1>8. Total(after) = SumFunctionOnSet(after, Holdings) /\ Total(before) = SumFunctionOnSet(before, Holdings)
  BY <1>1, <1>2, TotalIs
<1>9. SumFunctionOnSet(before, Holdings) \in Nat
  <2>1. SumFunctionOnSet(before, Holdings) \in Int
    BY <1>3, <1>6, SumType
  <2>2. before[h] <= SumFunctionOnSet(before, Holdings) /\ before[h] \in Nat
    BY <1>3, <1>6, SumCovers
  <2>3. QED BY <2>1, <2>2
<1>10. QED BY <1>1, <1>2, <1>4, <1>7, <1>8, <1>9 DEF Value

(* No lots cost nothing.                                                   *)
LEMMA NoneCost ==
  ASSUME NEW f, \A h \in Holdings : f[h] = 0, NEW r \in [Holdings -> Nat]
  PROVE  Value(f, r) = 0
<1>1. PICK cost : cost = [x \in Holdings |-> f[x] * r[x]]
  OBVIOUS
<1>2. \A x \in Holdings : cost[x] = 0
  BY <1>1
<1>3. SumFunctionOnSet(cost, Holdings) = 0
  BY <1>2, AllocationAssumption, SumOfNothing
<1>4. QED BY <1>1, <1>3, TotalIs DEF Value

(* No choice of lots fills more of a capacity than its entry in the table. *)
LEMMA TableIsBest ==
  ASSUME NEW r \in [Holdings -> Nat \ {0}], NEW C \in Nat, NEW t, IsTable(r, C, t),
         NEW c \in 0 .. C, NEW f \in [Holdings -> Nat],
         Value(f, r) <= c
  PROVE  Value(f, r) <= t[c]
<1> DEFINE good == {n \in Nat : \A d \in 0 .. C : d < n => \A g \in [Holdings -> Nat] :
                                   Value(g, r) <= d => Value(g, r) <= t[d]}
<1>1. 0 \in good
  OBVIOUS
<1>2. ASSUME NEW n \in Nat, n \in good
      PROVE  n + 1 \in good
  <2>1. SUFFICES ASSUME NEW d \in 0 .. C, d < n + 1, NEW g \in [Holdings -> Nat], Value(g, r) <= d
                 PROVE  Value(g, r) <= t[d]
    OBVIOUS
  <2>2. t[d] \in Nat /\ \A h \in Holdings : r[h] <= d => t[d - r[h]] + r[h] <= t[d]
    BY TableFacts
  <2>3. CASE \A h \in Holdings : g[h] = 0
    <3>1. Value(g, r) = 0
      BY <2>3, NoneCost
    <3>2. QED BY <2>2, <3>1
  <2>4. CASE \E h \in Holdings : g[h] # 0
    <3>1. PICK h \in Holdings : g[h] # 0
      BY <2>4
    <3>2. PICK less : less = [g EXCEPT ![h] = @ - 1]
      OBVIOUS
    <3>3. /\ less \in [Holdings -> Nat]
          /\ g[h] = less[h] + 1 /\ \A x \in Holdings : x # h => g[x] = less[x]
      <4>1. PICK k \in Nat \ {0} : k = g[h]
        BY <3>1
      <4>2. k - 1 \in Nat /\ (k - 1) + 1 = k
        OBVIOUS
      <4>3. less \in [Holdings -> Nat]
        BY <3>2, <4>1, <4>2
      <4>4. less[h] + 1 = g[h]
        BY <3>2, <4>1, <4>2
      <4>5. QED BY <3>2, <4>3, <4>4
    <3>4. Value(g, r) = Value(less, r) + r[h] /\ Value(less, r) \in Nat
      <4>1. r \in [Holdings -> Nat] /\ h \in Holdings
        OBVIOUS
      <4>2. QED BY ONLY <3>3, <4>1, OneMore
    <3>5. PICK k \in Nat \ {0}, b \in Nat : k = r[h] /\ b = Value(less, r)
      BY <3>4
    <3>6. b + k <= d
      BY <2>1, <3>4, <3>5
    <3>7. d - k \in 0 .. C /\ d - k < n /\ b <= d - k /\ k <= d
      BY <2>1, <3>6
    <3>8. b <= t[d - k]
      BY <1>2, <3>3, <3>5, <3>7
    <3>9. t[d - k] + k <= t[d] /\ t[d - k] \in Nat
      BY <2>2, <3>5, <3>7, TableFacts
    <3>10. QED BY <2>2, <3>4, <3>5, <3>8, <3>9
  <2>5. QED BY <2>3, <2>4
<1>3. \A n \in Nat : n \in good
  <2>1. \A n \in Nat : n \in good => n + 1 \in good
    BY <1>2
  <2> HIDE DEF good
  <2>2. QED BY ONLY <1>1, <2>1, NumberInduction
<1>4. PICK n \in Nat : n = c + 1
  OBVIOUS
<1>5. c < n
  BY <1>4
<1>6. n \in good
  <2> HIDE DEF good
  <2>1. QED BY <1>3
<1>7. QED BY <1>5, <1>6

(* What lots cost is a whole number, and the sum of what each name costs.  *)
LEMMA ValueFacts ==
  ASSUME NEW f \in [Holdings -> Nat], NEW r \in [Holdings -> Nat], NEW cost,
         cost = [x \in Holdings |-> f[x] * r[x]]
  PROVE  /\ \A x \in Holdings : cost[x] \in Nat /\ cost[x] \in Int
         /\ Value(f, r) = SumFunctionOnSet(cost, Holdings) /\ Value(f, r) \in Nat
<1>1. ASSUME NEW x \in Holdings
      PROVE  cost[x] \in Nat /\ cost[x] \in Int
  <2>1. PICK a \in Nat, b \in Nat : a = f[x] /\ b = r[x]
    OBVIOUS
  <2>2. a * b \in Nat
    OBVIOUS
  <2>3. QED BY <2>1, <2>2
<1>2. Total(cost) = SumFunctionOnSet(cost, Holdings)
  BY TotalIs
<1>3. PICK h \in Holdings, g \in {[f EXCEPT ![x] = @ + 1] : x \in Holdings} : g = [f EXCEPT ![h] = @ + 1]
  BY AllocationAssumption
<1>4. g[h] = f[h] + 1 /\ \A x \in Holdings : x # h => g[x] = f[x]
  BY <1>3
<1>5. Value(f, r) \in Nat
  BY ONLY f \in [Holdings -> Nat], r \in [Holdings -> Nat], h \in Holdings, <1>4, OneMore
<1>6. QED BY <1>1, <1>2, <1>5 DEF Value

(* Lots that cost a multiple come to the multiple.                         *)
LEMMA ValueScales ==
  ASSUME NEW f \in [Holdings -> Nat], NEW r \in [Holdings -> Nat], NEW s \in [Holdings -> Nat],
         NEW k \in Nat, \A h \in Holdings : s[h] = k * r[h]
  PROVE  Value(f, s) = k * Value(f, r)
<1>1. PICK cost : cost = [x \in Holdings |-> f[x] * r[x]]
  OBVIOUS
<1>2. PICK more : more = [x \in Holdings |-> f[x] * s[x]]
  OBVIOUS
<1>3. ASSUME NEW x \in Holdings
      PROVE  more[x] = k * cost[x]
  <2>1. PICK a \in Nat, b \in Nat : a = f[x] /\ b = r[x]
    OBVIOUS
  <2>2. a * (k * b) = k * (a * b)
    OBVIOUS
  <2>3. QED BY <1>1, <1>2, <2>1, <2>2
<1>4. (\A x \in Holdings : cost[x] \in Int) /\ (\A x \in Holdings : more[x] = k * cost[x])
  BY <1>1, <1>3, ValueFacts
<1>5. IsFiniteSet(Holdings) /\ k \in Int
  BY AllocationAssumption
<1>6. SumFunctionOnSet(more, Holdings) = k * SumFunctionOnSet(cost, Holdings)
  BY ONLY <1>4, <1>5, SumScales
<1>7. Value(f, r) = SumFunctionOnSet(cost, Holdings)
  BY <1>1, ValueFacts
<1>8. Value(f, s) = SumFunctionOnSet(more, Holdings)
  BY <1>2, ValueFacts
<1>9. QED BY <1>6, <1>7, <1>8

(* Lots that cost more come to more.                                       *)
LEMMA ValueMonotone ==
  ASSUME NEW f \in [Holdings -> Nat], NEW r \in [Holdings -> Nat], NEW s \in [Holdings -> Nat],
         \A h \in Holdings : r[h] <= s[h]
  PROVE  Value(f, r) <= Value(f, s)
<1>1. PICK cost : cost = [x \in Holdings |-> f[x] * r[x]]
  OBVIOUS
<1>2. PICK more : more = [x \in Holdings |-> f[x] * s[x]]
  OBVIOUS
<1>3. ASSUME NEW x \in Holdings
      PROVE  cost[x] <= more[x]
  <2>1. PICK a \in Nat, b \in Nat, c \in Nat : a = f[x] /\ b = r[x] /\ c = s[x] /\ b <= c
    OBVIOUS
  <2>2. a * b <= a * c
    BY <2>1
  <2>3. QED BY <1>1, <1>2, <2>1, <2>2
<1>4. \A x \in Holdings : cost[x] \in Int
  BY <1>1, ValueFacts
<1>5. \A x \in Holdings : more[x] \in Int
  BY <1>2, ValueFacts
<1>6. IsFiniteSet(Holdings)
  BY AllocationAssumption
<1>7. SumFunctionOnSet(cost, Holdings) <= SumFunctionOnSet(more, Holdings)
  <2>1. \A x \in Holdings : cost[x] <= more[x]
    BY <1>3
  <2>2. QED BY ONLY <1>4, <1>5, <1>6, <2>1, SumMonotone
<1>8. Value(f, r) = SumFunctionOnSet(cost, Holdings)
  BY <1>1, ValueFacts
<1>9. Value(f, s) = SumFunctionOnSet(more, Holdings)
  BY <1>2, ValueFacts
<1>10. QED BY <1>7, <1>8, <1>9

(* Whole yen: costs are rounded up, the budget down.                       *)
LEMMA YenFacts ==
  ASSUME Asked
  PROVE  /\ YenCost \in [Holdings -> Nat \ {0}] /\ YenBudget \in Nat
         /\ \A h \in Holdings : Cost[h] <= Fraction * YenCost[h]
         /\ Fraction * YenBudget <= request.budget
<1>1. PICK frac \in Nat \ {0}, budget \in Nat : frac = Fraction /\ budget = request.budget
  BY AllocationAssumption, AskedFacts
<1>2. ASSUME NEW h \in Holdings
      PROVE  Ceil(Cost[h]) \in Nat \ {0} /\ Cost[h] <= Fraction * Ceil(Cost[h])
  <2>1. PICK c \in Nat \ {0} : c = Cost[h]
    BY AskedFacts
  <2>2. PICK up \in Int : up = (c + frac - 1) \div frac
    OBVIOUS
  <2>3. frac * up <= c + frac - 1 /\ c + frac - 1 < frac * up + frac
    BY <2>2
  <2>4. c <= frac * up
    BY <2>3
  <2>5. up > 0
    BY <2>4
  <2>6. QED BY <1>1, <2>1, <2>2, <2>4, <2>5 DEF Ceil
<1>3. PICK down \in Nat : down = budget \div frac /\ frac * down <= budget
  OBVIOUS
<1>4. YenCost \in [Holdings -> Nat \ {0}] /\ \A h \in Holdings : Cost[h] <= Fraction * YenCost[h]
  BY <1>2 DEF YenCost
<1>5. QED BY <1>1, <1>3, <1>4 DEF YenBudget

(* A purchase within the whole yen of the budget is within the budget.     *)
LEMMA YenFits ==
  ASSUME Asked, NEW f \in [Holdings -> Nat], Value(f, YenCost) <= YenBudget
  PROVE  Value(f, Cost) <= request.budget
<1>1. PICK frac \in Nat, yen \in [Holdings -> Nat], cost \in [Holdings -> Nat] :
        frac = Fraction /\ yen = YenCost /\ cost = Cost
  BY AllocationAssumption, AskedFacts, YenFacts
<1>2. PICK full : full = [h \in Holdings |-> frac * yen[h]]
  OBVIOUS
<1>3. \A h \in Holdings : full[h] \in Nat /\ full[h] = frac * yen[h] /\ cost[h] <= full[h]
  <2>1. ASSUME NEW h \in Holdings
        PROVE  full[h] \in Nat /\ full[h] = frac * yen[h] /\ cost[h] <= full[h]
    <3>1. PICK y \in Nat : y = yen[h]
      OBVIOUS
    <3>2. frac * y \in Nat
      OBVIOUS
    <3>3. cost[h] <= frac * y
      BY <1>1, <3>1, YenFacts
    <3>4. QED BY <1>2, <3>1, <3>2, <3>3
  <2>2. QED BY <2>1
<1>4. full \in [Holdings -> Nat]
  BY <1>2, <1>3
<1>5. Value(f, cost) <= Value(f, full)
  BY <1>3, <1>4, ValueMonotone
<1>6. Value(f, full) = frac * Value(f, yen)
  BY <1>3, <1>4, ValueScales
<1>7. PICK v \in Nat, b \in Nat, budget \in Nat :
        v = Value(f, yen) /\ b = YenBudget /\ budget = request.budget
  <2>1. Value(f, yen) \in Nat
    BY ValueFacts
  <2>2. QED BY <2>1, YenFacts, AskedFacts
<1>8. frac * v <= frac * b
  BY <1>1, <1>7
<1>9. frac * b <= budget
  BY <1>1, <1>7, YenFacts
<1>10. Value(f, cost) \in Nat
  BY ONLY f \in [Holdings -> Nat], cost \in [Holdings -> Nat], ValueFacts
<1>11. PICK x \in Nat, y \in Nat : x = frac * v /\ y = frac * b
  OBVIOUS
<1>12. Value(f, cost) <= x /\ x <= y /\ y <= budget
  BY <1>5, <1>6, <1>7, <1>8, <1>9, <1>11
<1>13. QED BY <1>1, <1>7, <1>10, <1>12

(* What the costs and the budget have in common divides all of them.       *)
ReducedCost == [h \in Holdings |-> Reduced(h)]

(* The divisor is a whole number, at least one, and divides without a rest. *)
LEMMA ReducedFacts ==
  ASSUME Asked, ~TooPoor
  PROVE  /\ Divisor \in Nat \ {0} /\ Capacity \in Nat /\ YenBudget = Divisor * Capacity
         /\ ReducedCost \in [Holdings -> Nat \ {0}]
         /\ \A h \in Holdings : YenCost[h] = Divisor * ReducedCost[h]
<1>1. PICK yen \in [Holdings -> Nat \ {0}], budget \in Nat : yen = YenCost /\ budget = YenBudget
  BY YenFacts
<1>2. budget > 0
  <2>1. PICK all : all = Range(yen)
    OBVIOUS
  <2>2. all \in SUBSET Nat /\ all # {} /\ \A y \in all : y > 0
    BY <2>1, AllocationAssumption DEF Range
  <2>3. Min(all) \in all
    BY <2>2, MinFact
  <2>4. QED BY <1>1, <2>1, <2>2, <2>3 DEF TooPoor
<1>3. PICK common : common = {d \in 1 .. budget : Divides(d)}
  OBVIOUS
<1>4. 1 \in common
  <2>1. ASSUME NEW x \in Nat
        PROVE  x % 1 = 0
    OBVIOUS
  <2>2. QED BY <1>1, <1>2, <1>3, <2>1 DEF Divides
<1>5. PICK d \in 1 .. budget : d = Divisor /\ Divides(d)
  <2>1. common \in SUBSET (1 .. budget) /\ common # {}
    BY <1>3, <1>4
  <2>2. Max(common) \in common
    BY <2>1, MaxFact
  <2>3. QED BY <1>1, <1>3, <2>2 DEF Divisor
<1>6. ASSUME NEW x \in Nat, x % d = 0
      PROVE  x \div d \in Nat /\ x = d * (x \div d)
  <2>1. d \in Nat \ {0}
    OBVIOUS
  <2>2. QED BY <1>6, <2>1
<1>7. Capacity \in Nat /\ YenBudget = Divisor * Capacity
  BY <1>1, <1>5, <1>6 DEF Capacity, Divides
<1>8. ASSUME NEW h \in Holdings
      PROVE  Reduced(h) \in Nat \ {0} /\ YenCost[h] = Divisor * Reduced(h)
  <2>1. PICK c \in Nat \ {0} : c = yen[h]
    OBVIOUS
  <2>2. c % d = 0
    BY <1>1, <1>5, <2>1 DEF Divides
  <2>3. PICK q \in Nat : q = c \div d /\ c = d * q
    BY <1>6, <2>2
  <2>4. q # 0
    BY <2>3
  <2>5. QED BY <1>1, <1>5, <2>1, <2>3, <2>4 DEF Reduced
<1>9. QED BY <1>5, <1>7, <1>8 DEF ReducedCost

(* Best is the table of the reduced costs.                                 *)
LEMMA BestIsTable ==
  ASSUME Asked, ~TooPoor
  PROVE  IsTable(ReducedCost, Capacity, Best)
<1>1. PICK r \in [Holdings -> Nat \ {0}], C \in Nat : r = ReducedCost /\ C = Capacity
  BY ReducedFacts
<1> DEFINE Solves(b) ==
      b = [c \in 0 .. C |->
             Max({0} \cup {b[c - Reduced(h)] + Reduced(h) : h \in {g \in Holdings : Reduced(g) <= c}})]
<1>2. \A h \in Holdings : Reduced(h) = r[h]
  BY <1>1 DEF ReducedCost
<1>3. ASSUME NEW b, NEW c
      PROVE  {0} \cup {b[c - Reduced(h)] + Reduced(h) : h \in {g \in Holdings : Reduced(g) <= c}}
               = Fills(r, b, c)
  BY <1>2 DEF Fills
<1>4. \E b : Solves(b)
  <2>1. PICK b \in [0 .. C -> Nat] : IsTable(r, C, b)
    BY TableExists
  <2>2. \A c \in 0 .. C : b[c] = Max(Fills(r, b, c))
    BY <2>1 DEF IsTable
  <2>3. Solves(b)
    BY <1>3, <2>2
  <2>4. QED BY <2>3
<1>5. PICK b : b = (CHOOSE t : Solves(t)) /\ Solves(b)
  BY <1>4
<1>6. Best = (CHOOSE t : Solves(t))
  BY <1>1 DEF Best
<1>7. \A c \in 0 .. C : b[c] = Max(Fills(r, b, c))
  <2>1. ASSUME NEW c \in 0 .. C
        PROVE  b[c] = Max({0} \cup {b[c - Reduced(h)] + Reduced(h) :
                                      h \in {g \in Holdings : Reduced(g) <= c}})
    BY <1>5
  <2>2. QED BY <1>3, <2>1
<1> HIDE DEF Solves
<1>8. QED BY <1>1, <1>5, <1>6, <1>7 DEF IsTable

(* Of the holdings in a set one is best, whatever compares any two.        *)
LEMMA SomeBest ==
  ASSUME NEW S \in SUBSET Holdings, S # {}, NEW R,
         \A g, h \in Holdings : <<g, h>> \in R \/ <<h, g>> \in R,
         \A f, g, h \in Holdings : <<f, g>> \in R /\ <<g, h>> \in R => <<f, h>> \in R
  PROVE  \E h \in S : \A g \in S : <<h, g>> \in R
<1> DEFINE good == {s \in SUBSET Holdings : s = {} \/ \E h \in s : \A g \in s : <<h, g>> \in R}
<1>1. {} \in good
  OBVIOUS
<1>2. ASSUME NEW s \in SUBSET Holdings, s # {}, s \ {Some(s)} \in good
      PROVE  s \in good
  <2>1. PICK x \in s : x = Some(s)
    BY <1>2, SomeFact
  <2>2. CASE s \ {x} = {}
    <3>1. \A g \in s : g = x
      BY <2>2
    <3>2. QED BY <3>1
  <2>3. CASE s \ {x} # {}
    <3>1. PICK b \in s \ {x} : \A g \in s \ {x} : <<b, g>> \in R
      BY <1>2, <2>1, <2>3
    <3>2. CASE <<b, x>> \in R
      BY <3>1, <3>2
    <3>3. CASE <<x, b>> \in R
      BY <3>1, <3>3
    <3>4. QED BY <3>2, <3>3
  <2>4. QED BY <2>2, <2>3
<1>3. S \in good
  <2>1. \A s \in SUBSET Holdings : s # {} /\ s \ {Some(s)} \in good => s \in good
    BY <1>2
  <2>2. IsFiniteSet(Holdings)
    BY AllocationAssumption
  <2> HIDE DEF good
  <2>3. \A s \in SUBSET Holdings : s \in good
    BY ONLY <1>1, <2>1, <2>2, SubsetInduction
  <2>4. QED BY <2>3
<1>4. QED BY <1>3

(* The holdings are in their order.                                        *)
LEMMA HoldingsAreNumbers == Holdings \in SUBSET Nat
<1>1. PICK n \in Nat : Holdings = 1 .. n
  BY AllocationAssumption, FS_CardinalityType
<1>2. QED BY <1>1

(* The dearest lot and the best lot for its price are among those looked   *)
(* at.                                                                     *)
LEMMA DearestIsOne ==
  ASSUME Asked, NEW S \in SUBSET Holdings, S # {}
  PROVE  Dearest(S) \in S
<1>1. PICK yen \in [Holdings -> Nat] : yen = YenCost
  BY YenFacts
<1>2. PICK R : R = {p \in Holdings \X Holdings : yen[p[2]] <= yen[p[1]]}
  OBVIOUS
<1>3. \A g, h \in Holdings : <<g, h>> \in R <=> yen[h] <= yen[g]
  BY <1>2
<1>4. PICK h \in S : \A g \in S : <<h, g>> \in R
  BY <1>3, SomeBest
<1>5. PICK dear : dear = {x \in S : \A g \in S : YenCost[g] <= YenCost[x]}
  OBVIOUS
<1>6. dear \in SUBSET Nat /\ h \in dear
  <2>1. Holdings \in SUBSET Nat
    BY HoldingsAreNumbers
  <2>2. \A g \in S : YenCost[g] <= YenCost[h]
    BY <1>1, <1>3, <1>4
  <2>3. QED BY <1>5, <2>1, <2>2
<1>7. Min(dear) \in dear
  BY <1>6, MinFact
<1>8. QED BY <1>5, <1>7 DEF Dearest

(* Better is a total order, so one lot is as good as any other.            *)
LEMMA BestOfIsOne ==
  ASSUME Asked, NEW S \in SUBSET Holdings, S # {}
  PROVE  BestOf(S) \in S
<1>1. PICK c \in [Holdings -> Nat \ {0}], w \in [Holdings -> Nat] : c = Cost /\ w = Worth
  BY AskedFacts
<1>2. PICK R : R = {p \in Holdings \X Holdings : Better(p[1], p[2])}
  OBVIOUS
<1>3. \A g, h \in Holdings : <<g, h>> \in R <=> Better(g, h)
  BY <1>2
<1>4. ASSUME NEW g \in Holdings, NEW h \in Holdings
      PROVE  Better(g, h) \/ Better(h, g)
  <2>1. PICK cg \in Nat, ch \in Nat, wg \in Nat, wh \in Nat :
          cg = c[g] /\ ch = c[h] /\ wg = w[g] /\ wh = w[h]
    OBVIOUS
  <2>2. PICK a \in Nat, b \in Nat : a = wg * ch /\ b = wh * cg
    OBVIOUS
  <2>3. QED BY <1>1, <2>1, <2>2 DEF Better
<1>5. ASSUME NEW f \in Holdings, NEW g \in Holdings, NEW h \in Holdings, Better(f, g), Better(g, h)
      PROVE  Better(f, h)
  <2>1. PICK cf \in Nat \ {0}, cg \in Nat \ {0}, ch \in Nat \ {0}, wf \in Nat, wg \in Nat, wh \in Nat :
          cf = c[f] /\ cg = c[g] /\ ch = c[h] /\ wf = w[f] /\ wg = w[g] /\ wh = w[h]
    OBVIOUS
  <2>2. /\ wf * cg > wg * cf \/ (wf * cg = wg * cf /\ cf <= cg)
        /\ wg * ch > wh * cg \/ (wg * ch = wh * cg /\ cg <= ch)
    BY <1>1, <1>5, <2>1 DEF Better
  <2>3. PICK a \in Nat, b \in Nat, x \in Nat, y \in Nat :
          a = wf * cg /\ b = wg * cf /\ x = wg * ch /\ y = wh * cg
    OBVIOUS
  <2>4. PICK u \in Nat, v \in Nat : u = wf * ch /\ v = wh * cf
    OBVIOUS
  <2>5. u * cg = a * ch /\ b * ch = x * cf /\ y * cf = v * cg
    BY <2>3, <2>4
  <2>6. a >= b /\ x >= y
    BY <2>2, <2>3
  <2>7. a * ch >= b * ch /\ x * cf >= y * cf
    BY <2>6
  <2>8. u * cg >= v * cg
    BY <2>5, <2>7
  <2>9. u >= v
    BY <2>8
  <2>10. CASE a > b \/ x > y
    <3>1. a * ch > b * ch \/ x * cf > y * cf
      BY <2>10
    <3>2. u * cg > v * cg
      BY <2>5, <2>7, <3>1
    <3>3. u > v
      BY <3>2
    <3>4. QED BY <1>1, <2>1, <2>4, <3>3 DEF Better
  <2>11. CASE ~(a > b \/ x > y)
    <3>1. cf <= cg /\ cg <= ch
      BY <2>2, <2>3, <2>11
    <3>2. QED BY <1>1, <2>1, <2>4, <2>9, <3>1 DEF Better
  <2>12. QED BY <2>10, <2>11
<1>6. PICK h \in S : \A g \in S : <<h, g>> \in R
  <2>1. \A g, h \in Holdings : <<g, h>> \in R \/ <<h, g>> \in R
    BY <1>3, <1>4
  <2>2. \A f, g, h \in Holdings : <<f, g>> \in R /\ <<g, h>> \in R => <<f, h>> \in R
    BY <1>3, <1>5
  <2>3. QED BY <2>1, <2>2, SomeBest
<1>7. PICK best : best = {x \in S : \A g \in S : Better(x, g)}
  OBVIOUS
<1>8. best \in SUBSET Nat /\ h \in best
  <2>1. Holdings \in SUBSET Nat
    BY HoldingsAreNumbers
  <2>2. \A g \in S : Better(h, g)
    BY <1>3, <1>6
  <2>3. QED BY <1>7, <2>1, <2>2
<1>9. Min(best) \in best
  BY <1>8, MinFact
<1>10. QED BY <1>7, <1>9 DEF BestOf

(* What a request asks for stays, so what is computed from it does.        *)
LEMMA SameRequest ==
  ASSUME request' = request
  PROVE  /\ Asked' = Asked /\ Cost' = Cost /\ YenCost' = YenCost /\ YenBudget' = YenBudget
         /\ TooPoor' = TooPoor /\ TooLarge' = TooLarge /\ Capacity' = Capacity
         /\ ReducedCost' = ReducedCost /\ Best' = Best
         /\ ByWeight' = ByWeight /\ Nothing' = Nothing
<1>1. Asked' = Asked
  BY SMT DEF Asked, BudgetRequests, TargetRequests, Requested, NoLots
<1>2. Cost' = Cost /\ YenCost' = YenCost /\ YenBudget' = YenBudget /\ TooPoor' = TooPoor
  BY SMT DEF TooPoor, YenBudget, YenCost, Ceil, Cost, Range
<1>3. TooLarge' = TooLarge /\ Capacity' = Capacity
  BY SMT DEF TooLarge, Capacity, Divisor, Divides, YenBudget, YenCost, Ceil, Cost
<1>4. ReducedCost' = ReducedCost
  BY SMT DEF ReducedCost, Reduced, Divisor, Divides, YenBudget, YenCost, Ceil, Cost
<1>5. Best' = Best
  BY SMT DEF Best, Reduced, Capacity, Divisor, Divides, YenBudget, YenCost, Ceil, Cost
<1>6. ByWeight' = ByWeight /\ Nothing' = Nothing
  BY SMT DEF ByWeight, Nothing, Eligible, Worth, TooPoor, YenBudget, YenCost, Ceil, Cost, Range
<1>7. QED BY <1>1, <1>2, <1>3, <1>4, <1>5, <1>6

(* What lots, the step and what is left have to do with each other once a  *)
(* budget was asked about: money that is not left was spent, and what the  *)
(* table still promises is what is missing from its best.                  *)
Settled(l, rem, st) ==
  /\ l \in [Holdings -> Nat] /\ rem \in Nat
  /\ st = "start" => l = NoLots
  /\ st = "buy" => ~ByWeight /\ ~Nothing
  /\ st = "done" /\ Nothing => l = NoLots
  /\ st = "done" /\ ByWeight => Value(l, Cost) <= request.budget
  /\ st \in {"buy", "done"} /\ request.mode = "dividend_max" /\ ~ByWeight =>
       Value(l, Cost) + rem = request.budget
  /\ st \in {"buy", "done"} /\ request.mode = "cash_min" /\ ~TooPoor =>
       IF TooLarge THEN Value(l, YenCost) + rem = YenBudget
       ELSE /\ Value(l, ReducedCost) + rem = Capacity
            /\ Value(l, ReducedCost) + Best[rem] = Best[Capacity]
            /\ st = "done" => Best[rem] = 0

AllocInv ==
  /\ step \in {"ask", "start", "buy", "done"}
  /\ step = "ask" => request = NoRequest /\ lots = NoLots /\ left = 0
  /\ step # "ask" => Asked /\ Settled(lots, left, step)

(* While the request stays, only the lots, the rest and the step matter.   *)
LEMMA StaysSettled ==
  ASSUME request' = request, Asked, step' \in {"start", "buy", "done"},
         Settled(lots', left', step')
  PROVE  AllocInv'
<1>1. Settled(lots, left, step)'
  BY SameRequest DEF Settled, NoLots
<1>2. QED BY <1>1, SameRequest DEF AllocInv

(* One lot more costs one lot more.                                        *)
LEMMA TakeOne ==
  ASSUME lots \in [Holdings -> Nat], NEW h \in Holdings, Take(h), NEW r \in [Holdings -> Nat]
  PROVE  /\ lots' \in [Holdings -> Nat]
         /\ Value(lots', r) = Value(lots, r) + r[h] /\ Value(lots, r) \in Nat
<1>1. lots' \in [Holdings -> Nat] /\ lots'[h] = lots[h] + 1
  BY DEF Take
<1>2. \A x \in Holdings : x # h => lots'[x] = lots[x]
  BY DEF Take
<1>3. QED BY <1>1, <1>2, OneMore

(* No lots cost nothing.                                                   *)
LEMMA NothingBought ==
  /\ NoLots \in [Holdings -> Nat]
  /\ \A r \in [Holdings -> Nat] : Value(NoLots, r) = 0
<1>1. NoLots \in [Holdings -> Nat] /\ \A h \in Holdings : NoLots[h] = 0
  BY DEF NoLots
<1>2. QED BY <1>1, NoneCost

(* A request starts with nothing bought.                                   *)
LEMMA AskSettles ==
  ASSUME AllocInv, NEW req \in BudgetRequests \cup TargetRequests, Ask(req)
  PROVE  AllocInv'
<1>1. Asked' /\ step' = "start" /\ lots' = NoLots /\ left' = 0
  BY DEF Ask, AllocInv, Asked, BudgetRequests, TargetRequests, Requested, NoLots
<1>2. Settled(lots, left, step)'
  BY <1>1, NothingBought DEF Settled, NoLots
<1>3. QED BY <1>1, <1>2 DEF AllocInv

(* What the weights buy fits the budget.                                   *)
LEMMA SplitSettles ==
  ASSUME AllocInv, Split
  PROVE  AllocInv'
<1>1. Asked /\ Settled(lots, left, step) /\ request' = request /\ left' = left /\ step' = "done"
  BY DEF AllocInv, Split
<1>2. lots' = FloorLots /\ ByWeight
  BY DEF Split
<1>3. ~Nothing /\ request.mode # "cash_min"
  BY <1>2, AskedFacts DEF ByWeight, Nothing, Weighted
<1>4. Value(FloorLots, Cost) <= request.budget /\ FloorLots \in [Holdings -> Nat]
  BY <1>1, SplitFits DEF Value
<1>5. Settled(lots', left', step')
  BY <1>1, <1>2, <1>3, <1>4 DEF Settled
<1>6. QED BY <1>1, <1>5, StaysSettled

(* With nothing to buy, nothing is bought.                                 *)
LEMMA NothingSettles ==
  ASSUME AllocInv, BuyNothing
  PROVE  AllocInv'
<1>1. /\ Asked /\ Settled(lots, left, step) /\ request' = request
      /\ left' = left /\ step' = "done" /\ lots' = NoLots
  BY DEF AllocInv, BuyNothing, Settled
<1>2. Nothing
  BY DEF BuyNothing
<1>3. ~ByWeight /\ request.mode # "dividend_max" /\ (request.mode = "cash_min" => TooPoor)
  BY <1>2, AskedFacts DEF ByWeight, Nothing, Weighted
<1>4. Settled(lots', left', step')
  BY <1>1, <1>3, NothingBought DEF Settled
<1>5. QED BY <1>1, <1>4, StaysSettled

(* All the budget is left, and the table promises its best.                *)
LEMMA StartSettles ==
  ASSUME AllocInv, StartBuying
  PROVE  AllocInv'
<1>1. /\ Asked /\ Settled(lots, left, step) /\ request' = request
      /\ step' = "buy" /\ lots' = NoLots /\ ~ByWeight /\ ~Nothing
  BY DEF AllocInv, StartBuying, Settled
<1>2. CASE request.mode = "cash_min"
  <2>1. ~TooPoor /\ left' = (IF TooLarge THEN YenBudget ELSE Capacity)
    BY <1>1, <1>2 DEF StartBuying, Nothing
  <2>2. /\ YenCost \in [Holdings -> Nat] /\ YenBudget \in Nat /\ Capacity \in Nat
        /\ ReducedCost \in [Holdings -> Nat \ {0}] /\ IsTable(ReducedCost, Capacity, Best)
    BY <1>1, <2>1, YenFacts, ReducedFacts, BestIsTable
  <2>3. Best[Capacity] \in Nat
    BY <2>2, TableFacts
  <2>4. Value(NoLots, YenCost) = 0 /\ Value(NoLots, ReducedCost) = 0
    BY <2>2, NothingBought
  <2>5. Settled(lots', left', step')
    BY <1>1, <1>2, <2>1, <2>2, <2>3, <2>4, NothingBought DEF Settled
  <2>6. QED BY <1>1, <2>5, StaysSettled
<1>3. CASE request.mode = "dividend_max"
  <2>1. left' = request.budget
    BY <1>3 DEF StartBuying
  <2>2. Value(NoLots, Cost) = 0 /\ request.budget \in Nat
    BY <1>1, AskedFacts, NothingBought
  <2>3. Settled(lots', left', step')
    BY <1>1, <1>3, <2>1, <2>2, NothingBought DEF Settled
  <2>4. QED BY <1>1, <2>3, StaysSettled
<1>4. CASE request.mode \notin {"cash_min", "dividend_max"}
  <2>1. left' = 0
    BY <1>4 DEF StartBuying
  <2>2. Settled(lots', left', step')
    BY <1>1, <1>4, <2>1, NothingBought DEF Settled
  <2>3. QED BY <1>1, <2>2, StaysSettled
<1>5. QED BY <1>2, <1>3, <1>4

(* A purchase moves the cost of a lot from what is left to what is spent.  *)
LEMMA DividendSettles ==
  ASSUME AllocInv, BuyDividend
  PROVE  AllocInv'
<1>1. /\ Asked /\ Settled(lots, left, step) /\ request' = request
      /\ step = "buy" /\ request.mode = "dividend_max" /\ ~ByWeight /\ ~Nothing
  BY DEF AllocInv, BuyDividend, Settled
<1>2. PICK cost \in [Holdings -> Nat \ {0}], budget \in Nat : cost = Cost /\ budget = request.budget
  BY <1>1, AskedFacts
<1>3. lots \in [Holdings -> Nat] /\ left \in Nat /\ Value(lots, cost) + left = budget
  BY <1>1, <1>2 DEF Settled
<1>4. CASE Affordable = {}
  <2>1. lots' = lots /\ left' = left /\ step' = "done"
    BY <1>4 DEF BuyDividend, Finish
  <2>2. Settled(lots', left', step')
    BY <1>1, <1>2, <1>3, <2>1 DEF Settled
  <2>3. QED BY <1>1, <2>1, <2>2, StaysSettled
<1>5. CASE Affordable # {}
  <2>1. PICK h \in Affordable : h = BestOf(Affordable)
    BY <1>1, <1>5, BestOfIsOne DEF Affordable
  <2>2. h \in Holdings /\ cost[h] <= left /\ Take(h) /\ left' = left - cost[h] /\ step' = "buy"
    BY <1>1, <1>2, <1>5, <2>1 DEF BuyDividend, Affordable
  <2>3. /\ lots' \in [Holdings -> Nat] /\ Value(lots', cost) = Value(lots, cost) + cost[h]
        /\ Value(lots, cost) \in Nat
    BY <1>3, <2>2, TakeOne
  <2>4. left' \in Nat /\ Value(lots', cost) + left' = budget
    BY <1>3, <2>2, <2>3
  <2>5. Settled(lots', left', step')
    BY <1>1, <1>2, <2>2, <2>3, <2>4 DEF Settled
  <2>6. QED BY <1>1, <2>2, <2>5, StaysSettled
<1>6. QED BY <1>4, <1>5

(* Lots bought for a target have no budget to keep.                        *)
LEMMA TargetSettles ==
  ASSUME AllocInv, BuyTarget
  PROVE  AllocInv'
<1>1. /\ Asked /\ Settled(lots, left, step) /\ request' = request
      /\ step = "buy" /\ request.mode \in {"target_best", "target_spread"} /\ ~ByWeight /\ ~Nothing
      /\ left' = left
  BY DEF AllocInv, BuyTarget, Settled
<1>2. lots \in [Holdings -> Nat] /\ left \in Nat
  BY <1>1 DEF Settled
<1>3. lots' \in [Holdings -> Nat] /\ step' \in {"buy", "done"}
  BY <1>1, <1>2 DEF BuyTarget, Take, Finish
<1>4. Settled(lots', left', step')
  BY <1>1, <1>2, <1>3 DEF Settled
<1>5. QED BY <1>1, <1>3, <1>4, StaysSettled

(* The way back through the table loses nothing of what it promises.       *)
LEMMA CashSettles ==
  ASSUME AllocInv, BuyCash
  PROVE  AllocInv'
<1>1. /\ Asked /\ Settled(lots, left, step) /\ request' = request
      /\ step = "buy" /\ request.mode = "cash_min" /\ ~ByWeight /\ ~Nothing /\ ~TooPoor
  BY DEF AllocInv, BuyCash, Settled, Nothing
<1>2. lots \in [Holdings -> Nat] /\ left \in Nat
  BY <1>1 DEF Settled
<1>3. CASE TooLarge
  <2>1. PICK yen \in [Holdings -> Nat \ {0}], budget \in Nat : yen = YenCost /\ budget = YenBudget
    BY <1>1, YenFacts
  <2>2. Value(lots, yen) + left = budget
    BY <1>1, <1>3, <2>1 DEF Settled
  <2>3. PICK fits : fits = {h \in Holdings : yen[h] <= left}
    OBVIOUS
  <2>4. CASE fits = {}
    <3>1. lots' = lots /\ left' = left /\ step' = "done"
      BY <1>3, <2>1, <2>3, <2>4 DEF BuyCash, Finish
    <3>2. Settled(lots', left', step')
      BY <1>1, <1>2, <1>3, <2>1, <2>2, <3>1 DEF Settled
    <3>3. QED BY <1>1, <3>1, <3>2, StaysSettled
  <2>5. CASE fits # {}
    <3>1. PICK h \in fits : h = Dearest(fits)
      BY <1>1, <2>3, <2>5, DearestIsOne
    <3>2. h \in Holdings /\ yen[h] <= left /\ Take(h) /\ left' = left - yen[h] /\ step' = "buy"
      BY <1>1, <1>3, <2>1, <2>3, <2>5, <3>1 DEF BuyCash
    <3>3. /\ lots' \in [Holdings -> Nat] /\ Value(lots', yen) = Value(lots, yen) + yen[h]
          /\ Value(lots, yen) \in Nat
      BY <1>2, <3>2, TakeOne
    <3>4. left' \in Nat /\ Value(lots', yen) + left' = budget
      BY <1>2, <2>2, <3>2, <3>3
    <3>5. Settled(lots', left', step')
      BY <1>1, <1>3, <2>1, <3>2, <3>3, <3>4 DEF Settled
    <3>6. QED BY <1>1, <3>2, <3>5, StaysSettled
  <2>6. QED BY <2>4, <2>5
<1>4. CASE ~TooLarge
  <2>1. PICK r \in [Holdings -> Nat \ {0}], C \in Nat, t \in {Best} :
          r = ReducedCost /\ C = Capacity /\ t = Best /\ IsTable(r, C, t)
    BY <1>1, ReducedFacts, BestIsTable
  <2>2. Value(lots, r) + left = C /\ Value(lots, r) + t[left] = t[C]
    BY <1>1, <1>4, <2>1 DEF Settled
  <2>3. Value(lots, r) \in Nat /\ left \in 0 .. C
    <3>1. Value(lots, r) \in Nat
      BY <1>2, ValueFacts
    <3>2. QED BY <1>2, <2>2, <3>1
  <2>4. /\ t[left] \in Nat /\ t[left] <= left
        /\ t[left] = 0 \/ \E h \in Holdings : r[h] <= left /\ t[left] = t[left - r[h]] + r[h]
    BY <2>1, <2>3, TableFacts
  <2>5. CASE left = 0 \/ t[left] = 0
    <3>1. lots' = lots /\ left' = left /\ step' = "done"
      BY <1>4, <2>1, <2>5 DEF BuyCash, Finish
    <3>2. t[left] = 0
      BY <2>4, <2>5
    <3>3. Settled(lots', left', step')
      BY <1>1, <1>2, <1>4, <2>1, <2>2, <3>1, <3>2 DEF Settled
    <3>4. QED BY <1>1, <3>1, <3>3, StaysSettled
  <2>6. CASE ~(left = 0 \/ t[left] = 0)
    <3>1. PICK ways : ways = {h \in Holdings : Reduced(h) <= left
                                               /\ Best[left - Reduced(h)] + Reduced(h) = Best[left]}
      OBVIOUS
    <3>2. \A h \in Holdings : Reduced(h) = r[h]
      BY <2>1 DEF ReducedCost
    <3>3. ways # {} /\ ways \in SUBSET Nat
      <4>1. PICK h \in Holdings : r[h] <= left /\ t[left] = t[left - r[h]] + r[h]
        BY <2>4, <2>6
      <4>2. h \in ways
        BY <2>1, <3>1, <3>2, <4>1
      <4>3. QED BY <3>1, <4>2, HoldingsAreNumbers
    <3>4. PICK h \in ways : h = Choice(left)
      BY <3>1, <3>3, MinFact DEF Choice
    <3>5. h \in Holdings /\ r[h] <= left /\ t[left - r[h]] + r[h] = t[left]
      BY <2>1, <3>1, <3>2, <3>4
    <3>6. Take(h) /\ left' = left - r[h] /\ step' = "buy"
      BY <1>1, <1>4, <2>1, <2>6, <3>2, <3>4, <3>5 DEF BuyCash
    <3>7. lots' \in [Holdings -> Nat] /\ Value(lots', r) = Value(lots, r) + r[h]
      BY <1>2, <3>5, <3>6, TakeOne
    <3>8. left' \in 0 .. C
      BY <2>3, <3>5, <3>6
    <3>9. t[left'] \in Nat
      BY <2>1, <3>8, TableFacts
    <3>10. PICK c \in Nat, v \in Nat, a \in Nat, b \in Nat :
             c = r[h] /\ v = Value(lots, r) /\ a = t[left'] /\ b = t[left]
      BY <2>3, <2>4, <3>5, <3>9
    <3>11. a + c = b
      BY <3>5, <3>6, <3>10
    <3>12. Value(lots', r) + left' = C /\ Value(lots', r) + t[left'] = t[C]
      BY <1>2, <2>2, <3>6, <3>7, <3>10, <3>11
    <3>13. Settled(lots', left', step')
      BY <1>1, <1>4, <2>1, <3>6, <3>7, <3>8, <3>12 DEF Settled
    <3>14. QED BY <1>1, <3>6, <3>13, StaysSettled
  <2>7. QED BY <2>5, <2>6
<1>5. QED BY <1>3, <1>4

(* The invariant holds throughout an allocation.                           *)
LEMMA AllocInvHolds == AllocSpec => []AllocInv
<1>1. AllocInit => AllocInv
  BY DEF AllocInit, AllocInv
<1>2. AllocInv /\ [AllocNext]_allocVars => AllocInv'
  <2> SUFFICES ASSUME AllocInv, [AllocNext]_allocVars PROVE AllocInv'
    OBVIOUS
  <2>1. CASE UNCHANGED allocVars
    <3>1. request' = request /\ lots' = lots /\ left' = left /\ step' = step
      BY <2>1 DEF allocVars
    <3>2. CASE step = "ask"
      BY <3>1, <3>2 DEF AllocInv, NoLots, NoRequest
    <3>3. CASE step # "ask"
      <4>1. Asked /\ Settled(lots', left', step') /\ step' \in {"start", "buy", "done"}
        BY <3>1, <3>3 DEF AllocInv
      <4>2. QED BY <3>1, <4>1, StaysSettled
    <3>4. QED BY <3>2, <3>3
  <2>2. ASSUME NEW req \in BudgetRequests \cup TargetRequests, Ask(req) PROVE AllocInv'
    BY <2>2, AskSettles
  <2>3. CASE Split
    BY <2>3, SplitSettles
  <2>4. CASE BuyNothing
    BY <2>4, NothingSettles
  <2>5. CASE StartBuying
    BY <2>5, StartSettles
  <2>6. CASE BuyCash
    BY <2>6, CashSettles
  <2>7. CASE BuyDividend
    BY <2>7, DividendSettles
  <2>8. CASE BuyTarget
    BY <2>8, TargetSettles
  <2>9. QED BY <2>1, <2>2, <2>3, <2>4, <2>5, <2>6, <2>7, <2>8 DEF AllocNext
<1>3. QED BY <1>1, <1>2, PTL DEF AllocSpec

(* The lots bought never cost more than the budget, in any mode: the       *)
(* weights fit, and what the purchases leave is never less than nothing.   *)
THEOREM BudgetIsKept == AllocSpec => []NeverOverspends
<1>1. ASSUME AllocInv, Budgeted
      PROVE  Value(lots, Cost) <= request.budget
  <2>1. Asked /\ Settled(lots, left, step) /\ step \in {"start", "buy", "done"}
    BY <1>1 DEF AllocInv, Budgeted, Weighted, NoRequest
  <2>2. PICK cost \in [Holdings -> Nat], budget \in Nat : cost = Cost /\ budget = request.budget
    BY <2>1, AskedFacts
  <2>3. lots \in [Holdings -> Nat] /\ left \in Nat
    BY <2>1 DEF Settled
  <2>4. CASE lots = NoLots
    BY <2>2, <2>4, NothingBought
  <2>5. CASE lots # NoLots /\ ByWeight
    BY <2>1, <2>5 DEF Settled
  <2>6. CASE lots # NoLots /\ ~ByWeight /\ request.mode = "dividend_max"
    <3>1. Value(lots, cost) + left = budget
      BY <2>1, <2>2, <2>6 DEF Settled
    <3>2. Value(lots, cost) \in Nat
      BY <2>2, <2>3, ValueFacts
    <3>3. QED BY <2>2, <2>3, <3>1, <3>2
  <2>7. CASE lots # NoLots /\ ~ByWeight /\ request.mode = "cash_min"
    <3>1. ~TooPoor /\ step \in {"buy", "done"}
      BY <2>1, <2>7 DEF Settled, Nothing
    <3>2. PICK yen \in [Holdings -> Nat], whole \in Nat : yen = YenCost /\ whole = YenBudget
      BY <2>1, YenFacts
    <3>3. Value(lots, yen) \in Nat
      BY <2>3, ValueFacts
    <3>4. CASE TooLarge
      <4>1. Value(lots, yen) + left = whole
        BY <2>1, <2>7, <3>1, <3>2, <3>4 DEF Settled
      <4>2. Value(lots, yen) <= whole
        BY <2>3, <3>3, <4>1
      <4>3. QED BY <2>1, <2>3, <3>2, <4>2, YenFits
    <3>5. CASE ~TooLarge
      <4>1. PICK d \in Nat, C \in Nat, r \in [Holdings -> Nat] :
              /\ d = Divisor /\ C = Capacity /\ r = ReducedCost
              /\ whole = d * C /\ \A h \in Holdings : yen[h] = d * r[h]
        BY <2>1, <3>1, <3>2, ReducedFacts
      <4>2. Value(lots, r) + left = C
        BY <2>1, <2>7, <3>1, <3>5, <4>1 DEF Settled
      <4>3. Value(lots, r) \in Nat
        BY <2>3, ValueFacts
      <4>4. PICK v \in Nat : v = Value(lots, r) /\ v <= C
        BY <2>3, <4>2, <4>3
      <4>5. d * v <= d * C
        BY <4>4
      <4>6. Value(lots, yen) = d * v
        BY <2>3, <4>1, <4>4, ValueScales
      <4>7. Value(lots, yen) <= whole
        BY <4>1, <4>5, <4>6
      <4>8. QED BY <2>1, <2>3, <3>2, <4>7, YenFits
    <3>6. QED BY <3>4, <3>5
  <2>8. ByWeight \/ request.mode \in {"dividend_max", "cash_min"}
    BY <1>1 DEF Budgeted, ByWeight
  <2>9. QED BY <2>4, <2>5, <2>6, <2>7, <2>8
<1>2. AllocInv => NeverOverspends
  BY <1>1 DEF NeverOverspends, Spent, Value
<1>3. QED BY <1>2, AllocInvHolds, PTL

(* No name's weight is over the cap, whenever the names are enough for it  *)
(* to be kept: the names fixed at it leave a positive rest, and the        *)
(* scaling ends with none over it.                                         *)
THEOREM CapIsKept == AllocSpec => []YieldCapped
<1>1. AllocInv => YieldCapped
  BY CapHolds DEF AllocInv, YieldCapped
<1>2. QED BY <1>1, AllocInvHolds, PTL

(* cash_min leaves as little as any choice of lots, up to what the table   *)
(* is allowed to hold.                                                     *)
THEOREM CashIsMinimal == AllocSpec => []CashMinimal
<1>1. ASSUME AllocInv, step = "done", request.mode = "cash_min", TooPoor \/ ~TooLarge,
             NEW f \in [Holdings -> Nat], Value(f, YenCost) <= YenBudget
      PROVE  Value(f, YenCost) <= Value(lots, YenCost)
  <2>1. Asked /\ Settled(lots, left, step)
    BY <1>1 DEF AllocInv
  <2>2. PICK yen \in [Holdings -> Nat \ {0}], whole \in Nat : yen = YenCost /\ whole = YenBudget
    BY <2>1, YenFacts
  <2>3. lots \in [Holdings -> Nat] /\ left \in Nat
    BY <2>1 DEF Settled
  <2>4. Value(lots, yen) \in Nat /\ Value(f, yen) \in Nat /\ Value(f, yen) <= whole
    BY <1>1, <2>2, <2>3, ValueFacts
  <2>5. CASE TooPoor
    <3>1. \A h \in Holdings : whole < yen[h]
      <4>1. PICK all : all = Range(yen)
        OBVIOUS
      <4>2. all \in SUBSET Nat /\ all # {} /\ \A h \in Holdings : yen[h] \in all
        BY <4>1, AllocationAssumption DEF Range
      <4>3. Min(all) \in all /\ \A y \in all : Min(all) <= y
        BY <4>2, MinFact
      <4>4. whole < Min(all)
        BY <2>2, <2>5, <4>1 DEF TooPoor
      <4>5. PICK m \in Nat : m = Min(all) /\ whole < m
        BY <4>2, <4>3, <4>4
      <4>6. \A h \in Holdings : m <= yen[h]
        BY <4>2, <4>3, <4>5
      <4>7. QED BY <4>5, <4>6
    <3>2. \A h \in Holdings : f[h] = 0
      <4>1. SUFFICES ASSUME NEW h \in Holdings, f[h] # 0 PROVE FALSE
        OBVIOUS
      <4>2. PICK cost : cost = [x \in Holdings |-> f[x] * yen[x]]
        OBVIOUS
      <4>3. (\A x \in Holdings : cost[x] \in Nat) /\ Value(f, yen) = SumFunctionOnSet(cost, Holdings)
        BY <4>2, ValueFacts
      <4>4. cost[h] <= Value(f, yen)
        BY <4>3, AllocationAssumption, SumCovers
      <4>5. PICK n \in Nat, y \in Nat : n = f[h] /\ y = yen[h] /\ n > 0
        BY <4>1
      <4>6. n * y >= y
        BY <4>5
      <4>7. PICK p \in Nat : p = n * y
        OBVIOUS
      <4>8. QED BY <2>2, <2>4, <3>1, <4>2, <4>4, <4>5, <4>6, <4>7
    <3>3. Value(f, yen) = 0
      BY <3>2, NoneCost
    <3>4. QED BY <2>2, <2>4, <3>3
  <2>6. CASE ~TooPoor /\ ~TooLarge
    <3>1. PICK d \in Nat \ {0}, C \in Nat, r \in [Holdings -> Nat \ {0}], t \in {Best} :
            /\ d = Divisor /\ C = Capacity /\ r = ReducedCost /\ t = Best
            /\ whole = d * C /\ \A h \in Holdings : yen[h] = d * r[h]
      BY <2>1, <2>2, <2>6, ReducedFacts
    <3>2. IsTable(r, C, t)
      BY <2>1, <2>6, <3>1, BestIsTable
    <3>3. Value(lots, r) + t[left] = t[C] /\ t[left] = 0
      BY <1>1, <2>1, <2>6, <3>1 DEF Settled
    <3>4. PICK v \in Nat, b \in Nat : v = Value(f, r) /\ b = Value(lots, r)
      <4>1. Value(f, r) \in Nat /\ Value(lots, r) \in Nat
        BY <2>3, ValueFacts
      <4>2. QED BY <4>1
    <3>5. Value(f, yen) = d * v /\ Value(lots, yen) = d * b
      BY <2>3, <3>1, <3>4, ValueScales
    <3>6. v <= C
      <4>1. d * v <= d * C
        BY <2>4, <3>1, <3>5
      <4>2. QED BY <4>1
    <3>7. C \in 0 .. C /\ t[C] = b
      BY <3>3, <3>4
    <3>8. v <= b
      BY <3>2, <3>4, <3>6, <3>7, TableIsBest
    <3>9. d * v <= d * b
      BY <3>8
    <3>10. QED BY <2>2, <3>5, <3>9
  <2>7. QED BY <1>1, <2>5, <2>6
<1>2. AllocInv => CashMinimal
  <2> SUFFICES ASSUME AllocInv, step = "done", request.mode = "cash_min", TooPoor \/ ~TooLarge,
                      NEW f \in Fillings
               PROVE  Value(f, YenCost) <= Value(lots, YenCost)
    BY DEF CashMinimal, Spent, Value
  <2>1. f \in [Holdings -> 0 .. YenBudget \div Min(Range(YenCost))] /\ Value(f, YenCost) <= YenBudget
    BY DEF Fillings, Value
  <2>2. f \in [Holdings -> Nat]
    BY <2>1
  <2>3. QED BY <1>1, <2>1, <2>2
<1>3. QED BY <1>2, AllocInvHolds, PTL

-----------------------------------------------------------------------------
(***************************************************************************)
(* The collection of quotes, for any number of threads and stocks, and any *)
(* failures, restarts and requests.                                        *)
(*                                                                         *)
(* A score is of a row that is in the table, and what a run has stored is  *)
(* in the table and among what it will score.  As rows are only added, the *)
(* newest row that a run reads back is no older than either; and while no  *)
(* other run writes scores, they stay so.                                  *)
(***************************************************************************)
Times == 0 .. hour

Rows == Stocks \X Nat

PipelineRecords ==
  [at: {"fetch", "store"}, list: SUBSET Stocks, todo: Seq(Stocks), errors: Int,
   rescore: {"all", "stored", "none"}, got: Int, stored: SUBSET Rows]
ImportRecords  == [at: {"import"}, todo: SUBSET Stocks, stored: SUBSET Rows]
ScoringRecords == [at: {"score"}, list: SUBSET Stocks, stored: SUBSET Rows]
SavingRecords  ==
  [at: {"save"}, made: UNION {[read -> Nat] : read \in SUBSET Stocks}, stored: SUBSET Rows,
   alone: BOOLEAN]

\* What has been stored is in the table.
InTable(rows) == \A row \in rows : row[2] \in quotes[row[1]]

RunRecords ==
  {Resting} \cup PipelineRecords \cup ImportRecords \cup ScoringRecords \cup SavingRecords

RunKnows(r) ==
  /\ r.at \in {"fetch", "store"} =>
       /\ r \in PipelineRecords
       /\ \A i \in DOMAIN r.todo : r.todo[i] \in r.list
       /\ r.at = "store" => r.todo # <<>> /\ r.got \in Times
  /\ r.at = "import" => r \in ImportRecords /\ InTable(r.stored)
  /\ r.at = "score" => r \in ScoringRecords
  /\ r.at \in {"fetch", "store", "score"} =>
       InTable(r.stored) /\ \A row \in r.stored : row[1] \in r.list
  /\ r.at = "save" =>
       /\ r \in SavingRecords
       /\ \A row \in r.stored : row[1] \in DOMAIN r.made /\ row[2] <= r.made[row[1]]
       /\ \A t \in DOMAIN r.made : r.made[t] \in quotes[t]
       /\ r.alone => \A t \in DOMAIN r.made : scores[t] <= r.made[t]

TableInv ==
  /\ hour \in Nat
  /\ quotes \in [Stocks -> SUBSET Times]
  /\ scores \in [Stocks -> Times \cup {Unscored}]
  /\ \A t \in Stocks : scores[t] = Unscored \/ scores[t] \in quotes[t]

CollectorInv ==
  /\ TableInv
  /\ run \in [Collectors -> RunRecords]
  /\ \A c \in Collectors : RunKnows(run[c])

(* LatestQuote is a row of the table, and no row is newer.                 *)
LEMMA NewestRow ==
  ASSUME TableInv, NEW t \in Stocks, quotes[t] # {}
  PROVE  LatestQuote(t) \in quotes[t] /\ \A q \in quotes[t] : q <= LatestQuote(t)
BY BoundedMax DEF TableInv, LatestQuote, Times

(* The lists of a request, and the parts of them, hold stocks.             *)
LEMMA PartsAreLists ==
  ASSUME NEW list, ToSet(list) \subseteq Stocks, NEW some, NEW part \in Parts(list, some)
  PROVE  part \in Seq(Stocks)
<1>1. PICK these \in SUBSET Stocks : these = some \cap ToSet(list)
  OBVIOUS
<1>2. IsFiniteSet(Stocks)
  BY CollectorAssumption, FS_Interval DEF Stocks
<1>3. PICK n \in Nat : n = Cardinality(these)
  BY <1>2, FS_Subset, FS_CardinalityType
<1>4. part \in [1 .. n -> these]
  BY <1>1, <1>3 DEF Parts, SetToSeqs
<1>5. QED BY <1>1, <1>4

(* And so do the lists a person hands in.                                  *)
LEMMA WatchlistsAreLists ==
  ASSUME NEW list \in Watchlists
  PROVE  list \in Seq(Stocks)
<1>1. PICK these \in SUBSET Stocks : list \in SetToSeqs(these)
  BY DEF Watchlists
<1>2. IsFiniteSet(Stocks)
  BY CollectorAssumption, FS_Interval DEF Stocks
<1>3. PICK n \in Nat : n = Cardinality(these)
  BY <1>2, FS_Subset, FS_CardinalityType
<1>4. list \in [1 .. n -> these]
  BY <1>1, <1>3 DEF SetToSeqs
<1>5. QED BY <1>4

(* A run that begins.                                                      *)
LEMMA PipelineKnows ==
  ASSUME NEW list \in Seq(Stocks), NEW rescore \in {"all", "stored", "none"}
  PROVE  Pipeline(list, rescore) \in RunRecords /\ RunKnows(Pipeline(list, rescore))
<1>1. ToSet(list) \in SUBSET Stocks /\ \A i \in DOMAIN list : list[i] \in ToSet(list)
  BY DEF ToSet
<1>2. PICK r : r = Pipeline(list, rescore)
  OBVIOUS
<1>3. /\ r \in PipelineRecords /\ r.todo = list /\ r.list = ToSet(list) /\ r.at = "fetch"
      /\ r.stored = {}
  BY <1>1, <1>2 DEF Pipeline, PipelineRecords, Unscored
<1>4. QED BY <1>1, <1>2, <1>3 DEF RunKnows, RunRecords, InTable

(* The rest of the runs, when the tables only grow and the scores stay.    *)
LEMMA OthersKnow ==
  ASSUME CollectorInv, scores' = scores, hour' \in Nat, hour <= hour',
         \A t \in Stocks : quotes[t] \subseteq quotes'[t],
         NEW r, RunKnows(r)
  PROVE  RunKnows(r)'
<1>1. \A q : q \in Times => q \in Times'
  BY DEF CollectorInv, TableInv, Times
<1>2. \A rows \in SUBSET Rows : InTable(rows) => InTable(rows)'
  BY DEF InTable, Rows
<1>3. r.at \in {"fetch", "store", "import", "score"} => r.stored \in SUBSET Rows
  BY DEF RunKnows, PipelineRecords, ImportRecords, ScoringRecords
<1>4. r.at = "save" => DOMAIN r.made \subseteq Stocks
  BY DEF RunKnows, SavingRecords
<1>5. QED BY <1>1, <1>2, <1>3, <1>4 DEF RunKnows

(* A run at rest knows nothing.                                            *)
LEMMA RestingKnows == Resting \in RunRecords /\ RunKnows(Resting)
BY DEF RunRecords, Resting, RunKnows

(* A run that is to score what is in the table.                            *)
LEMMA ScoringKnows ==
  ASSUME CollectorInv, NEW tickers \in SUBSET Stocks, NEW stored \in SUBSET Rows,
         InTable(stored), \A row \in stored : row[1] \in tickers
  PROVE  Scoring(tickers, stored) \in RunRecords /\ RunKnows(Scoring(tickers, stored))
<1>1. PICK r : r = Scoring(tickers, stored)
  OBVIOUS
<1>2. r \in ScoringRecords /\ r.at = "score" /\ r.list = tickers /\ r.stored = stored
  BY <1>1 DEF Scoring, ScoringRecords
<1>3. QED BY <1>1, <1>2 DEF RunKnows, RunRecords

(* A run that moves on while the scores and the clock stay, and rows are   *)
(* at most added.                                                          *)
LEMMA MoveKeeps ==
  ASSUME CollectorInv, NEW c \in Collectors, NEW r \in RunRecords, RunKnows(r)',
         Move(c, r), UNCHANGED <<hour, scores>>,
         quotes' \in [Stocks -> SUBSET Times], \A t \in Stocks : quotes[t] \subseteq quotes'[t]
  PROVE  CollectorInv'
<1>1. TableInv'
  <2>1. Times' = Times
    BY DEF Times
  <2>2. \A t \in Stocks : scores[t] = Unscored \/ scores[t] \in quotes'[t]
    BY DEF CollectorInv, TableInv
  <2>3. QED BY <2>1, <2>2 DEF CollectorInv, TableInv
<1>2. run' \in [Collectors -> RunRecords]
  BY DEF CollectorInv, Move
<1>3. ASSUME NEW d \in Collectors
      PROVE  RunKnows(run[d])'
  <2>1. CASE d = c
    <3>1. run'[d] = r
      BY <2>1 DEF CollectorInv, Move
    <3>2. QED BY <3>1
  <2>2. CASE d # c
    <3>1. run'[d] = run[d]
      BY <2>2 DEF CollectorInv, Move
    <3>2. PICK q : q = run[d]
      OBVIOUS
    <3>3. RunKnows(q)
      BY <3>2 DEF CollectorInv
    <3>4. RunKnows(q)'
      BY <3>3, OthersKnow DEF CollectorInv, TableInv
    <3>5. QED BY <3>1, <3>2, <3>4
  <2>3. QED BY <2>1, <2>2
<1>4. RunRecords' = RunRecords
  BY DEF RunRecords, Resting, PipelineRecords, ImportRecords, ScoringRecords, SavingRecords, Rows
<1>5. QED BY <1>1, <1>2, <1>3, <1>4 DEF CollectorInv

(* And when the tables stay too.                                           *)
LEMMA QuietMoveKeeps ==
  ASSUME CollectorInv, NEW c \in Collectors, NEW r \in RunRecords, RunKnows(r),
         Move(c, r), UNCHANGED <<hour, quotes, scores>>
  PROVE  CollectorInv'
<1>1. RunKnows(r)'
  BY OthersKnow DEF CollectorInv, TableInv
<1>2. QED BY <1>1, MoveKeeps DEF CollectorInv, TableInv

-----------------------------------------------------------------------------
(* The requests that start a run, one by one.                              *)
LEMMA UpdateKeeps ==
  ASSUME CollectorInv, NEW c \in Collectors, NEW watched, ToSet(watched) \subseteq Stocks,
         Update(c, watched)
  PROVE  CollectorInv'
<1>1. PICK stale \in Parts(watched, Stale), missing \in Parts(watched, Stocks \ Known) :
        Move(c, Pipeline(stale \o missing, "all"))
  BY DEF Update
<1>2. stale \in Seq(Stocks) /\ missing \in Seq(Stocks)
  BY PartsAreLists
<1>3. stale \o missing \in Seq(Stocks)
  BY <1>2
<1>4. PICK list \in Seq(Stocks) : list = stale \o missing
  BY <1>3
<1>5. Move(c, Pipeline(list, "all"))
  BY <1>1, <1>4
<1>6. UNCHANGED <<hour, quotes, scores>>
  BY DEF Update
<1>7. QED BY <1>5, <1>6, PipelineKnows, QuietMoveKeeps

(* The daily run over the table.                                           *)
LEMMA ScheduledUpdateKeeps ==
  ASSUME CollectorInv, NEW c \in Collectors, ScheduledUpdate(c)
  PROVE  CollectorInv'
<1>1. PICK table \in Parts([t \in Stocks |-> t], Known) : Update(c, table)
  BY DEF ScheduledUpdate
<1>2. [t \in Stocks |-> t] \in Seq(Stocks)
  BY CollectorAssumption DEF Stocks
<1>3. ToSet([t \in Stocks |-> t]) \subseteq Stocks
  BY DEF ToSet
<1>4. table \in Seq(Stocks)
  BY <1>3, PartsAreLists
<1>5. ToSet(table) \subseteq Stocks
  BY <1>4 DEF ToSet
<1>6. QED BY <1>1, <1>5, UpdateKeeps

(* A run over a watchlist.                                                 *)
LEMMA WatchlistUpdateKeeps ==
  ASSUME CollectorInv, NEW c \in Collectors, NEW list \in Watchlists, WatchlistUpdate(c, list)
  PROVE  CollectorInv'
<1>1. ToSet(list) \subseteq Stocks
  BY WatchlistsAreLists DEF ToSet
<1>2. QED BY <1>1, UpdateKeeps DEF WatchlistUpdate

(* A run without scores.                                                   *)
LEMMA CollectKeeps ==
  ASSUME CollectorInv, NEW c \in Collectors, NEW list \in Watchlists, Collect(c, list)
  PROVE  CollectorInv'
<1>1. list \in Seq(Stocks)
  BY WatchlistsAreLists
<1>2. QED BY <1>1, PipelineKnows, QuietMoveKeeps DEF Collect

(* A run over one stock.                                                   *)
LEMMA AppendTickerKeeps ==
  ASSUME CollectorInv, NEW c \in Collectors, NEW t \in Stocks, AppendTicker(c, t)
  PROVE  CollectorInv'
<1>1. <<t>> \in Seq(Stocks)
  OBVIOUS
<1>2. QED BY <1>1, PipelineKnows, QuietMoveKeeps DEF AppendTicker

(* What an import that begins or goes on has stored is in the table.       *)
LEMMA ImportingKnows ==
  ASSUME CollectorInv, NEW todo \in SUBSET Stocks, NEW stored \in SUBSET Rows, InTable(stored)
  PROVE  Importing(todo, stored) \in RunRecords /\ RunKnows(Importing(todo, stored))
<1>1. PICK r : r = Importing(todo, stored)
  OBVIOUS
<1>2. r \in ImportRecords /\ r.at = "import" /\ r.stored = stored
  BY <1>1 DEF Importing, ImportRecords
<1>3. QED BY <1>1, <1>2 DEF RunKnows, RunRecords

(* A request that imports rows.                                            *)
LEMMA ImportKeeps ==
  ASSUME CollectorInv, NEW c \in Collectors, NEW given \in SUBSET Stocks, Import(c, given)
  PROVE  CollectorInv'
<1>1. {} \in SUBSET Rows /\ InTable({})
  BY DEF InTable
<1>2. Importing(given, {}) \in RunRecords /\ RunKnows(Importing(given, {}))
  BY <1>1, ImportingKnows
<1>3. QED BY <1>2, QuietMoveKeeps DEF Import

(* Scoring what is in the table.                                           *)
LEMMA ScoreAllKeeps ==
  ASSUME CollectorInv, NEW c \in Collectors, ScoreAll(c)
  PROVE  CollectorInv'
<1>1. Known \in SUBSET Stocks
  BY DEF Known
<1>2. {} \in SUBSET Rows /\ InTable({})
  BY DEF InTable
<1>3. Scoring(Known, {}) \in RunRecords /\ RunKnows(Scoring(Known, {}))
  BY <1>1, <1>2, ScoringKnows
<1>4. QED BY <1>3, QuietMoveKeeps DEF ScoreAll

-----------------------------------------------------------------------------
(* A record with some of its fields replaced.                              *)
LEMMA ReplacedFields ==
  ASSUME NEW A, NEW B, NEW C, NEW D, NEW E, NEW F, NEW G,
         NEW old \in [at: A, list: B, todo: C, errors: D, rescore: E, got: F, stored: G],
         NEW at \in A, NEW todo \in C, NEW errors \in D, NEW got \in F, NEW stored \in G,
         NEW r, r = [old EXCEPT !.at = at, !.todo = todo, !.errors = errors, !.got = got,
                                !.stored = stored]
  PROVE  /\ r \in [at: A, list: B, todo: C, errors: D, rescore: E, got: F, stored: G]
         /\ r.at = at /\ r.todo = todo /\ r.list = old.list /\ r.stored = stored
         /\ r.got = got
OBVIOUS

Edited(old, at, todo, errors, got, stored) ==
  [old EXCEPT !.at = at, !.todo = todo, !.errors = errors, !.got = got, !.stored = stored]

(* The record of a run over a list, changed.                               *)
LEMMA EditedPipeline ==
  ASSUME NEW old \in PipelineRecords, NEW at \in {"fetch", "store"}, NEW todo \in Seq(Stocks),
         NEW errors \in Int, NEW got \in Int, NEW stored \in SUBSET Rows
  PROVE  LET r == Edited(old, at, todo, errors, got, stored)
         IN  /\ r \in PipelineRecords
             /\ r.at = at /\ r.todo = todo /\ r.list = old.list /\ r.stored = stored
             /\ r.got = got
<1>1. PICK r : r = [old EXCEPT !.at = at, !.todo = todo, !.errors = errors, !.got = got,
                               !.stored = stored]
  OBVIOUS
<1>2. /\ r \in PipelineRecords
      /\ r.at = at /\ r.todo = todo /\ r.list = old.list /\ r.stored = stored
      /\ r.got = got
  BY <1>1, ReplacedFields DEF PipelineRecords
<1>3. QED BY <1>1, <1>2 DEF Edited

(* What a run over a list knows.                                           *)
LEMMA PipelineFacts ==
  ASSUME CollectorInv, NEW c \in Collectors, run[c].at \in {"fetch", "store"}
  PROVE  /\ run[c] \in PipelineRecords
         /\ \A i \in DOMAIN run[c].todo : run[c].todo[i] \in run[c].list
         /\ InTable(run[c].stored) /\ \A row \in run[c].stored : row[1] \in run[c].list
         /\ run[c].at = "store" => run[c].todo # <<>> /\ run[c].got \in Times
<1>1. PICK r : r = run[c]
  OBVIOUS
<1>2. RunKnows(r) /\ r.at \in {"fetch", "store"}
  BY <1>1 DEF CollectorInv
<1>3. QED BY <1>1, <1>2 DEF RunKnows

(* A fetched quote bears the present time.                                 *)
LEMMA FetchQuoteKeeps ==
  ASSUME CollectorInv, NEW c \in Collectors, FetchQuote(c)
  PROVE  CollectorInv'
<1>1. run[c].at = "fetch" /\ run[c].todo # <<>>
  BY DEF FetchQuote, Fetching
<1>2. PICK old \in PipelineRecords : old = run[c]
  BY <1>1, PipelineFacts
<1>3. hour \in Nat
  BY DEF CollectorInv, TableInv
<1>4. PICK r : r = Edited(old, "store", old.todo, old.errors, hour, old.stored)
  OBVIOUS
<1>5. old.todo \in Seq(Stocks) /\ old.errors \in Int /\ old.stored \in SUBSET Rows
  BY <1>2 DEF PipelineRecords
<1>6. /\ r \in PipelineRecords /\ r.at = "store" /\ r.got = hour /\ r.todo = old.todo
      /\ r.list = old.list /\ r.stored = old.stored
  BY <1>2, <1>3, <1>4, <1>5, EditedPipeline
<1>7. hour \in Times
  BY <1>3 DEF Times
<1>8. r \in RunRecords /\ RunKnows(r)
  BY <1>1, <1>2, <1>6, <1>7, PipelineFacts DEF RunRecords, RunKnows
<1>9. Move(c, r) /\ UNCHANGED <<hour, quotes, scores>>
  <2>1. r = [old EXCEPT !.at = "store", !.got = hour]
    BY <1>2, <1>4 DEF PipelineRecords, Edited
  <2>2. QED BY <1>2, <2>1 DEF FetchQuote
<1>10. QED BY <1>8, <1>9, QuietMoveKeeps

(* The record of a run that goes on to the next stock.                     *)
GoesOn(c, stored) ==
  \E r \in PipelineRecords :
    /\ Move(c, r) /\ r.at = "fetch" /\ r.stored = stored
    /\ \A i \in DOMAIN r.todo : r.todo[i] \in r.list
    /\ \A row \in r.stored : row[1] \in r.list

(* What it holds is still among what it will score.                        *)
LEMMA OnwardRecord ==
  ASSUME CollectorInv, NEW c \in Collectors, run[c].at \in {"fetch", "store"},
         run[c].todo # <<>>, NEW errors \in Int, NEW stored \in SUBSET Rows,
         Onward(c, errors, stored), \A row \in stored : row[1] \in run[c].list
  PROVE  GoesOn(c, stored)
<1>1. PICK old \in PipelineRecords : old = run[c]
  BY PipelineFacts
<1>2. old.todo \in Seq(Stocks) /\ old.todo # <<>>
  BY <1>1 DEF PipelineRecords
<1>3. \A i \in DOMAIN old.todo : old.todo[i] \in old.list
  BY <1>1, PipelineFacts
<1>4. PICK rest : rest = Tail(old.todo)
  OBVIOUS
<1>5. rest \in Seq(Stocks)
  BY <1>2, <1>4
<1>6. \A i \in DOMAIN rest : rest[i] \in old.list
  BY <1>2, <1>3, <1>4
<1>7. PICK r : r = Edited(old, "fetch", rest, errors, Unscored, stored)
  OBVIOUS
<1>8. /\ r \in PipelineRecords /\ r.at = "fetch" /\ r.todo = rest
      /\ r.list = old.list /\ r.stored = stored
  BY <1>1, <1>5, <1>7, EditedPipeline DEF Unscored
<1>9. Move(c, r)
  BY <1>1, <1>4, <1>7 DEF Onward, Edited
<1>10. QED BY <1>1, <1>6, <1>8, <1>9 DEF GoesOn

(* A failed fetch or write leaves the tables, and is counted.              *)
LEMMA FailureKeeps ==
  ASSUME CollectorInv, NEW c \in Collectors, run[c].at \in {"fetch", "store"},
         run[c].todo # <<>>, Failed(c), UNCHANGED <<hour, quotes, scores>>
  PROVE  CollectorInv'
<1>1. run[c].errors \in Int /\ run[c].stored \in SUBSET Rows
  BY PipelineFacts DEF PipelineRecords
<1>2. PICK errors \in Int : errors = run[c].errors + 1
  BY <1>1
<1>3. Onward(c, errors, run[c].stored)
  BY <1>2 DEF Failed
<1>4. PICK r \in PipelineRecords :
        /\ Move(c, r) /\ r.at = "fetch" /\ r.stored = run[c].stored
        /\ \A i \in DOMAIN r.todo : r.todo[i] \in r.list
        /\ \A row \in r.stored : row[1] \in r.list
  <2>1. PICK stored \in SUBSET Rows : stored = run[c].stored
    BY <1>1
  <2>2. Onward(c, errors, stored) /\ \A row \in stored : row[1] \in run[c].list
    BY <1>3, <2>1, PipelineFacts
  <2>3. GoesOn(c, stored)
    BY <2>2, OnwardRecord
  <2>4. QED BY <2>1, <2>3 DEF GoesOn
<1>5. r \in RunRecords /\ RunKnows(r)
  BY <1>4, PipelineFacts DEF RunRecords, RunKnows
<1>6. QED BY <1>4, <1>5, QuietMoveKeeps

(* The row that is added is in the table and among those to score.         *)
LEMMA StoreQuoteKeeps ==
  ASSUME CollectorInv, NEW c \in Collectors, StoreQuote(c)
  PROVE  CollectorInv'
<1>1. run[c].at = "store"
  BY DEF StoreQuote
<1>2. PICK old \in PipelineRecords : old = run[c]
  BY <1>1, PipelineFacts
<1>3. /\ old.todo \in Seq(Stocks) /\ old.todo # <<>> /\ old.got \in Times
      /\ \A i \in DOMAIN old.todo : old.todo[i] \in old.list
      /\ InTable(old.stored) /\ \A row \in old.stored : row[1] \in old.list
      /\ old.stored \in SUBSET Rows
  BY <1>1, <1>2, PipelineFacts DEF PipelineRecords
<1>4. PICK t \in Stocks : t = Head(old.todo)
  BY <1>3
<1>5. t \in old.list
  BY <1>3, <1>4
<1>6. PICK got \in Times : got = old.got
  BY <1>3
<1>7. quotes' = [quotes EXCEPT ![t] = @ \cup {got}]
  BY <1>2, <1>4, <1>6 DEF StoreQuote
<1>8. got \in Nat
  BY DEF Times, CollectorInv, TableInv
<1>9. <<t, got>> \in Rows
  BY <1>8 DEF Rows
<1>10. PICK stored \in SUBSET Rows : stored = old.stored \cup {<<t, got>>}
  BY <1>3, <1>9
<1>11. \A row \in stored : row[1] \in old.list
  BY <1>3, <1>5, <1>10
<1>12. Onward(c, 0, stored)
  BY <1>2, <1>4, <1>6, <1>10 DEF StoreQuote
<1>13. GoesOn(c, stored)
  <2>1. run[c].at \in {"fetch", "store"} /\ run[c].todo # <<>> /\ 0 \in Int
    BY <1>1, <1>2, <1>3
  <2>2. \A row \in stored : row[1] \in run[c].list
    BY <1>2, <1>11
  <2>3. QED BY <1>12, <2>1, <2>2, OnwardRecord
<1>14. PICK r \in PipelineRecords :
        /\ Move(c, r) /\ r.at = "fetch" /\ r.stored = stored
        /\ \A i \in DOMAIN r.todo : r.todo[i] \in r.list
        /\ \A row \in r.stored : row[1] \in r.list
  BY <1>13 DEF GoesOn
<1>15. quotes \in [Stocks -> SUBSET Times]
  BY DEF CollectorInv, TableInv
<1>16. /\ quotes' \in [Stocks -> SUBSET Times] /\ \A s \in Stocks : quotes[s] \subseteq quotes'[s]
       /\ got \in quotes'[t]
  BY <1>7, <1>15
<1>17. InTable(stored)'
  BY <1>3, <1>10, <1>16 DEF InTable, Rows
<1>18. PipelineRecords' = PipelineRecords
  BY DEF PipelineRecords, Rows
<1>19. r \in RunRecords /\ RunKnows(r)'
  BY <1>14, <1>17, <1>18 DEF RunRecords, RunKnows
<1>20. UNCHANGED <<hour, scores>>
  BY DEF StoreQuote
<1>21. QED BY <1>14, <1>16, <1>19, <1>20, MoveKeeps

(* What was stored is among what is scored, if anything is.                *)
LEMMA PipelineDoneKeeps ==
  ASSUME CollectorInv, NEW c \in Collectors, PipelineDone(c)
  PROVE  CollectorInv'
<1>1. run[c].at = "fetch"
  BY DEF PipelineDone
<1>2. /\ run[c] \in PipelineRecords
      /\ InTable(run[c].stored) /\ \A row \in run[c].stored : row[1] \in run[c].list
  BY <1>1, PipelineFacts
<1>3. run[c].stored \in SUBSET Rows /\ run[c].list \in SUBSET Stocks
      /\ run[c].rescore \in {"all", "stored", "none"}
  BY <1>2 DEF PipelineRecords
<1>4. ToScore(c) \in SUBSET Stocks
  BY <1>3 DEF ToScore, Rows
<1>5. ToScore(c) # {} => \A row \in run[c].stored : row[1] \in ToScore(c)
  BY <1>2, <1>3 DEF ToScore
<1>6. UNCHANGED <<hour, quotes, scores>>
  BY DEF PipelineDone
<1>7. CASE ToScore(c) = {}
  BY <1>6, <1>7, RestingKnows, QuietMoveKeeps DEF PipelineDone
<1>8. CASE ToScore(c) # {}
  <2>1. PICK tickers \in SUBSET Stocks : tickers = ToScore(c)
    BY <1>4
  <2>2. Scoring(tickers, run[c].stored) \in RunRecords /\ RunKnows(Scoring(tickers, run[c].stored))
    BY <1>2, <1>3, <1>5, <1>8, <2>1, ScoringKnows
  <2>3. Move(c, Scoring(tickers, run[c].stored))
    BY <1>8, <2>1 DEF PipelineDone
  <2>4. QED BY <1>6, <2>2, <2>3, QuietMoveKeeps
<1>9. QED BY <1>7, <1>8

(* What an import knows.                                                   *)
LEMMA ImportFacts ==
  ASSUME CollectorInv, NEW c \in Collectors, run[c].at = "import"
  PROVE  run[c].todo \in SUBSET Stocks /\ run[c].stored \in SUBSET Rows /\ InTable(run[c].stored)
<1>1. PICK r : r = run[c]
  OBVIOUS
<1>2. RunKnows(r) /\ r.at = "import"
  BY <1>1 DEF CollectorInv
<1>3. QED BY <1>1, <1>2 DEF RunKnows, ImportRecords

(* The imported row is in the table.                                       *)
LEMMA ImportRowKeeps ==
  ASSUME CollectorInv, NEW c \in Collectors, ImportRow(c)
  PROVE  CollectorInv'
<1>1. run[c].at = "import"
  BY DEF ImportRow
<1>2. PICK old : old = run[c].stored
  OBVIOUS
<1>3. run[c].todo \in SUBSET Stocks /\ old \in SUBSET Rows /\ InTable(old)
  BY <1>1, <1>2, ImportFacts
<1>4. PICK t \in run[c].todo :
        /\ quotes' = [quotes EXCEPT ![t] = @ \cup {hour}]
        /\ Move(c, Importing(run[c].todo \ {t}, run[c].stored \cup {<<t, hour>>}))
  BY DEF ImportRow
<1>5. hour \in Nat /\ hour \in Times /\ quotes \in [Stocks -> SUBSET Times]
  BY DEF CollectorInv, TableInv, Times
<1>6. t \in Stocks
  BY <1>3, <1>4
<1>7. /\ quotes' \in [Stocks -> SUBSET Times] /\ \A s \in Stocks : quotes[s] \subseteq quotes'[s]
      /\ hour \in quotes'[t]
  BY <1>4, <1>5, <1>6
<1>8. <<t, hour>> \in Rows
  BY <1>5, <1>6 DEF Rows
<1>9. PICK stored \in SUBSET Rows : stored = old \cup {<<t, hour>>}
  BY <1>3, <1>8
<1>10. InTable(stored)'
  BY <1>3, <1>7, <1>9 DEF InTable, Rows
<1>11. PICK todo \in SUBSET Stocks : todo = run[c].todo \ {t}
  BY <1>3
<1>12. PICK r : r = Importing(todo, stored)
  OBVIOUS
<1>13. r \in ImportRecords /\ r.at = "import" /\ r.stored = stored
  BY <1>12 DEF Importing, ImportRecords
<1>14. ImportRecords' = ImportRecords
  BY DEF ImportRecords, Rows
<1>15. r \in RunRecords /\ RunKnows(r)'
  BY <1>10, <1>13, <1>14 DEF RunRecords, RunKnows
<1>16. Move(c, r) /\ UNCHANGED <<hour, scores>>
  BY <1>2, <1>4, <1>9, <1>11, <1>12 DEF ImportRow
<1>17. QED BY <1>7, <1>15, <1>16, MoveKeeps

(* A row that is skipped leaves the table.                                 *)
LEMMA ImportSkipsKeeps ==
  ASSUME CollectorInv, NEW c \in Collectors, ImportSkips(c)
  PROVE  CollectorInv'
<1>1. run[c].at = "import" /\ UNCHANGED <<hour, quotes, scores>>
  BY DEF ImportSkips
<1>2. PICK t \in run[c].todo : Move(c, Importing(run[c].todo \ {t}, run[c].stored))
  BY DEF ImportSkips
<1>3. /\ run[c].todo \ {t} \in SUBSET Stocks /\ run[c].stored \in SUBSET Rows
      /\ InTable(run[c].stored)
  BY <1>1, ImportFacts
<1>4. PICK todo \in SUBSET Stocks, stored \in SUBSET Rows :
        todo = run[c].todo \ {t} /\ stored = run[c].stored
  BY <1>3
<1>5. Importing(todo, stored) \in RunRecords /\ RunKnows(Importing(todo, stored))
  BY <1>3, <1>4, ImportingKnows
<1>6. QED BY <1>1, <1>2, <1>4, <1>5, QuietMoveKeeps

(* What was imported is scored.                                            *)
LEMMA ImportScoredKeeps ==
  ASSUME CollectorInv, NEW c \in Collectors, ImportScored(c)
  PROVE  CollectorInv'
<1>1. run[c].at = "import" /\ UNCHANGED <<hour, quotes, scores>>
  BY DEF ImportScored
<1>2. PICK stored \in SUBSET Rows : stored = run[c].stored /\ InTable(stored)
  BY <1>1, ImportFacts
<1>3. PICK tickers : tickers = {row[1] : row \in stored}
  OBVIOUS
<1>4. tickers \in SUBSET Stocks /\ \A row \in stored : row[1] \in tickers
  BY <1>2, <1>3 DEF Rows
<1>5. Scoring(tickers, stored) \in RunRecords /\ RunKnows(Scoring(tickers, stored))
  BY <1>2, <1>4, ScoringKnows
<1>6. Move(c, Scoring(tickers, stored))
  BY <1>2, <1>3 DEF ImportScored
<1>7. QED BY <1>1, <1>5, <1>6, QuietMoveKeeps

(* What is read back is the newest row of each stock: no older than what   *)
(* the run stored, and than the row the present score was made of.         *)
LEMMA ReadQuotesKeeps ==
  ASSUME CollectorInv, NEW c \in Collectors, ReadQuotes(c)
  PROVE  CollectorInv'
<1>1. PICK old \in RunRecords : old = run[c]
  BY DEF CollectorInv
<1>2. RunKnows(old) /\ old.at = "score"
  BY <1>1 DEF ReadQuotes, CollectorInv
<1>3. /\ old.list \in SUBSET Stocks /\ old.stored \in SUBSET Rows /\ InTable(old.stored)
      /\ \A row \in old.stored : row[1] \in old.list
  BY <1>2 DEF RunKnows, ScoringRecords
<1>4. PICK read \in SUBSET Stocks : read = old.list \cap Known
  BY <1>3
<1>5. UNCHANGED <<hour, quotes, scores>>
  BY DEF ReadQuotes
<1>6. CASE read = {}
  BY <1>1, <1>4, <1>5, <1>6, RestingKnows, QuietMoveKeeps DEF ReadQuotes
<1>7. CASE read # {}
  <2>1. \A t \in read : quotes[t] # {}
    BY <1>4 DEF Known
  <2>2. \A t \in read : LatestQuote(t) \in quotes[t] /\ \A q \in quotes[t] : q <= LatestQuote(t)
    BY <2>1, NewestRow DEF CollectorInv
  <2>3. PICK made : made = [t \in read |-> LatestQuote(t)]
    OBVIOUS
  <2>4. /\ DOMAIN made = read
        /\ \A t \in read : made[t] \in quotes[t] /\ \A q \in quotes[t] : q <= made[t]
    BY <2>2, <2>3
  <2>5. \A t \in Stocks : quotes[t] \subseteq Nat
    BY DEF CollectorInv, TableInv, Times
  <2>6. made \in [read -> Nat]
    BY <2>3, <2>4, <2>5
  <2>7. \A row \in old.stored : row[1] \in read /\ row[2] <= made[row[1]]
    <3>1. SUFFICES ASSUME NEW row \in old.stored PROVE row[1] \in read /\ row[2] <= made[row[1]]
      OBVIOUS
    <3>2. row[2] \in quotes[row[1]] /\ row[1] \in old.list /\ row[1] \in Stocks
      BY <1>3 DEF InTable
    <3>3. row[1] \in read
      BY <1>4, <3>2 DEF Known
    <3>4. QED BY <2>4, <3>2, <3>3
  <2>8. \A t \in read : scores[t] <= made[t]
    <3>1. SUFFICES ASSUME NEW t \in read PROVE scores[t] <= made[t]
      OBVIOUS
    <3>2. made[t] \in Nat
      BY <2>6
    <3>3. scores[t] = Unscored \/ scores[t] \in quotes[t]
      BY DEF CollectorInv, TableInv
    <3>4. QED BY <2>4, <3>2, <3>3 DEF Unscored
  <2>9. PICK r : r = [at |-> "save", made |-> made, stored |-> old.stored, alone |-> TRUE]
    OBVIOUS
  <2>10. r \in SavingRecords /\ r.at = "save" /\ r.made = made /\ r.stored = old.stored
    BY <1>3, <2>6, <2>9 DEF SavingRecords
  <2>11. r \in RunRecords
    BY <2>10 DEF RunRecords
  <2>12. RunKnows(r)
    BY <2>4, <2>7, <2>8, <2>10 DEF RunKnows
  <2>13. Move(c, r)
    BY <1>1, <1>4, <1>7, <2>3, <2>9 DEF ReadQuotes
  <2>14. QED BY <1>5, <2>11, <2>12, <2>13, QuietMoveKeeps
<1>8. QED BY <1>6, <1>7

(* What a run that is about to save its scores knows.                      *)
LEMMA SavingFacts ==
  ASSUME CollectorInv, NEW c \in Collectors, run[c].at = "save"
  PROVE  /\ run[c] \in SavingRecords
         /\ \A row \in run[c].stored : row[1] \in DOMAIN run[c].made /\ row[2] <= run[c].made[row[1]]
         /\ \A t \in DOMAIN run[c].made : run[c].made[t] \in quotes[t]
         /\ run[c].alone => \A t \in DOMAIN run[c].made : scores[t] <= run[c].made[t]
<1>1. PICK r : r = run[c]
  OBVIOUS
<1>2. RunKnows(r) /\ r.at = "save"
  BY <1>1 DEF CollectorInv
<1>3. QED BY <1>1, <1>2 DEF RunKnows

(* A run that has read the rows is alone no more when another writes.      *)
LEMMA CrossedRun ==
  ASSUME NEW r \in SavingRecords
  PROVE  LET crossed == [r EXCEPT !.alone = FALSE]
         IN  /\ crossed \in SavingRecords /\ crossed.made = r.made /\ crossed.stored = r.stored
             /\ crossed.alone = FALSE
BY DEF SavingRecords

(* The scores are those read; the other runs that have read are alone no   *)
(* more.                                                                   *)
LEMMA SaveScoresKeeps ==
  ASSUME CollectorInv, NEW c \in Collectors, SaveScores(c)
  PROVE  CollectorInv'
<1>1. run[c].at = "save" /\ UNCHANGED <<hour, quotes>>
  BY DEF SaveScores
<1>2. PICK r \in SavingRecords : r = run[c]
  BY <1>1, SavingFacts
<1>3. \A t \in DOMAIN r.made : r.made[t] \in quotes[t]
  BY <1>1, <1>2, SavingFacts
<1>4. scores' = [t \in Stocks |-> IF t \in DOMAIN r.made THEN r.made[t] ELSE scores[t]]
  BY <1>2 DEF SaveScores
<1>5. /\ \A t \in Stocks : scores[t] = Unscored \/ scores[t] \in quotes[t]
      /\ scores \in [Stocks -> Times \cup {Unscored}] /\ quotes \in [Stocks -> SUBSET Times]
      /\ run \in [Collectors -> RunRecords] /\ hour \in Nat
  BY DEF CollectorInv, TableInv
<1>6. \A t \in Stocks : scores'[t] = Unscored \/ scores'[t] \in quotes[t]
  BY <1>3, <1>4, <1>5
<1>7. scores' \in [Stocks -> Times \cup {Unscored}]
  BY <1>3, <1>4, <1>5
<1>8. TableInv'
  BY <1>1, <1>5, <1>6, <1>7 DEF TableInv, Times
<1>9. ASSUME NEW d \in Collectors
      PROVE  run'[d] \in RunRecords /\ RunKnows(run[d])'
  <2>1. CASE d = c
    <3>1. run'[d] = Resting
      BY <2>1 DEF SaveScores
    <3>2. RunKnows(Resting)'
      BY DEF RunKnows, Resting
    <3>3. QED BY <3>1, <3>2, RestingKnows
  <2>2. CASE d # c /\ run[d].at = "save"
    <3>1. run'[d] = [run[d] EXCEPT !.alone = FALSE]
      BY <2>2 DEF SaveScores
    <3>2. PICK old \in SavingRecords : old = run[d]
      BY <2>2, SavingFacts
    <3>3. PICK q : q = [old EXCEPT !.alone = FALSE]
      OBVIOUS
    <3>4. /\ q \in SavingRecords /\ q.made = old.made /\ q.stored = old.stored
          /\ q.alone = FALSE
      BY <3>3, CrossedRun
    <3>5. q.at = "save"
      BY <3>4 DEF SavingRecords
    <3>6. SavingRecords' = SavingRecords
      BY DEF SavingRecords, Rows
    <3>7. /\ \A row \in q.stored : row[1] \in DOMAIN q.made /\ row[2] <= q.made[row[1]]
          /\ \A t \in DOMAIN q.made : q.made[t] \in quotes[t]
      BY <2>2, <3>2, <3>4, SavingFacts
    <3>8. RunKnows(q)'
      BY <1>1, <3>4, <3>5, <3>6, <3>7 DEF RunKnows
    <3>9. QED BY <3>1, <3>2, <3>3, <3>4, <3>8 DEF RunRecords
  <2>3. CASE d # c /\ run[d].at # "save"
    <3>1. run'[d] = run[d]
      BY <2>3 DEF SaveScores
    <3>2. PICK q : q = run[d]
      OBVIOUS
    <3>3. RunKnows(q) /\ q.at # "save"
      BY <2>3, <3>2 DEF CollectorInv
    <3>4. RunKnows(q)'
      BY <1>1, <3>3 DEF RunKnows, PipelineRecords, ImportRecords, ScoringRecords, Rows, InTable,
                                Times
    <3>5. QED BY <1>5, <3>1, <3>2, <3>4
  <2>4. QED BY <2>1, <2>2, <2>3
<1>10. RunRecords' = RunRecords
  BY DEF RunRecords, Resting, PipelineRecords, ImportRecords, ScoringRecords, SavingRecords, Rows
<1>11. run' \in [Collectors -> RunRecords]
  <2>1. run' = [d \in Collectors |-> run'[d]]
    BY DEF SaveScores
  <2>2. QED BY <1>9, <2>1
<1>12. QED BY <1>8, <1>9, <1>10, <1>11 DEF CollectorInv

(* The clock, a restart, and the steps of a thread.                        *)
LEMMA HourPassesKeeps ==
  ASSUME CollectorInv, HourPasses
  PROVE  CollectorInv'
<1>1. hour \in Nat /\ hour' = hour + 1 /\ UNCHANGED <<quotes, scores, run>>
  BY DEF HourPasses, CollectorInv, TableInv
<1>2. Times \subseteq Times' /\ hour' \in Nat
  BY <1>1 DEF Times
<1>3. TableInv'
  BY <1>1, <1>2 DEF CollectorInv, TableInv
<1>4. ASSUME NEW c \in Collectors
      PROVE  RunKnows(run[c])'
  <2>1. PICK q : q = run[c]
    OBVIOUS
  <2>2. RunKnows(q)
    BY <2>1 DEF CollectorInv
  <2>3. RunKnows(q)'
    BY <1>1, <1>2, <2>2, OthersKnow
  <2>4. QED BY <1>1, <2>1, <2>3
<1>5. RunRecords' = RunRecords
  BY DEF RunRecords, Resting, PipelineRecords, ImportRecords, ScoringRecords, SavingRecords, Rows
<1>6. QED BY <1>1, <1>3, <1>4, <1>5 DEF CollectorInv

(* A restart leaves the tables.                                            *)
LEMMA RestartKeeps ==
  ASSUME CollectorInv, Restart
  PROVE  CollectorInv'
<1>1. run' = [c \in Collectors |-> Resting] /\ UNCHANGED <<hour, quotes, scores>>
  BY DEF Restart
<1>2. TableInv'
  BY <1>1 DEF CollectorInv, TableInv, Times
<1>3. RunRecords' = RunRecords
  BY DEF RunRecords, Resting, PipelineRecords, ImportRecords, ScoringRecords, SavingRecords, Rows
<1>4. RunKnows(Resting)'
  BY DEF RunKnows, Resting
<1>5. QED BY <1>1, <1>2, <1>3, <1>4, RestingKnows DEF CollectorInv

(* Nothing moves.                                                          *)
LEMMA CollectorStays ==
  ASSUME CollectorInv, UNCHANGED collectorVars
  PROVE  CollectorInv'
<1>1. UNCHANGED <<hour, quotes, scores, run>>
  BY DEF collectorVars
<1>2. QED BY <1>1 DEF CollectorInv, TableInv, Times, RunKnows, InTable, RunRecords, Resting,
                      PipelineRecords, ImportRecords, ScoringRecords, SavingRecords, Rows

(* The steps of a thread.                                                  *)
LEMMA CollectorStepKeeps ==
  ASSUME CollectorInv, NEW c \in Collectors, CollectorStep(c)
  PROVE  CollectorInv'
<1>1. ASSUME FetchFails(c) PROVE CollectorInv'
  BY <1>1, FailureKeeps DEF FetchFails, Fetching
<1>2. ASSUME StoreFails(c) PROVE CollectorInv'
  <2>1. run[c].at = "store"
    BY <1>2 DEF StoreFails
  <2>2. run[c].todo # <<>>
    BY <2>1, PipelineFacts
  <2>3. QED BY <1>2, <2>1, <2>2, FailureKeeps DEF StoreFails
<1>3. ASSUME SaveFails(c) PROVE CollectorInv'
  BY <1>3, RestingKnows, QuietMoveKeeps DEF SaveFails
<1>4. ASSUME ImportEnds(c) PROVE CollectorInv'
  BY <1>4, RestingKnows, QuietMoveKeeps DEF ImportEnds
<1>5. QED BY <1>1, <1>2, <1>3, <1>4, FetchQuoteKeeps, StoreQuoteKeeps, PipelineDoneKeeps,
             ImportRowKeeps, ImportSkipsKeeps, ImportScoredKeeps, ReadQuotesKeeps,
             SaveScoresKeeps DEF CollectorStep

(* No step of the collection breaks the invariant.                         *)
LEMMA CollectorInvNext ==
  ASSUME CollectorInv, [CollectorNext]_collectorVars
  PROVE  CollectorInv'
<1>1. ASSUME NEW c \in Collectors, NEW list \in Watchlists, WatchlistUpdate(c, list) \/ Collect(c, list)
      PROVE  CollectorInv'
  BY <1>1, WatchlistUpdateKeeps, CollectKeeps
<1>2. ASSUME NEW c \in Collectors, NEW given \in SUBSET Stocks \ {{}}, Import(c, given)
      PROVE  CollectorInv'
  BY <1>2, ImportKeeps
<1>3. ASSUME NEW c \in Collectors, NEW t \in Stocks, AppendTicker(c, t)
      PROVE  CollectorInv'
  BY <1>3, AppendTickerKeeps
<1>4. QED BY <1>1, <1>2, <1>3, ScheduledUpdateKeeps, ScoreAllKeeps, CollectorStepKeeps,
             HourPassesKeeps, RestartKeeps, CollectorStays DEF CollectorNext

(* The types of the two tables and of the runs, and what each run knows of *)
(* the tables, for any number of threads and stocks.                       *)
THEOREM CollectorInvAlways == CollectorSpec => []CollectorInv
<1>1. CollectorInit => CollectorInv
  <2>1. SUFFICES ASSUME CollectorInit PROVE CollectorInv
    OBVIOUS
  <2>2. TableInv
    <3>1. {} \in SUBSET Times
      OBVIOUS
    <3>2. QED BY <2>1, <3>1 DEF CollectorInit, TableInv, Unscored
  <2>3. QED BY <2>1, <2>2, RestingKnows DEF CollectorInit, CollectorInv
<1>2. QED BY <1>1, CollectorInvNext, PTL DEF CollectorSpec

(* A refresh gives each stock the run stored a score of that row or of a   *)
(* newer one, and takes no score back to an older row unless another run   *)
(* wrote scores in between.                                                *)
THEOREM ScoresAreOfNewestRows == CollectorSpec => RefreshReachesScores
<1>1. ASSUME CollectorInv, NEW c \in Collectors, SaveScores(c)
      PROVE  /\ \A row \in run[c].stored : scores'[row[1]] >= row[2]
             /\ run[c].alone => \A t \in Stocks : scores'[t] >= scores[t]
  <2>1. run[c].at = "save"
    BY <1>1 DEF SaveScores
  <2>2. PICK r \in SavingRecords : r = run[c]
    BY <1>1, <2>1, SavingFacts
  <2>3. /\ \A row \in r.stored : row[1] \in DOMAIN r.made /\ row[2] <= r.made[row[1]]
        /\ r.alone => \A t \in DOMAIN r.made : scores[t] <= r.made[t]
    BY <1>1, <2>1, <2>2, SavingFacts
  <2>4. scores' = [t \in Stocks |-> IF t \in DOMAIN r.made THEN r.made[t] ELSE scores[t]]
    BY <1>1, <2>2 DEF SaveScores
  <2>5. PICK read \in SUBSET Stocks : r.made \in [read -> Nat]
    BY <2>2 DEF SavingRecords
  <2>6. r.stored \in SUBSET Rows
    BY <2>2 DEF SavingRecords
  <2>7. \A t \in Stocks : scores[t] \in Int
    BY <1>1 DEF CollectorInv, TableInv, Times, Unscored
  <2>8. \A row \in r.stored : scores'[row[1]] >= row[2]
    <3>1. SUFFICES ASSUME NEW row \in r.stored PROVE scores'[row[1]] >= row[2]
      OBVIOUS
    <3>2. PICK t \in Stocks, q \in Nat : row = <<t, q>>
      BY <2>6 DEF Rows
    <3>3. t \in DOMAIN r.made /\ q <= r.made[t] /\ r.made[t] \in Nat
      BY <2>3, <2>5, <3>2
    <3>4. QED BY <2>4, <3>2, <3>3
  <2>9. r.alone => \A t \in Stocks : scores'[t] >= scores[t]
    <3>1. SUFFICES ASSUME r.alone, NEW t \in Stocks PROVE scores'[t] >= scores[t]
      OBVIOUS
    <3>2. t \in DOMAIN r.made => r.made[t] \in Nat
      BY <2>5
    <3>3. QED BY <2>3, <2>4, <2>7, <3>1, <3>2
  <2>10. QED BY <2>2, <2>8, <2>9
<1>2. ASSUME CollectorInv, [CollectorNext]_collectorVars
      PROVE  [\A c \in Collectors :
                SaveScores(c) =>
                  /\ \A row \in run[c].stored : scores'[row[1]] >= row[2]
                  /\ run[c].alone => \A t \in Stocks : scores'[t] >= scores[t]]_collectorVars
  BY <1>1, <1>2
<1>3. QED BY <1>2, CollectorInvAlways, PTL DEF CollectorSpec, RefreshReachesScores

=============================================================================
