------------------------------ MODULE FoldProofs ------------------------------
(***************************************************************************)
(* Facts about the folds the models are written with: a fold over a finite *)
(* set exists, a sum over a finite set is an integer that grows by the     *)
(* summand of each element added, and it adds up over parts and in any     *)
(* order.  The induction over the set is a least counterexample on its     *)
(* cardinality.                                                            *)
(***************************************************************************)
EXTENDS Integers, FiniteSets, FiniteSetsExt, FiniteSetTheorems, FunctionTheorems,
        WellFoundedInduction, TLAPS

-----------------------------------------------------------------------------
(* Least and greatest elements *)

\* A set of natural numbers that is not empty has a least element.
LEMMA LeastNatural ==
  ASSUME NEW S, S \subseteq Nat, S # {}
  PROVE  \E x \in S : \A y \in S : x <= y
<1>1. PICK x \in S : \A y \in S : << y, x >> \notin OpToRel(<, Nat)
  BY NatLessThanWellFounded, WFMin
<1>2. ASSUME NEW y \in S PROVE x <= y
  <2>1. ~(y < x)
    BY <1>1 DEF OpToRel
  <2> QED
    BY <2>1
<1> QED
  BY <1>2

LEMMA MinIsLeast ==
  ASSUME NEW S, S \subseteq Nat, S # {}
  PROVE  Min(S) \in S /\ \A y \in S : Min(S) <= y
<1>1. \E x \in S : \A y \in S : x <= y
  BY LeastNatural
<1> QED
  BY <1>1, Zenon DEF Min

LEMMA MaxIsGreatest ==
  ASSUME NEW S, S \subseteq Nat, S # {}, NEW bound \in Nat, \A x \in S : x <= bound
  PROVE  Max(S) \in S /\ \A y \in S : Max(S) >= y
<1> DEFINE below == {bound - x : x \in S}
<1>1. PICK b \in below : \A y \in below : b <= y
  <2>1. \A x \in S : bound - x \in Nat
    OBVIOUS
  <2>2. below \subseteq Nat /\ below # {}
    BY <2>1
  <2> HIDE DEF below
  <2> QED
    BY <2>2, LeastNatural
<1>2. PICK x \in S : b = bound - x
  BY <1>1
<1>3. \A y \in S : x >= y
  BY <1>1, <1>2
<1> QED
  BY <1>2, <1>3, Zenon DEF Max

\* A finite set that is not empty is larger than it is without one of its elements.
LEMMA CardinalityFalls ==
  ASSUME NEW S, IsFiniteSet(S), NEW x \in S
  PROVE  /\ IsFiniteSet(S \ {x})
         /\ Cardinality(S) \in Nat /\ Cardinality(S \ {x}) \in Nat
         /\ Cardinality(S \ {x}) < Cardinality(S)
<1>1. IsFiniteSet(S \ {x}) /\ Cardinality(S \ {x}) = Cardinality(S) - 1
  BY FS_RemoveElement
<1> QED
  BY <1>1, FS_CardinalityType

\* Among subsets of a finite set, one has none of the others below it: what
\* fails for some subset fails for one of whose proper subsets it holds.
LEMMA SmallestSubset ==
  ASSUME NEW D, IsFiniteSet(D), NEW Bad, Bad \subseteq SUBSET D, Bad # {}
  PROVE  \E S \in Bad : IsFiniteSet(S) /\ \A x \in S : S \ {x} \notin Bad
<1>1. \A S \in Bad : IsFiniteSet(S) /\ Cardinality(S) \in Nat
  BY FS_Subset, FS_CardinalityType
<1> DEFINE sizes == {Cardinality(S) : S \in Bad}
<1>2. PICK n \in sizes : \A m \in sizes : n <= m
  <2>1. sizes \subseteq Nat /\ sizes # {}
    BY <1>1
  <2> QED
    BY <2>1, LeastNatural
<1>3. PICK S \in Bad : \A T \in Bad : Cardinality(S) <= Cardinality(T)
  BY <1>2
<1>4. ASSUME NEW x \in S, S \ {x} \in Bad PROVE FALSE
  <2>1. Cardinality(S \ {x}) < Cardinality(S) /\ Cardinality(S \ {x}) \in Nat
    BY <1>1, CardinalityFalls
  <2> QED
    BY <1>1, <1>3, <1>4, <2>1
<1> QED
  BY <1>1, <1>3, <1>4

\* A finite set has a top element in an order that compares any two.
LEMMA TopElement ==
  ASSUME NEW S, IsFiniteSet(S), S # {}, NEW R,
         \A a, b \in S : << a, b >> \in R \/ << b, a >> \in R,
         \A a, b, c \in S : << a, b >> \in R /\ << b, c >> \in R => << a, c >> \in R
  PROVE  \E a \in S : \A b \in S : << a, b >> \in R
<1> DEFINE Topless(T) == ~\E a \in T : \A b \in T : << a, b >> \in R
           Bad == {T \in SUBSET S : T # {} /\ Topless(T)}
<1> SUFFICES ASSUME Bad # {} PROVE FALSE
  OBVIOUS
<1>1. PICK T \in Bad : \A x \in T : T \ {x} \notin Bad
  BY SmallestSubset
<1>2. PICK x : x \in T /\ T \subseteq S
  BY <1>1
<1>3. CASE T = {x}
  BY <1>1, <1>2, <1>3
<1>4. CASE T # {x}
  <2>1. ~Topless(T \ {x})
    BY <1>1, <1>2, <1>4
  <2>2. PICK a \in T \ {x} : \A b \in T \ {x} : << a, b >> \in R
    BY <2>1
  <2>3. CASE << a, x >> \in R
    BY <1>1, <1>2, <2>2, <2>3
  <2>4. CASE << x, a >> \in R
    BY <1>1, <1>2, <2>2, <2>4
  <2> QED
    BY <1>2, <2>2, <2>3, <2>4
<1> QED
  BY <1>3, <1>4

LEMMA ImageIsFinite ==
  ASSUME NEW S, IsFiniteSet(S), NEW f, DOMAIN f = S
  PROVE  IsFiniteSet({f[x] : x \in S})
<1> DEFINE T == {f[x] : x \in S}
           g == [x \in S |-> f[x]]
<1>1. g \in Surjection(S, T)
  BY DEF Surjection
<1> QED
  BY <1>1, FS_Surjection

-----------------------------------------------------------------------------
(* Folds.  iter is what MapThenFoldSet of the community modules builds, over *)
(* the subsets of a finite set D: pick says which element is folded in last, *)
(* step what it does to the fold of the others.                              *)

IsFold(D, base, step, pick, iter) ==
  iter = [S \in SUBSET D |->
            IF S = {} THEN base ELSE step[pick[S]][iter[S \ {pick[S]}]]]

LEMMA FoldExists ==
  ASSUME NEW D, IsFiniteSet(D), NEW V, NEW base \in V, NEW step \in [D -> [V -> V]],
         NEW pick, \A S \in SUBSET D : S # {} => pick[S] \in S
  PROVE  \E iter \in [SUBSET D -> V] : IsFold(D, base, step, pick, iter)
<1> DEFINE UpTo(n) == {S \in SUBSET D : Cardinality(S) <= n}
           Folded(h, S) == IF S = {} THEN base ELSE step[pick[S]][h[S \ {pick[S]}]]
           Built(n) == \E h \in [UpTo(n) -> V] : \A S \in UpTo(n) : h[S] = Folded(h, S)
           Missing == {n \in Nat : ~Built(n)}
<1>1. \A S \in SUBSET D : IsFiniteSet(S) /\ Cardinality(S) \in Nat
  BY FS_Subset, FS_CardinalityType
<1>2. \A S \in SUBSET D : Cardinality(S) = 0 <=> S = {}
  BY <1>1, FS_EmptySet
<1>3. Built(0)
  <2> DEFINE h == [S \in UpTo(0) |-> base]
  <2>1. \A S \in UpTo(0) : S = {}
    BY <1>1, <1>2
  <2>2. h \in [UpTo(0) -> V] /\ \A S \in UpTo(0) : h[S] = Folded(h, S)
    BY <2>1
  <2> QED
    BY <2>2
<1>4. ASSUME NEW n \in Nat, Built(n) PROVE Built(n + 1)
  <2>1. PICK h \in [UpTo(n) -> V] : \A S \in UpTo(n) : h[S] = Folded(h, S)
    BY <1>4
  <2> DEFINE g == [S \in UpTo(n + 1) |-> Folded(h, S)]
  <2>2. UpTo(n) \subseteq UpTo(n + 1) /\ \A S \in UpTo(n) : g[S] = h[S]
    <3>1. UpTo(n) \subseteq UpTo(n + 1)
      BY <1>1
    <3>2. \A S \in UpTo(n + 1) : g[S] = Folded(h, S)
      OBVIOUS
    <3> HIDE DEF UpTo, Folded, g
    <3> QED
      BY <2>1, <3>1, <3>2
  <2>3. ASSUME NEW S \in UpTo(n + 1), S # {} PROVE S \ {pick[S]} \in UpTo(n) /\ pick[S] \in D
    <3>1. pick[S] \in S /\ IsFiniteSet(S)
      BY <1>1, <2>3
    <3>2. Cardinality(S \ {pick[S]}) < Cardinality(S) /\ Cardinality(S \ {pick[S]}) \in Nat
      BY <3>1, CardinalityFalls
    <3> QED
      BY <1>1, <2>3, <3>1, <3>2
  <2>4. \A S \in UpTo(n + 1) : g[S] \in V
    BY <2>1, <2>3
  <2>5. \A S \in UpTo(n + 1) : g[S] = Folded(g, S)
    BY <2>2, <2>3
  <2> QED
    BY <2>4, <2>5
<1>5. \A n \in Nat : Built(n)
  <2> SUFFICES ASSUME Missing # {} PROVE FALSE
    OBVIOUS
  <2>1. PICK m \in Missing : \A n \in Missing : m <= n
    BY LeastNatural
  <2> HIDE DEF Built
  <2>2. m # 0 /\ m \in Nat
    BY <1>3, <2>1
  <2>3. m - 1 \in Nat /\ m - 1 \notin Missing
    BY <2>1, <2>2
  <2>4. Built((m - 1) + 1)
    BY <1>4, <2>3
  <2>5. (m - 1) + 1 = m
    BY <2>2
  <2> QED
    BY <2>1, <2>4, <2>5
<1>6. Cardinality(D) \in Nat /\ UpTo(Cardinality(D)) = SUBSET D
  BY FS_Subset, FS_CardinalityType
<1>7. PICK h \in [SUBSET D -> V] : \A S \in SUBSET D : h[S] = Folded(h, S)
  <2>1. Built(Cardinality(D))
    BY <1>5, <1>6
  <2>2. PICK h \in [UpTo(Cardinality(D)) -> V] :
          \A S \in UpTo(Cardinality(D)) : h[S] = Folded(h, S)
    BY <2>1
  <2> HIDE DEF UpTo, Folded
  <2> QED
    BY <1>6, <2>2
<1>8. h = [S \in SUBSET D |-> Folded(h, S)]
  <2> HIDE DEF Folded
  <2> QED
    BY <1>7
<1>9. IsFold(D, base, step, pick, h)
  BY <1>8, Zenon DEF IsFold
<1> QED
  BY <1>7, <1>9, Zenon

-----------------------------------------------------------------------------
(* Sums of a function over a finite set, SumFunctionOnSet *)

Pick(S) == CHOOSE x \in S : TRUE

\* sum is the sum of f over every subset of D.
SumsUp(f, D, sum) ==
  \A S \in SUBSET D : sum[S] = IF S = {} THEN 0 ELSE f[Pick(S)] + sum[S \ {Pick(S)}]

LEMMA PickIn == ASSUME NEW S, S # {} PROVE Pick(S) \in S
  BY DEF Pick

LEMMA SumIsBuilt ==
  ASSUME NEW D, IsFiniteSet(D), NEW f, \A x \in D : f[x] \in Int
  PROVE  \E sum \in [SUBSET D -> Int] : SumsUp(f, D, sum) /\ SumFunctionOnSet(f, D) = sum[D]
<1> DEFINE Adds(h) == h = [S \in SUBSET D |->
                             IF S = {} THEN 0 ELSE f[Pick(S)] + h[S \ {Pick(S)}]]
           sum == CHOOSE h : Adds(h)
           step == [x \in D |-> [r \in Int |-> f[x] + r]]
           pick == [S \in SUBSET D |-> Pick(S)]
<1>1. SumFunctionOnSet(f, D) = sum[D]
  BY Zenon DEF Pick, SumFunctionOnSet, FoldFunctionOnSet, MapThenFoldSet
<1>2. \A S \in SUBSET D : S # {} => pick[S] \in S
  BY PickIn
<1>3. step \in [D -> [Int -> Int]]
  OBVIOUS
<1>4. PICK iter \in [SUBSET D -> Int] : IsFold(D, 0, step, pick, iter)
  <2>1. 0 \in Int
    OBVIOUS
  <2> HIDE DEF step, pick
  <2> QED
    BY <1>2, <1>3, <2>1, FoldExists, Zenon
<1>5. Adds(iter)
  <2>1. ASSUME NEW S \in SUBSET D
        PROVE  (IF S = {} THEN 0 ELSE step[pick[S]][iter[S \ {pick[S]}]])
                 = (IF S = {} THEN 0 ELSE f[Pick(S)] + iter[S \ {Pick(S)}])
    BY PickIn
  <2>2. iter = [S \in SUBSET D |-> IF S = {} THEN 0 ELSE step[pick[S]][iter[S \ {pick[S]}]]]
    BY <1>4, Zenon DEF IsFold
  <2> HIDE DEF step, pick
  <2> QED
    BY <2>1, <2>2
<1>6. Adds(sum)
  <2> HIDE DEF Adds
  <2> QED
    BY <1>5, Zenon
<1>7. SumsUp(f, D, sum) /\ DOMAIN sum = SUBSET D
  <2>1. DOMAIN sum = SUBSET D
    BY <1>6
  <2>2. ASSUME NEW S \in SUBSET D
        PROVE  sum[S] = IF S = {} THEN 0 ELSE f[Pick(S)] + sum[S \ {Pick(S)}]
    BY <1>6
  <2> HIDE DEF sum
  <2> QED
    BY <2>1, <2>2 DEF SumsUp
<1> HIDE DEF sum, Adds
<1>8. \A S \in SUBSET D : sum[S] \in Int
  <2> DEFINE Bad == {S \in SUBSET D : sum[S] \notin Int}
  <2> SUFFICES ASSUME Bad # {} PROVE FALSE
    OBVIOUS
  <2>1. PICK S \in Bad : \A x \in S : S \ {x} \notin Bad
    BY SmallestSubset
  <2>2. S # {}
    <3>1. S \in SUBSET D /\ sum[S] \notin Int
      BY <2>1
    <3>2. sum[S] = IF S = {} THEN 0 ELSE f[Pick(S)] + sum[S \ {Pick(S)}]
      BY <1>7, <3>1, Zenon DEF SumsUp
    <3> HIDE DEF Bad
    <3> QED
      BY <3>1, <3>2
  <2>3. Pick(S) \in S /\ sum[S \ {Pick(S)}] \in Int
    BY <2>1, <2>2, PickIn
  <2>4. sum[S] = f[Pick(S)] + sum[S \ {Pick(S)}]
    BY <1>7, <2>1, <2>2 DEF SumsUp
  <2> QED
    BY <2>1, <2>3, <2>4
<1>9. sum \in [SUBSET D -> Int]
  <2>1. sum = [S \in SUBSET D |-> sum[S]]
    BY <1>6 DEF Adds
  <2> QED
    BY <1>8, <2>1
<1> QED
  BY <1>1, <1>7, <1>9

\* Two sums that agree on the summands agree.
LEMMA SumsAgree ==
  ASSUME NEW D, NEW E, NEW f, NEW g, NEW sum, NEW other,
         SumsUp(f, D, sum), SumsUp(g, E, other),
         NEW T, IsFiniteSet(T), T \subseteq D, T \subseteq E, \A x \in T : f[x] = g[x]
  PROVE  sum[T] = other[T]
<1> DEFINE Bad == {S \in SUBSET T : sum[S] # other[S]}
<1> SUFFICES ASSUME Bad # {} PROVE FALSE
  OBVIOUS
<1>1. PICK S \in Bad : \A x \in S : S \ {x} \notin Bad
  BY SmallestSubset
<1>2. S # {}
  BY <1>1 DEF SumsUp
<1>3. Pick(S) \in S /\ sum[S \ {Pick(S)}] = other[S \ {Pick(S)}]
  BY <1>1, <1>2, PickIn
<1>4. sum[S] = f[Pick(S)] + sum[S \ {Pick(S)}] /\ other[S] = g[Pick(S)] + other[S \ {Pick(S)}]
  BY <1>1, <1>2 DEF SumsUp
<1> QED
  BY <1>1, <1>3, <1>4

\* Whichever element is taken out, its summand is what goes.
LEMMA SumWithout ==
  ASSUME NEW D, IsFiniteSet(D), NEW f, \A x \in D : f[x] \in Int, NEW y \in D
  PROVE  SumFunctionOnSet(f, D) = f[y] + SumFunctionOnSet(f, D \ {y})
<1>1. PICK sum \in [SUBSET D -> Int] : SumsUp(f, D, sum) /\ SumFunctionOnSet(f, D) = sum[D]
  BY SumIsBuilt
<1>2. PICK other : SumsUp(f, D \ {y}, other) /\ SumFunctionOnSet(f, D \ {y}) = other[D \ {y}]
  <2>1. IsFiniteSet(D \ {y}) /\ \A x \in D \ {y} : f[x] \in Int
    BY CardinalityFalls
  <2> QED
    BY <2>1, SumIsBuilt, Zenon
<1>3. sum[D \ {y}] = other[D \ {y}]
  <2>1. IsFiniteSet(D \ {y}) /\ D \ {y} \subseteq D
    BY CardinalityFalls
  <2> QED
    BY <1>1, <1>2, <2>1, SumsAgree
<1>4. sum[D] = f[y] + sum[D \ {y}]
  <2> DEFINE Bad == {S \in SUBSET D : \E x \in S : sum[S] # f[x] + sum[S \ {x}]}
  <2>1. SUFFICES ASSUME Bad # {} PROVE FALSE
    OBVIOUS
  <2>2. PICK S \in Bad : \A x \in S : S \ {x} \notin Bad
    BY <2>1, SmallestSubset
  <2>3. PICK x \in S : sum[S] # f[x] + sum[S \ {x}]
    BY <2>2
  <2> DEFINE p == Pick(S)
  <2>4. p \in S /\ S \in SUBSET D /\ sum[S] = f[p] + sum[S \ {p}]
    BY <1>1, <2>2, PickIn DEF SumsUp
  <2>5. x # p
    BY <2>3, <2>4
  <2> DEFINE rest == (S \ {p}) \ {x}
  <2>6. sum[S \ {p}] = f[x] + sum[rest]
    <3>1. S \ {p} \notin Bad /\ x \in S \ {p} /\ S \ {p} \in SUBSET D
      BY <2>2, <2>4, <2>5
    <3> HIDE DEF p
    <3> QED
      BY <3>1
  <2>7. sum[S \ {x}] = f[p] + sum[rest]
    <3>1. S \ {x} \notin Bad /\ p \in S \ {x} /\ S \ {x} \in SUBSET D
      BY <2>2, <2>4, <2>5
    <3>2. (S \ {x}) \ {p} = rest
      OBVIOUS
    <3> HIDE DEF p, rest
    <3>3. sum[S \ {x}] = f[p] + sum[(S \ {x}) \ {p}]
      BY <3>1
    <3> QED
      BY <3>2, <3>3
  <2>8. f[x] \in Int /\ f[p] \in Int /\ sum[rest] \in Int
    BY <1>1, <2>4
  <2> HIDE DEF p, rest
  <2> QED
    BY <2>3, <2>4, <2>6, <2>7, <2>8
<1> QED
  BY <1>1, <1>2, <1>3, <1>4

LEMMA SumOfNone == ASSUME NEW f PROVE SumFunctionOnSet(f, {}) = 0
<1>1. PICK sum : SumsUp(f, {}, sum) /\ SumFunctionOnSet(f, {}) = sum[{}]
  BY SumIsBuilt, FS_EmptySet
<1> QED
  BY <1>1 DEF SumsUp

LEMMA SumType ==
  ASSUME NEW S, IsFiniteSet(S), NEW f, \A x \in S : f[x] \in Int
  PROVE  SumFunctionOnSet(f, S) \in Int
<1>1. PICK sum \in [SUBSET S -> Int] : SumsUp(f, S, sum) /\ SumFunctionOnSet(f, S) = sum[S]
  BY SumIsBuilt
<1> QED
  BY <1>1

\* The sum of other summands that have the same values is the same sum.
LEMMA SumOfEqual ==
  ASSUME NEW S, IsFiniteSet(S), NEW f, \A x \in S : f[x] \in Int,
         NEW g, \A x \in S : f[x] = g[x]
  PROVE  SumFunctionOnSet(f, S) = SumFunctionOnSet(g, S)
<1>1. PICK sum : SumsUp(f, S, sum) /\ SumFunctionOnSet(f, S) = sum[S]
  BY SumIsBuilt
<1>2. PICK other : SumsUp(g, S, other) /\ SumFunctionOnSet(g, S) = other[S]
  BY SumIsBuilt
<1> QED
  BY <1>1, <1>2, SumsAgree

\* One element more adds its summand.
LEMMA SumWithOne ==
  ASSUME NEW S, IsFiniteSet(S), NEW y, y \notin S, NEW f, \A x \in S \cup {y} : f[x] \in Int
  PROVE  SumFunctionOnSet(f, S \cup {y}) = f[y] + SumFunctionOnSet(f, S)
<1> DEFINE T == S \cup {y}
<1>1. IsFiniteSet(T) /\ y \in T /\ T \ {y} = S
  BY FS_AddElement
<1>2. \A x \in T : f[x] \in Int
  OBVIOUS
<1> HIDE DEF T
<1>3. SumFunctionOnSet(f, T) = f[y] + SumFunctionOnSet(f, T \ {y})
  BY <1>1, <1>2, SumWithout, Zenon
<1> QED
  BY <1>1, <1>3 DEF T

LEMMA SumOfOne ==
  ASSUME NEW y, NEW f, f[y] \in Int
  PROVE  SumFunctionOnSet(f, {y}) = f[y]
<1>1. SumFunctionOnSet(f, {} \cup {y}) = f[y] + SumFunctionOnSet(f, {})
  BY SumWithOne, FS_EmptySet
<1>2. {} \cup {y} = {y}
  OBVIOUS
<1> QED
  BY <1>1, <1>2, SumOfNone

\* A sum lies between as many times the least and as many times the greatest summand.
LEMMA SumBetween ==
  ASSUME NEW S, IsFiniteSet(S), NEW f, NEW lo \in Int, NEW hi \in Int,
         \A x \in S : f[x] \in lo..hi
  PROVE  /\ SumFunctionOnSet(f, S) \in Int /\ Cardinality(S) \in Nat
         /\ lo * Cardinality(S) <= SumFunctionOnSet(f, S)
         /\ SumFunctionOnSet(f, S) <= hi * Cardinality(S)
<1> DEFINE sum(T) == SumFunctionOnSet(f, T)
           n(T) == Cardinality(T)
           Between(T) == lo * n(T) <= sum(T) /\ sum(T) <= hi * n(T)
           Bad == {T \in SUBSET S : ~Between(T)}
<1>1. \A T \in SUBSET S : IsFiniteSet(T) /\ n(T) \in Nat
  BY FS_Subset, FS_CardinalityType
<1>2. \A T \in SUBSET S : sum(T) \in Int
  <2> TAKE T \in SUBSET S
  <2>1. IsFiniteSet(T) /\ \A x \in T : f[x] \in Int
    BY <1>1
  <2> QED
    BY <2>1, SumType, Zenon
<1>3. Bad = {}
  <2> SUFFICES ASSUME Bad # {} PROVE FALSE
    OBVIOUS
  <2>1. PICK T \in Bad : \A x \in T : T \ {x} \notin Bad
    <3>1. Bad \subseteq SUBSET S
      OBVIOUS
    <3> HIDE DEF Bad
    <3> QED
      BY <3>1, SmallestSubset, Zenon
  <2>2. T \in SUBSET S /\ ~Between(T)
    BY <2>1
  <2>3. T # {}
    <3>1. n({}) = 0 /\ sum({}) = 0
      BY SumOfNone, FS_EmptySet
    <3>2. Between({})
      BY <3>1
    <3> HIDE DEF Between
    <3> QED
      BY <2>2, <3>2
  <2>4. PICK y : y \in T
    BY <2>3
  <2>5. Between(T \ {y})
    BY <2>1, <2>2, <2>4
  <2>6. sum(T) = f[y] + sum(T \ {y})
    <3>1. IsFiniteSet(T) /\ \A x \in T : f[x] \in Int
      BY <1>1, <2>2
    <3> QED
      BY <2>4, <3>1, SumWithout
  <2>7. n(T \ {y}) = n(T) - 1
    BY <1>1, <2>2, <2>4, FS_RemoveElement
  <2>8. f[y] \in Int /\ lo <= f[y] /\ f[y] <= hi
    BY <2>2, <2>4
  <2>9. sum(T) \in Int /\ sum(T \ {y}) \in Int /\ n(T) \in Nat
    BY <1>1, <1>2, <2>2
  <2>10. lo * n(T \ {y}) = lo * n(T) - lo /\ hi * n(T \ {y}) = hi * n(T) - hi
    <3> HIDE DEF n
    <3> QED
      BY <2>7, <2>9
  <2>11. lo * n(T) \in Int /\ hi * n(T) \in Int
    <3> HIDE DEF n
    <3> QED
      BY <2>9
  <2>12. Between(T)
    <3> HIDE DEF n, sum
    <3> QED
      BY <2>5, <2>6, <2>8, <2>9, <2>10, <2>11
  <2> QED
    BY <2>2, <2>12
<1>4. Between(S)
  <2> HIDE DEF Between
  <2> QED
    BY <1>3
<1> QED
  BY <1>1, <1>2, <1>4

-----------------------------------------------------------------------------
(* Sums of a function over its whole domain, SumFunction *)

LEMMA TotalType ==
  ASSUME NEW f, IsFiniteSet(DOMAIN f), \A x \in DOMAIN f : f[x] \in Int
  PROVE  SumFunction(f) \in Int
BY SumType DEF SumFunction

LEMMA TotalOfNone == ASSUME NEW f, DOMAIN f = {} PROVE SumFunction(f) = 0
BY SumOfNone DEF SumFunction

LEMMA TotalOfOne ==
  ASSUME NEW f, NEW y, DOMAIN f = {y}, f[y] \in Int
  PROVE  SumFunction(f) = f[y]
BY SumOfOne DEF SumFunction

\* A function with one argument more has its value there added.
LEMMA TotalWithOne ==
  ASSUME NEW f, IsFiniteSet(DOMAIN f), NEW y, y \notin DOMAIN f,
         NEW g, DOMAIN g = DOMAIN f \cup {y}, \A x \in DOMAIN g : g[x] \in Int,
         \A x \in DOMAIN f : f[x] = g[x]
  PROVE  SumFunction(g) = g[y] + SumFunction(f)
<1> DEFINE S == DOMAIN f
<1>1. SumFunctionOnSet(g, S \cup {y}) = g[y] + SumFunctionOnSet(g, S)
  <2>1. IsFiniteSet(S) /\ y \notin S /\ \A x \in S \cup {y} : g[x] \in Int
    OBVIOUS
  <2> HIDE DEF S
  <2> QED
    BY <2>1, SumWithOne, Zenon
<1>2. SumFunctionOnSet(f, S) = SumFunctionOnSet(g, S)
  BY SumOfEqual
<1> QED
  BY <1>1, <1>2 DEF SumFunction

-----------------------------------------------------------------------------
(* Places in an order, and sums over parts and in another order *)

Orders(R, S) ==
  /\ \A a, b \in S : << a, b >> \in R \/ << b, a >> \in R
  /\ \A a, b \in S : << a, b >> \in R /\ << b, a >> \in R => a = b
  /\ \A a, b, c \in S : << a, b >> \in R /\ << b, c >> \in R => << a, c >> \in R

Places(R, S) == [i \in S |-> Cardinality({j \in S : << j, i >> \in R})]

\* Counting who comes no later gives everyone of a finite set a place of their own.
LEMMA PlacesAreTaken ==
  ASSUME NEW S, IsFiniteSet(S), NEW R, Orders(R, S)
  PROVE  Places(R, S) \in Bijection(S, 1..Cardinality(S))
<1> USE DEF Orders
<1> DEFINE rank == Places(R, S)
           upTo(i) == {j \in S : << j, i >> \in R}
           n == Cardinality(S)
<1>1. \A i \in S : /\ upTo(i) \subseteq S /\ i \in upTo(i) /\ IsFiniteSet(upTo(i))
                   /\ Cardinality(upTo(i)) \in Nat /\ Cardinality(upTo(i)) <= n
  BY FS_Subset, FS_CardinalityType
<1>2. n \in Nat
  BY FS_CardinalityType
<1>3. \A i \in S : rank[i] = Cardinality(upTo(i))
  BY DEF Places
<1>4. \A i \in S : rank[i] \in 1..n
  <2> TAKE i \in S
  <2>1. Cardinality(upTo(i)) # 0
    BY <1>1, FS_EmptySet
  <2> HIDE DEF upTo, n
  <2> QED
    BY <1>1, <1>2, <1>3, <2>1
<1>5. ASSUME NEW i \in S, NEW k \in S, rank[i] = rank[k], << i, k >> \in R
      PROVE  i = k
  <2>1. upTo(i) \subseteq upTo(k)
    BY <1>5
  <2>2. Cardinality(upTo(k)) = Cardinality(upTo(i)) /\ IsFiniteSet(upTo(k))
    BY <1>1, <1>3, <1>5
  <2>3. upTo(k) = upTo(i)
    <3> HIDE DEF upTo
    <3> QED
      BY <2>1, <2>2, FS_Subset
  <2>4. k \in upTo(i)
    BY <1>1, <2>3
  <2> QED
    BY <1>5, <2>4
<1>6. rank \in Injection(S, 1..n)
  <2>1. rank \in [S -> 1..n]
    <3>1. rank = [i \in S |-> rank[i]]
      BY DEF Places
    <3> HIDE DEF n, rank
    <3> QED
      BY <1>4, <3>1
  <2>2. \A i, k \in S : rank[i] = rank[k] => i = k
    BY <1>5
  <2> QED
    BY <2>1, <2>2, Fun_IsInj
<1>7. rank \in Surjection(S, 1..n)
  <2>1. IsFiniteSet(1..n) /\ Cardinality(1..n) = n
    BY <1>2, FS_Interval
  <2> QED
    BY <1>6, <2>1, FS_Injection
<1> QED
  BY <1>6, <1>7 DEF Bijection

\* The summands may be added in any order.
LEMMA SumReindexed ==
  ASSUME NEW S, IsFiniteSet(S), NEW T, NEW b \in Bijection(S, T),
         NEW f, \A y \in T : f[y] \in Int, NEW g, \A x \in S : g[x] = f[b[x]]
  PROVE  SumFunctionOnSet(g, S) = SumFunctionOnSet(f, T)
<1> DEFINE image(U) == {b[x] : x \in U}
           Bad == {U \in SUBSET S : SumFunctionOnSet(g, U) # SumFunctionOnSet(f, image(U))}
<1>1. /\ \A x \in S : b[x] \in T
      /\ \A x, y \in S : b[x] = b[y] => x = y
      /\ T = image(S)
  <2>1. /\ b \in [S -> T]
        /\ \A x, y \in S : b[x] = b[y] => x = y
        /\ \A t \in T : \E x \in S : b[x] = t
    BY Fun_BijectionProperties
  <2> QED
    BY <2>1
<1>2. Bad = {}
  <2> SUFFICES ASSUME Bad # {} PROVE FALSE
    OBVIOUS
  <2>1. PICK U \in Bad : IsFiniteSet(U) /\ \A x \in U : U \ {x} \notin Bad
    <3>1. Bad \subseteq SUBSET S
      OBVIOUS
    <3> HIDE DEF Bad
    <3> QED
      BY <3>1, SmallestSubset, Zenon
  <2>2. U \subseteq S /\ SumFunctionOnSet(g, U) # SumFunctionOnSet(f, image(U))
    BY <2>1
  <2>3. U # {}
    <3>1. image({}) = {}
      OBVIOUS
    <3> HIDE DEF image
    <3> QED
      BY <2>2, <3>1, SumOfNone
  <2>4. PICK x : x \in U
    BY <2>3
  <2>5. SumFunctionOnSet(g, U \ {x}) = SumFunctionOnSet(f, image(U \ {x}))
    BY <2>1, <2>2, <2>4
  <2>6. SumFunctionOnSet(g, U) = g[x] + SumFunctionOnSet(g, U \ {x})
    <3>1. \A y \in U : g[y] \in Int
      BY <1>1, <2>2
    <3> QED
      BY <2>1, <2>4, <3>1, SumWithout
  <2>7. image(U \ {x}) = image(U) \ {b[x]}
    BY <1>1, <2>2, <2>4
  <2>8. SumFunctionOnSet(f, image(U)) = f[b[x]] + SumFunctionOnSet(f, image(U) \ {b[x]})
    <3>1. b[x] \in image(U) /\ \A y \in image(U) : f[y] \in Int
      BY <1>1, <2>2, <2>4
    <3>2. IsFiniteSet(image(U))
      <4>1. [y \in U |-> b[y]] \in Surjection(U, image(U))
        BY DEF Surjection
      <4> QED
        BY <2>1, <4>1, FS_Surjection
    <3> HIDE DEF image
    <3> QED
      BY <3>1, <3>2, SumWithout
  <2> HIDE DEF image
  <2> QED
    BY <2>2, <2>4, <2>5, <2>6, <2>7, <2>8
<1> QED
  BY <1>1, <1>2

\* A sum over two sets that have nothing in common is the sum of their sums.
LEMMA SumOfUnion ==
  ASSUME NEW S, IsFiniteSet(S), NEW T, IsFiniteSet(T), S \cap T = {},
         NEW f, \A x \in S \cup T : f[x] \in Int
  PROVE  SumFunctionOnSet(f, S \cup T) = SumFunctionOnSet(f, S) + SumFunctionOnSet(f, T)
<1> DEFINE sum(U) == SumFunctionOnSet(f, U)
           Bad == {U \in SUBSET T : sum(S \cup U) # sum(S) + sum(U)}
<1>1. \A U \in SUBSET (S \cup T) : IsFiniteSet(U) /\ sum(U) \in Int
  <2>1. IsFiniteSet(S \cup T)
    BY FS_Union
  <2> TAKE U \in SUBSET (S \cup T)
  <2>2. IsFiniteSet(U)
    BY <2>1, FS_Subset
  <2> QED
    BY <2>2, SumType
<1>2. Bad = {}
  <2> SUFFICES ASSUME Bad # {} PROVE FALSE
    OBVIOUS
  <2>1. PICK U \in Bad : \A x \in U : U \ {x} \notin Bad
    <3>1. Bad \subseteq SUBSET T
      OBVIOUS
    <3> HIDE DEF Bad
    <3> QED
      BY <3>1, SmallestSubset, Zenon
  <2>2. U \in SUBSET T /\ sum(S \cup U) # sum(S) + sum(U)
    BY <2>1
  <2>3. U # {}
    <3>1. S \cup {} = S /\ sum({}) = 0 /\ sum(S) \in Int
      BY <1>1, SumOfNone
    <3> HIDE DEF sum
    <3> QED
      BY <2>2, <3>1
  <2>4. PICK x : x \in U
    BY <2>3
  <2>5. sum(S \cup (U \ {x})) = sum(S) + sum(U \ {x})
    BY <2>1, <2>2, <2>4
  <2>6. sum(U) = f[x] + sum(U \ {x})
    <3>1. IsFiniteSet(U) /\ \A y \in U : f[y] \in Int
      BY <1>1, <2>2
    <3> QED
      BY <2>4, <3>1, SumWithout
  <2>7. sum(S \cup U) = f[x] + sum(S \cup (U \ {x}))
    <3>1. IsFiniteSet(S \cup U) /\ (\A y \in S \cup U : f[y] \in Int) /\ x \in S \cup U
      BY <1>1, <2>2, <2>4
    <3>2. (S \cup U) \ {x} = S \cup (U \ {x})
      BY <2>2, <2>4
    <3>3. sum(S \cup U) = f[x] + sum((S \cup U) \ {x})
      BY <3>1, SumWithout
    <3> HIDE DEF sum
    <3> QED
      BY <3>2, <3>3
  <2>8. f[x] \in Int /\ sum(S) \in Int /\ sum(U \ {x}) \in Int
    BY <1>1, <2>2, <2>4
  <2> HIDE DEF sum
  <2> QED
    BY <2>2, <2>5, <2>6, <2>7, <2>8
<1>3. sum(S \cup T) = sum(S) + sum(T)
  <2> HIDE DEF sum
  <2> QED
    BY <1>2
<1> QED
  BY <1>3

\* Summands that are not negative have a sum that is not.
LEMMA SumIsNatural ==
  ASSUME NEW S, IsFiniteSet(S), NEW f, \A x \in S : f[x] \in Nat
  PROVE  SumFunctionOnSet(f, S) \in Nat
<1> DEFINE sum(U) == SumFunctionOnSet(f, U)
           Bad == {U \in SUBSET S : sum(U) \notin Nat}
<1>1. Bad = {}
  <2> SUFFICES ASSUME Bad # {} PROVE FALSE
    OBVIOUS
  <2>1. PICK U \in Bad : IsFiniteSet(U) /\ \A x \in U : U \ {x} \notin Bad
    <3>1. Bad \subseteq SUBSET S
      OBVIOUS
    <3> HIDE DEF Bad
    <3> QED
      BY <3>1, SmallestSubset, Zenon
  <2>2. U \in SUBSET S /\ sum(U) \notin Nat
    BY <2>1
  <2>3. PICK x : x \in U
    <3>1. sum({}) \in Nat
      BY SumOfNone
    <3> HIDE DEF sum
    <3> QED
      BY <2>2, <3>1
  <2>4. sum(U \ {x}) \in Nat
    BY <2>1, <2>2, <2>3
  <2>5. sum(U) = f[x] + sum(U \ {x})
    <3>1. \A y \in U : f[y] \in Int
      BY <2>2
    <3> QED
      BY <2>1, <2>3, <3>1, SumWithout
  <2>6. f[x] \in Nat
    BY <2>2, <2>3
  <2> HIDE DEF sum
  <2> QED
    BY <2>2, <2>4, <2>5, <2>6
<1>2. sum(S) \in Nat
  <2> HIDE DEF sum
  <2> QED
    BY <1>1
<1> QED
  BY <1>2

\* Two sums over the same set are the sum of the sums of two.
LEMMA SumOfBoth ==
  ASSUME NEW S, IsFiniteSet(S), NEW f, NEW g, \A x \in S : f[x] \in Int /\ g[x] \in Int,
         NEW h, \A x \in S : h[x] = f[x] + g[x]
  PROVE  SumFunctionOnSet(h, S) = SumFunctionOnSet(f, S) + SumFunctionOnSet(g, S)
<1> DEFINE F(U) == SumFunctionOnSet(f, U)
           G(U) == SumFunctionOnSet(g, U)
           H(U) == SumFunctionOnSet(h, U)
           Bad == {U \in SUBSET S : H(U) # F(U) + G(U)}
<1>1. Bad = {}
  <2> SUFFICES ASSUME Bad # {} PROVE FALSE
    OBVIOUS
  <2>1. PICK U \in Bad : IsFiniteSet(U) /\ \A x \in U : U \ {x} \notin Bad
    <3>1. Bad \subseteq SUBSET S
      OBVIOUS
    <3> HIDE DEF Bad
    <3> QED
      BY <3>1, SmallestSubset, Zenon
  <2>2. U \in SUBSET S /\ H(U) # F(U) + G(U)
    BY <2>1
  <2>3. PICK x : x \in U
    <3>1. H({}) = F({}) + G({})
      BY SumOfNone
    <3> HIDE DEF F, G, H
    <3> QED
      BY <2>2, <3>1
  <2>4. H(U \ {x}) = F(U \ {x}) + G(U \ {x})
    BY <2>1, <2>2, <2>3
  <2>5. \A y \in U : f[y] \in Int /\ g[y] \in Int /\ h[y] \in Int /\ h[y] = f[y] + g[y]
    BY <2>2
  <2>6. /\ F(U) = f[x] + F(U \ {x}) /\ G(U) = g[x] + G(U \ {x}) /\ H(U) = h[x] + H(U \ {x})
    BY <2>1, <2>3, <2>5, SumWithout
  <2>7. F(U \ {x}) \in Int /\ G(U \ {x}) \in Int
    BY <2>1, <2>5, FS_Subset, SumType
  <2> HIDE DEF F, G, H
  <2> QED
    BY <2>2, <2>3, <2>4, <2>5, <2>6, <2>7
<1>2. H(S) = F(S) + G(S)
  <2> HIDE DEF F, G, H
  <2> QED
    BY <1>1
<1> QED
  BY <1>2
===============================================================================
