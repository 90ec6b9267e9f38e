------------------------------ MODULE ReplayProofs ------------------------------
(***************************************************************************)
(* The safety of the back-test, for every flow file, chain, price, option  *)
(* and length of a replay: its money is booked once, it holds only what it *)
(* may hold, and it trades only on what it may know.  One inductive        *)
(* invariant carries the three; below it are the lemmas about lists that   *)
(* are kept in part, sorted and summed, and about one trade.               *)
(***************************************************************************)
EXTENDS ReplayEngine, FoldProofs, SequenceTheorems

-----------------------------------------------------------------------------
(* Lists that are kept in part, or sorted *)

\* nth goes through the places of some in the order in which the list has them.
Lists(list, some, result) ==
  \E nth \in Bijection(1..Cardinality(some), some) :
    result = [k \in 1..Cardinality(some) |-> list[nth[k]]]

LEMMA ArrangedIs ==
  ASSUME NEW list, NEW some, NEW rank \in Bijection(some, 1..Cardinality(some))
  PROVE  Lists(list, some, Arranged(list, rank))
<1> DEFINE n == Cardinality(some)
<1>1. /\ rank \in [some -> 1..n]
      /\ \A i, j \in some : rank[i] = rank[j] => i = j
      /\ \A k \in 1..n : \E i \in some : rank[i] = k
  <2> DEFINE places == 1..n
  <2>1. rank \in Bijection(some, places)
    OBVIOUS
  <2> HIDE DEF places
  <2>2. /\ rank \in [some -> places]
        /\ \A i, j \in some : rank[i] = rank[j] => i = j
        /\ \A k \in places : \E i \in some : rank[i] = k
    BY <2>1, Fun_BijectionProperties
  <2> QED
    BY <2>2 DEF places
<1> DEFINE nth == [k \in 1..n |-> CHOOSE i \in some : rank[i] = k]
<1>2. DOMAIN rank = some
  BY <1>1
<1> HIDE DEF n
<1>3. \A k \in 1..n : nth[k] \in some /\ rank[nth[k]] = k
  BY <1>1
<1>4. nth \in [1..n -> some]
  BY <1>3
<1>5. \A k, m \in 1..n : nth[k] = nth[m] => k = m
  BY <1>3
<1>6. \A i \in some : nth[rank[i]] = i /\ rank[i] \in 1..n
  <2> TAKE i \in some
  <2>1. rank[i] \in 1..n
    BY <1>1
  <2>2. nth[rank[i]] \in some /\ rank[nth[rank[i]]] = rank[i]
    BY <1>3, <2>1
  <2> HIDE DEF nth
  <2> QED
    BY <1>1, <2>1, <2>2
<1>7. nth \in Bijection(1..n, some)
  <2> HIDE DEF nth
  <2>1. \A i \in some : \E k \in 1..n : nth[k] = i
    BY <1>6
  <2> QED
    BY <1>4, <1>5, <2>1, Fun_IsBij
<1>8. Arranged(list, rank) = [k \in 1..n |-> list[nth[k]]]
  BY <1>2 DEF Arranged, n
<1> QED
  BY <1>7, <1>8 DEF Lists, n

LEMMA KeptIs ==
  ASSUME NEW list, NEW some, IsFiniteSet(some), some \subseteq Int
  PROVE  Lists(list, some, Kept(list, some))
<1> DEFINE R == {p \in some \X some : p[1] <= p[2]}
<1>1. Orders(R, some)
  BY DEF Orders
<1>2. Places(R, some) = [i \in some |-> Cardinality({j \in some : j =< i})]
  <2>1. \A i \in some : {j \in some : << j, i >> \in R} = {j \in some : j =< i}
    OBVIOUS
  <2> HIDE DEF R
  <2> QED
    BY <2>1 DEF Places
<1> HIDE DEF R
<1>3. Places(R, some) \in Bijection(some, 1..Cardinality(some))
  BY <1>1, PlacesAreTaken
<1> QED
  BY <1>2, <1>3, ArrangedIs DEF Kept

LEMMA SortedIs ==
  ASSUME NEW list, IsFiniteSet(DOMAIN list), DOMAIN list \subseteq Int,
         NEW key, \A i \in DOMAIN list : key[i] \in Int
  PROVE  Lists(list, DOMAIN list, Sorted(list, key))
<1> DEFINE some == DOMAIN list
           R == {p \in some \X some : \/ key[p[1]] < key[p[2]]
                                      \/ key[p[1]] = key[p[2]] /\ p[1] <= p[2]}
           first(i, j) == key[j] < key[i] \/ (key[j] = key[i] /\ j =< i)
<1>1. some \subseteq Int /\ IsFiniteSet(some) /\ \A i \in some : key[i] \in Int
  OBVIOUS
<1>2. Sorted(list, key) = Arranged(list, [i \in some |-> Cardinality({j \in some : first(i, j)})])
  BY DEF Sorted
<1> HIDE DEF some
<1>3. Orders(R, some)
  BY <1>1 DEF Orders
<1>4. Places(R, some) = [i \in some |-> Cardinality({j \in some : first(i, j)})]
  <2>1. \A i \in some : {j \in some : << j, i >> \in R} = {j \in some : first(i, j)}
    OBVIOUS
  <2> HIDE DEF R, first
  <2> QED
    BY <2>1 DEF Places
<1> HIDE DEF R, first
<1>5. Places(R, some) \in Bijection(some, 1..Cardinality(some))
  BY <1>1, <1>3, PlacesAreTaken
<1>6. Lists(list, some, Sorted(list, key))
  BY <1>2, <1>4, <1>5, ArrangedIs
<1> QED
  BY <1>6 DEF some

LEMMA ListsMembers ==
  ASSUME NEW list, NEW some, IsFiniteSet(some), NEW result, Lists(list, some, result),
         NEW T, \A i \in some : list[i] \in T
  PROVE  /\ result \in Seq(T) /\ Len(result) = Cardinality(some)
         /\ DOMAIN result = 1..Cardinality(some)
         /\ \A k \in DOMAIN result : \E i \in some : result[k] = list[i]
<1>1. Cardinality(some) \in Nat
  BY FS_CardinalityType
<1> DEFINE n == Cardinality(some)
<1>2. PICK nth \in Bijection(1..n, some) : result = [k \in 1..n |-> list[nth[k]]]
  BY DEF Lists
<1> HIDE DEF n
<1>3. \A k \in 1..n : nth[k] \in some
  <2>1. nth \in [1..n -> some]
    BY Fun_BijectionProperties, Zenon
  <2> QED
    BY <2>1
<1>4. DOMAIN result = 1..n /\ \A k \in 1..n : result[k] = list[nth[k]]
  BY <1>2
<1>5. result \in [1..n -> T]
  BY <1>2, <1>3
<1>6. result \in Seq(T)
  BY <1>1, <1>5, SeqDef DEF n
<1>7. Len(result) = n
  BY <1>1, <1>4, <1>6, LenProperties DEF n
<1> QED
  BY <1>3, <1>4, <1>6, <1>7 DEF n

-----------------------------------------------------------------------------
(* Sums along lists *)

\* f says of a member of the result what g says of it in the list.
Reads(f, result, g, list, some) ==
  /\ \A i \in some : g[i] \in Int
  /\ \A k \in DOMAIN result : \A i \in some : result[k] = list[i] => f[k] = g[i]

\* h is f along the first m places, and g along the n after them.
Joins(h, f, m, g, n) ==
  /\ \A i \in 1..m : f[i] \in Int /\ h[i] = f[i]
  /\ \A i \in 1..n : g[i] \in Int /\ h[m + i] = g[i]

\* A list that is kept in part sums what is kept.
LEMMA SumOfListed ==
  ASSUME NEW list, NEW some, IsFiniteSet(some), NEW result, Lists(list, some, result),
         NEW g, NEW f, Reads(f, result, g, list, some)
  PROVE  SumFunctionOnSet(f, DOMAIN result) = SumFunctionOnSet(g, some)
<1> USE DEF Reads
<1>1. Cardinality(some) \in Nat
  BY FS_CardinalityType
<1> DEFINE places == 1..Cardinality(some)
<1>2. IsFiniteSet(places)
  BY <1>1, FS_Interval
<1>3. PICK nth \in Bijection(places, some) : result = [k \in places |-> list[nth[k]]]
  BY DEF Lists
<1> HIDE DEF places
<1>4. nth \in [places -> some]
  BY Fun_BijectionProperties, Zenon
<1>5. DOMAIN result = places
  BY <1>3
<1>6. \A k \in places : f[k] = g[nth[k]]
  BY <1>3, <1>4, <1>5
<1> QED
  BY <1>2, <1>5, <1>6, SumReindexed

\* The sum along two lists, one after the other.
LEMMA SumOfJoined ==
  ASSUME NEW m \in Nat, NEW n \in Nat, NEW f, NEW g, NEW h, Joins(h, f, m, g, n)
  PROVE  SumFunctionOnSet(h, 1..(m + n)) = SumFunctionOnSet(f, 1..m) + SumFunctionOnSet(g, 1..n)
<1> USE DEF Joins
<1> DEFINE front == 1..m
           back == (m + 1)..(m + n)
           shift == [i \in 1..n |-> m + i]
<1>1. IsFiniteSet(front) /\ IsFiniteSet(back) /\ IsFiniteSet(1..n)
  BY FS_Interval
<1>2. front \cap back = {} /\ front \cup back = 1..(m + n)
  OBVIOUS
<1>3. \A i \in back : i - m \in 1..n /\ h[i] = g[i - m]
  <2> TAKE i \in back
  <2>1. i - m \in 1..n /\ m + (i - m) = i
    OBVIOUS
  <2> QED
    BY <2>1
<1>4. \A i \in front \cup back : h[i] \in Int
  BY <1>3
<1>5. shift \in Bijection(1..n, back)
  <2>1. shift \in [1..n -> back]
    OBVIOUS
  <2>2. \A i, j \in 1..n : shift[i] = shift[j] => i = j
    OBVIOUS
  <2>3. \A t \in back : \E i \in 1..n : shift[i] = t
    <3> TAKE t \in back
    <3>1. t - m \in 1..n /\ shift[t - m] = t
      OBVIOUS
    <3> QED
      BY <3>1
  <2> DEFINE places == 1..n
  <2> HIDE DEF shift, back
  <2>4. shift \in Bijection(places, back)
    <3>1. /\ shift \in [places -> back]
          /\ \A i, j \in places : shift[i] = shift[j] => i = j
          /\ \A t \in back : \E i \in places : shift[i] = t
      BY <2>1, <2>2, <2>3
    <3> HIDE DEF places
    <3> QED
      BY <3>1, Fun_IsBij
  <2> QED
    BY <2>4
<1>6. \A i \in 1..n : g[i] = h[shift[i]]
  OBVIOUS
<1> HIDE DEF front, back, shift
<1>7. SumFunctionOnSet(g, 1..n) = SumFunctionOnSet(h, back)
  BY <1>1, <1>4, <1>5, <1>6, SumReindexed
<1>8. SumFunctionOnSet(h, front) = SumFunctionOnSet(f, front)
  BY <1>1, SumOfEqual DEF front
<1>9. SumFunctionOnSet(h, front \cup back) = SumFunctionOnSet(h, front) + SumFunctionOnSet(h, back)
  BY <1>1, <1>2, <1>4, SumOfUnion
<1> QED
  BY <1>2, <1>7, <1>8, <1>9 DEF front

\* One summand changes.
LEMMA SumChanged ==
  ASSUME NEW S, IsFiniteSet(S), NEW y \in S, NEW f, \A x \in S : f[x] \in Int,
         NEW g, g[y] \in Int, \A x \in S \ {y} : g[x] = f[x]
  PROVE  SumFunctionOnSet(g, S) = SumFunctionOnSet(f, S) + (g[y] - f[y])
<1> DEFINE rest == S \ {y}
<1>1. IsFiniteSet(rest) /\ \A x \in S : g[x] \in Int
  BY FS_Subset
<1>2. SumFunctionOnSet(f, rest) = SumFunctionOnSet(g, rest) /\ SumFunctionOnSet(f, rest) \in Int
  BY <1>1, SumOfEqual, SumType
<1>3. SumFunctionOnSet(f, S) = f[y] + SumFunctionOnSet(f, rest)
  BY SumWithout
<1>4. SumFunctionOnSet(g, S) = g[y] + SumFunctionOnSet(g, rest)
  BY <1>1, SumWithout
<1>5. f[y] \in Int
  OBVIOUS
<1> HIDE DEF rest
<1> QED
  BY <1>2, <1>3, <1>4, <1>5

-----------------------------------------------------------------------------
(* The larger and the smaller of two numbers *)

LEMMA MaxOfTwo ==
  ASSUME NEW a \in Int, NEW b \in Int
  PROVE  Max({a, b}) = IF a >= b THEN a ELSE b
<1> DEFINE best == IF a >= b THEN a ELSE b
<1>1. best \in {a, b} /\ \A y \in {a, b} : best >= y
  OBVIOUS
<1>2. \A x \in {a, b} : (\A y \in {a, b} : x >= y) => x = best
  OBVIOUS
<1> QED
  BY <1>1, <1>2 DEF Max

LEMMA MinOfTwo ==
  ASSUME NEW a \in Int, NEW b \in Int
  PROVE  Min({a, b}) = IF a <= b THEN a ELSE b
<1> DEFINE best == IF a <= b THEN a ELSE b
<1>1. best \in {a, b} /\ \A y \in {a, b} : best <= y
  OBVIOUS
<1>2. \A x \in {a, b} : (\A y \in {a, b} : x <= y) => x = best
  OBVIOUS
<1> QED
  BY <1>1, <1>2 DEF Min

\* Finitely many numbers have a least and a greatest one.
LEMMA Extremes ==
  ASSUME NEW S, IsFiniteSet(S), S # {}, S \subseteq Int
  PROVE  /\ Min(S) \in S /\ \A y \in S : Min(S) <= y
         /\ Max(S) \in S /\ \A y \in S : Max(S) >= y
<1>1. \E x \in S : \A y \in S : x <= y
  <2> DEFINE R == {p \in S \X S : p[1] <= p[2]}
  <2>1. /\ \A a, b \in S : << a, b >> \in R \/ << b, a >> \in R
        /\ \A a, b, c \in S : << a, b >> \in R /\ << b, c >> \in R => << a, c >> \in R
    OBVIOUS
  <2>2. \A a, b \in S : << a, b >> \in R => a <= b
    OBVIOUS
  <2> HIDE DEF R
  <2>3. \E a \in S : \A b \in S : << a, b >> \in R
    BY <2>1, TopElement
  <2> QED
    BY <2>2, <2>3
<1>2. \E x \in S : \A y \in S : x >= y
  <2> DEFINE R == {p \in S \X S : p[1] >= p[2]}
  <2>1. /\ \A a, b \in S : << a, b >> \in R \/ << b, a >> \in R
        /\ \A a, b, c \in S : << a, b >> \in R /\ << b, c >> \in R => << a, c >> \in R
    OBVIOUS
  <2>2. \A a, b \in S : << a, b >> \in R => a >= b
    OBVIOUS
  <2> HIDE DEF R
  <2>3. \E a \in S : \A b \in S : << a, b >> \in R
    BY <2>1, TopElement
  <2> QED
    BY <2>2, <2>3
<1> QED
  BY <1>1, <1>2, Zenon DEF Min, Max

-----------------------------------------------------------------------------
(* Expirations, strikes and contracts *)

LEMMA NotANumber == None \notin Int
  BY SignalAssumption

LEMMA WeeklyExpirationIs ==
  ASSUME NEW from \in Int, NEW earliest \in Nat, NEW latest \in Nat,
         NEW exp, exp = WeeklyExpiration(from, earliest, latest), exp # None
  PROVE  exp \in Int /\ exp - from >= earliest
<1> DEFINE start == from + earliest
           friday == start + ((Friday - start) % 7)
<1>1. (Friday - start) % 7 \in 0..6
  BY DEF Friday
<1>2. exp = friday
  BY DEF WeeklyExpiration
<1> QED
  BY <1>1, <1>2

\* Days that pass leave fewer holidays ahead.
LEMMA HolidaysPass ==
  ASSUME NEW first \in Int, NEW later \in Int, first <= later, NEW last \in Int, NEW blackout,
         HolidayBetween(later, last, blackout)
  PROVE  HolidayBetween(first, last, blackout)
<1>1. \A days : days \cap later..last # {} => days \cap first..last # {}
  BY SMT
<1> QED
  BY <1>1 DEF HolidayBetween

LEMMA RoundedType ==
  ASSUME NEW a \in Int, NEW b \in Nat \ {0}
  PROVE  Rounded(a, b) \in Int
<1>1. a \div b \in Int
  OBVIOUS
<1> DEFINE down == a \div b
<1> HIDE DEF down
<1>2. Rounded(a, b) = down \/ Rounded(a, b) = down + 1
  BY DEF Rounded, down
<1> QED
  BY <1>1, <1>2 DEF down

LEMMA StrikesAre ==
  ASSUME NEW listed, listed \subseteq Int, IsFiniteSet(listed), NEW spot \in Int
  PROVE  Strikes(listed, spot) \subseteq Int /\ IsFiniteSet(Strikes(listed, spot))
<1> DEFINE step == IF spot < 100 THEN 2 ELSE IF spot < 400 THEN 5 ELSE IF spot < 1000 THEN 10 ELSE 20
           base == Rounded(spot, step) * step
           around == -30..30
           grid == {base + i * step : i \in around}
<1>1. step \in Nat \ {0}
  OBVIOUS
<1> HIDE DEF step
<1>2. base \in Int
  <2>1. Rounded(spot, step) \in Int
    BY <1>1, RoundedType
  <2> QED
    BY <1>1, <2>1
<1> HIDE DEF base
<1>3. grid \subseteq Int
  BY <1>1, <1>2
<1>4. IsFiniteSet(grid)
  <2> DEFINE strike(i) == base + i * step
             f == [i \in around |-> strike(i)]
  <2>1. IsFiniteSet(around)
    <3>1. -30 \in Int /\ 30 \in Int
      OBVIOUS
    <3> QED
      BY <3>1, FS_Interval
  <2> HIDE DEF around
  <2>2. f \in Surjection(around, grid)
    BY DEF Surjection
  <2> HIDE DEF f, grid
  <2> QED
    BY <2>1, <2>2, FS_Surjection
<1>5. Strikes(listed, spot) \in {listed, grid}
  BY DEF Strikes, base, step
<1> HIDE DEF grid
<1> QED
  BY <1>3, <1>4, <1>5

LEMMA NearestIs ==
  ASSUME NEW strikes, strikes \subseteq Int, IsFiniteSet(strikes), strikes # {}, NEW target \in Int
  PROVE  Nearest(target, strikes) \in strikes
<1> DEFINE away(s) == Distance(s, target)
           near == {s \in strikes : \A t \in strikes : away(s) =< away(t)}
           R == {p \in strikes \X strikes : away(p[1]) <= away(p[2])}
<1>1. \A s \in strikes : away(s) \in Int
  BY DEF Distance
<1> HIDE DEF away
<1>2. /\ \A a, b \in strikes : << a, b >> \in R \/ << b, a >> \in R
      /\ \A a, b, c \in strikes : << a, b >> \in R /\ << b, c >> \in R => << a, c >> \in R
  BY <1>1
<1>3. \A a, b \in strikes : << a, b >> \in R => away(a) =< away(b)
  OBVIOUS
<1>4. near # {}
  <2> HIDE DEF R
  <2>1. \E a \in strikes : \A b \in strikes : << a, b >> \in R
    BY <1>2, TopElement
  <2> QED
    BY <1>3, <2>1
<1>5. near \subseteq strikes /\ IsFiniteSet(near)
  BY FS_Subset
<1>6. Nearest(target, strikes) = Min(near)
  BY DEF Nearest, away
<1> HIDE DEF near
<1>7. near \subseteq Int
  BY <1>5
<1>8. Min(near) \in near
  BY <1>4, <1>5, <1>7, Extremes
<1> QED
  BY <1>5, <1>6, <1>8

\* A spread that is found has two strikes apart.
LEMMA SpreadAtIs ==
  ASSUME NEW strikes, strikes \subseteq Int, IsFiniteSet(strikes), NEW spot \in Int,
         NEW dir \in Directions, NEW target \in Int, NEW width \in Int,
         NEW spread, spread = SpreadAt(strikes, spot, dir, target, width), spread # None
  PROVE  spread.short \in Int /\ spread.long \in Int /\ spread.width \in Nat \ {0}
<1> DEFINE shorts == OutOf(strikes, spot, dir)
           short == Nearest(target, shorts)
           longs == OutOf(strikes, short, dir)
           aim == IF dir = "bullish" THEN 100 * short - width ELSE 100 * short + width
           long == Nearest(aim, longs)
<1>1. /\ shorts # {} /\ longs # {}
      /\ spread = [short |-> short, long |-> long, width |-> Max({short - long, long - short})]
  BY DEF SpreadAt
<1>2. shorts \subseteq Int /\ IsFiniteSet(shorts)
  BY FS_Subset DEF OutOf
<1> HIDE DEF shorts
<1>3. short \in Int
  BY <1>1, <1>2, NearestIs
<1> HIDE DEF short
<1>4. longs \subseteq Int /\ IsFiniteSet(longs) /\ \A s \in longs : s # short
  <2>1. longs \subseteq strikes
    BY DEF OutOf
  <2>2. \A s \in longs : s # short
    BY <1>3 DEF OutOf
  <2> HIDE DEF longs
  <2> QED
    BY <2>1, <2>2, FS_Subset
<1>5. aim \in Int
  BY <1>3
<1> HIDE DEF longs, aim
<1>6. long \in longs
  BY <1>1, <1>4, <1>5, NearestIs
<1> HIDE DEF long
<1>7. long \in Int /\ long # short
  BY <1>4, <1>6
<1>8. Max({short - long, long - short}) \in Nat \ {0}
  <2>1. short - long \in Int /\ long - short \in Int
    BY <1>3, <1>7
  <2>2. Max({short - long, long - short})
          = IF short - long >= long - short THEN short - long ELSE long - short
    BY <2>1, MaxOfTwo
  <2> QED
    BY <1>3, <1>7, <2>2
<1> QED
  BY <1>1, <1>3, <1>7, <1>8

LEMMA EntrySpreadIs ==
  ASSUME NEW sym \in Watchlist, NEW spot \in Int, NEW dir \in Directions,
         NEW spread, spread = EntrySpread(Listed[sym], spot, dir), spread # None
  PROVE  spread.short \in Int /\ spread.long \in Int /\ spread.width \in Nat \ {0}
<1> DEFINE strikes == Strikes(Listed[sym], spot)
           target == IF dir = "bullish" THEN 97 * spot ELSE 103 * spot
           width == Max({600, Min({2000, spot})})
<1>1. strikes \subseteq Int /\ IsFiniteSet(strikes)
  BY FeedAssumption, StrikesAre
<1>2. width \in Int
  <2>1. Min({2000, spot}) \in Int
    BY MinOfTwo
  <2> QED
    BY <2>1, MaxOfTwo
<1>3. target \in Int
  OBVIOUS
<1>4. spread = SpreadAt(strikes, spot, dir, target, width)
  BY DEF EntrySpread
<1> HIDE DEF strikes, target, width
<1> QED
  BY <1>1, <1>2, <1>3, <1>4, SpreadAtIs

LEMMA RolledSpreadIs ==
  ASSUME NEW p, p.sym \in Watchlist, p.dir \in Directions,
         {p.spot, p.short, p.width} \subseteq Int,
         NEW spread, spread = RolledSpread(Listed[p.sym], p), spread # None
  PROVE  spread.short \in Int /\ spread.long \in Int /\ spread.width \in Nat \ {0}
<1> DEFINE strikes == Strikes(Listed[p.sym], p.spot)
           target == IF p.dir = "bullish" THEN Min({100 * p.short, 96 * p.spot})
                                          ELSE Max({100 * p.short, 104 * p.spot})
           width == 100 * p.width
<1>1. strikes \subseteq Int /\ IsFiniteSet(strikes)
  <2>1. p.spot \in Int /\ Listed[p.sym] \subseteq Int /\ IsFiniteSet(Listed[p.sym])
    BY FeedAssumption
  <2> QED
    BY <2>1, StrikesAre
<1>2. width \in Int
  OBVIOUS
<1>3. target \in Int
  <2>1. 100 * p.short \in Int /\ 96 * p.spot \in Int /\ 104 * p.spot \in Int
    OBVIOUS
  <2>2. Min({100 * p.short, 96 * p.spot}) \in Int /\ Max({100 * p.short, 104 * p.spot}) \in Int
    BY <2>1, MinOfTwo, MaxOfTwo
  <2> QED
    BY <2>2
<1>4. spread = SpreadAt(strikes, p.spot, p.dir, target, width)
  BY DEF RolledSpread
<1>5. p.spot \in Int
  OBVIOUS
<1> HIDE DEF strikes, target, width
<1> QED
  BY <1>1, <1>2, <1>3, <1>4, <1>5, SpreadAtIs

LEMMA ContractsAre ==
  ASSUME NEW account \in Int, NEW width \in Int, NEW credit \in Int
  PROVE  Contracts(account, width, credit) \in 1..MaxContracts
<1> USE SpreadAssumption
<1>1. CASE width =< credit
  BY <1>1 DEF Contracts
<1>2. CASE ~(width =< credit)
  <2> DEFINE fit == (account * SizePercent) \div (100 * (width - credit))
             few == Min({fit, MaxContracts})
  <2>1. fit \in Int
    <3> DEFINE budget == account * SizePercent
               risk == 100 * (width - credit)
    <3>1. budget \in Int /\ risk \in Nat \ {0}
      BY <1>2
    <3> HIDE DEF budget, risk
    <3>2. budget \div risk \in Int
      BY <3>1
    <3> QED
      BY <3>2 DEF budget, risk
  <2> HIDE DEF fit
  <2>2. few \in Int /\ few <= MaxContracts
    BY <2>1, MinOfTwo
  <2>3. Contracts(account, width, credit) = Max({1, few})
    BY <1>2 DEF Contracts, fit
  <2> HIDE DEF few
  <2>4. Max({1, few}) = IF 1 >= few THEN 1 ELSE few
    BY <2>2, MaxOfTwo
  <2> QED
    BY <2>2, <2>3, <2>4
<1> QED
  BY <1>1, <1>2

-----------------------------------------------------------------------------
(* What a signal says of the rows it was made of *)

Readable(row) == {row.time, row.premium, row.spot} \subseteq Int /\ row.quality \in Qualities

Fresh(row, time) == row.time \in (time - SignalTtl)..time

Backed(T, time, s) ==
  /\ s.sym \in Watchlist /\ s.dir \in Directions /\ s.spot \in Int /\ s.dominant \in Int
  /\ \E row \in T : /\ Sym(row) = s.sym /\ Fresh(row, time)
                    /\ s.dir = "bullish" => Sentiment(row) = "bullish"

\* Some of a list, in its order.
LEMMA SomeKept ==
  ASSUME NEW T, NEW list \in Seq(T), NEW some, some \subseteq DOMAIN list,
         NEW U, \A i \in some : list[i] \in U
  PROVE  /\ Kept(list, some) \in Seq(U)
         /\ \A k \in DOMAIN Kept(list, some) : \E i \in some : Kept(list, some)[k] = list[i]
<1>1. DOMAIN list = 1..Len(list) /\ Len(list) \in Nat
  BY LenProperties
<1>2. IsFiniteSet(some) /\ some \subseteq Int
  <2>1. IsFiniteSet(1..Len(list)) /\ 1..Len(list) \subseteq Int
    BY <1>1, FS_Interval
  <2> QED
    BY <1>1, <2>1, FS_Subset
<1>3. Lists(list, some, Kept(list, some))
  BY <1>2, KeptIs
<1> QED
  BY <1>2, <1>3, ListsMembers

LEMMA AllSorted ==
  ASSUME NEW T, NEW list \in Seq(T), NEW key, \A i \in DOMAIN list : key[i] \in Int
  PROVE  Sorted(list, key) \in Seq(T)
<1>1. DOMAIN list = 1..Len(list) /\ Len(list) \in Nat /\ \A i \in DOMAIN list : list[i] \in T
  BY LenProperties, ElementOfSeq
<1>2. IsFiniteSet(DOMAIN list) /\ DOMAIN list \subseteq Int
  <2>1. IsFiniteSet(1..Len(list)) /\ 1..Len(list) \subseteq Int
    BY <1>1, FS_Interval
  <2> QED
    BY <1>1, <2>1
<1>3. Lists(list, DOMAIN list, Sorted(list, key))
  BY <1>2, SortedIs
<1> QED
  BY <1>1, <1>2, <1>3, ListsMembers

LEMMA EffectiveIs ==
  ASSUME NEW row, Readable(row), row.premium \in Nat, NEW time \in Int
  PROVE  Effective(row, time) \in Nat
<1>1. Weight(row) \in Nat
  BY DEF Readable, Qualities, Weight
<1>2. Max({Fade \div 5, Fade - (time - row.time)}) \in Nat
  <2>1. Fade \div 5 \in Nat
    BY SignalAssumption
  <2>2. Fade - (time - row.time) \in Int
    BY SignalAssumption DEF Readable
  <2> QED
    BY <2>1, <2>2, MaxOfTwo
<1> HIDE DEF Weight
<1>3. \A a, b, c \in Nat : a * b * c \in Nat
  OBVIOUS
<1> QED
  BY <1>1, <1>2, <1>3 DEF Effective

LEMMA SpotType == ASSUME NEW row, Readable(row) PROVE Spot(row) \in Int
<1>1. row.spot \in Int
  BY DEF Readable
<1>2. row.ticker \in DOMAIN Etf => Etf[row.ticker].parts \in Nat \ {0}
  BY SignalAssumption
<1>3. \A a \in Int, b \in Nat \ {0} : a \div b \in Int
  OBVIOUS
<1> QED
  BY <1>1, <1>2, <1>3 DEF Spot

\* The profile of a symbol that has a row in sight.
LEMMA ProfileIs ==
  ASSUME NEW T, NEW time \in Int,
         \A row \in T : Readable(row) /\ Accepted(row) /\ Fresh(row, time),
         NEW rows \in Seq(T), NEW sym, \E i \in DOMAIN rows : Sym(rows[i]) = sym
  PROVE  Backed(T, time, Profile(rows, sym, time))
<1> DEFINE mine == {i \in DOMAIN rows : Sym(rows[i]) = sym}
           bulls == {i \in mine : Sentiment(rows[i]) = "bullish"}
           bears == mine \ bulls
           bull == Flow(rows, bulls, time)
           bear == Flow(rows, bears, time)
           priced == {i \in mine : Spot(rows[i]) > 0}
           s == Profile(rows, sym, time)
<1>1. DOMAIN rows = 1..Len(rows) /\ Len(rows) \in Nat /\ \A i \in DOMAIN rows : rows[i] \in T
  BY LenProperties, ElementOfSeq
<1>2. IsFiniteSet(DOMAIN rows)
  <2>1. IsFiniteSet(1..Len(rows))
    BY <1>1, FS_Interval
  <2> QED
    BY <1>1, <2>1
<1>3. \A some \in SUBSET DOMAIN rows : Flow(rows, some, time) \in Nat
  <2> DEFINE f == [i \in DOMAIN rows |-> Effective(rows[i], time)]
  <2>1. \A i \in DOMAIN rows : f[i] \in Nat
    <3> TAKE i \in DOMAIN rows
    <3>1. rows[i] \in T
      BY <1>1
    <3>2. Readable(rows[i]) /\ rows[i].premium \in Nat
      BY <3>1, SignalAssumption DEF Readable, Accepted
    <3>3. Effective(rows[i], time) \in Nat
      BY <3>2, EffectiveIs
    <3> QED
      BY <3>3
  <2> TAKE some \in SUBSET DOMAIN rows
  <2>2. IsFiniteSet(some)
    BY <1>2, FS_Subset
  <2> HIDE DEF f
  <2>3. SumFunctionOnSet(f, some) \in Nat
    BY <2>1, <2>2, SumIsNatural
  <2> QED
    BY <2>3 DEF Flow, f
<1>4. bull \in Nat /\ bear \in Nat
  BY <1>3
<1>5. s.sym = sym /\ s.dir = (IF bull > bear THEN "bullish" ELSE "bearish") /\ s.dominant = Max({bull, bear})
  BY DEF Profile
<1>6. s.spot = IF priced = {} THEN 0 ELSE Spot(rows[Max(priced)])
  BY DEF Profile
<1>7. s.spot \in Int
  <2>1. CASE priced = {}
    BY <1>6, <2>1
  <2>2. CASE priced # {}
    <3>1. priced \subseteq DOMAIN rows
      OBVIOUS
    <3>2. IsFiniteSet(priced) /\ priced \subseteq Int
      BY <1>1, <1>2, <3>1, FS_Subset
    <3> HIDE DEF priced
    <3>3. Max(priced) \in priced
      BY <2>2, <3>2, Extremes
    <3>4. rows[Max(priced)] \in T
      BY <1>1, <3>1, <3>3
    <3>5. Spot(rows[Max(priced)]) \in Int
      BY <3>4, SpotType
    <3> QED
      BY <1>6, <2>2, <3>5
  <2> QED
    BY <2>1, <2>2
<1>8. PICK i \in mine : TRUE
  OBVIOUS
<1>9. sym \in Watchlist
  BY <1>1, <1>8 DEF Accepted
<1>10. \E row \in T : /\ Sym(row) = sym /\ Fresh(row, time)
                      /\ s.dir = "bullish" => Sentiment(row) = "bullish"
  <2>1. CASE s.dir = "bullish"
    <3>1. bulls # {}
      <4>1. bull > bear
        BY <1>5, <2>1
      <4>2. bulls = {} => bull = 0
        BY SumOfNone DEF Flow
      <4> HIDE DEF bull, bear, bulls
      <4> QED
        BY <1>4, <4>1, <4>2
    <3>2. PICK j \in bulls : TRUE
      BY <3>1
    <3>3. rows[j] \in T /\ Sym(rows[j]) = sym /\ Sentiment(rows[j]) = "bullish"
      BY <1>1, <3>2
    <3> QED
      BY <3>3
  <2>2. CASE s.dir # "bullish"
    <3>1. rows[i] \in T /\ Sym(rows[i]) = sym
      BY <1>1, <1>8
    <3> QED
      BY <2>2, <3>1
  <2> QED
    BY <2>1, <2>2
<1>11. s.dominant \in Int
  <2>1. bull \in Int /\ bear \in Int
    BY <1>4
  <2> HIDE DEF bull, bear, s
  <2>2. Max({bull, bear}) \in Int
    BY <2>1, MaxOfTwo
  <2> QED
    BY <1>5, <2>2
<1>12. s.dir \in Directions
  BY <1>5 DEF Directions
<1> HIDE DEF s
<1>13. Backed(T, time, s)
  BY <1>5, <1>7, <1>9, <1>10, <1>11, <1>12 DEF Backed
<1> QED
  BY <1>13 DEF s

LEMMA CoherentType ==
  ASSUME NEW S, NEW profiles \in Seq(S)
  PROVE  Coherent(profiles) \in Seq(S)
<1>1. \A i \in DOMAIN profiles : profiles[i] \in S
  BY ElementOfSeq
<1>2. \A some \in SUBSET DOMAIN profiles : Kept(profiles, some) \in Seq(S)
  BY <1>1, SomeKept
<1>3. \E some \in SUBSET DOMAIN profiles : Coherent(profiles) \in {profiles, Kept(profiles, some)}
  <2> DEFINE bias == IF BearishBeyond(profiles, 52) THEN "bearish"
                     ELSE IF BullishBeyond(profiles, 52) THEN "bullish" ELSE "neutral"
             some == {i \in DOMAIN profiles : profiles[i].dir = bias \/ Convinced(profiles[i], 95)}
  <2>1. Coherent(profiles) \in {profiles, Kept(profiles, some)}
    BY DEF Coherent
  <2> QED
    BY <2>1
<1> QED
  BY <1>2, <1>3

\* Every signal is about a symbol of the watchlist, and a fresh row leans its way.
LEMMA ActionableIs ==
  ASSUME NEW T, \A row \in T : Readable(row), NEW rows \in Seq(T), NEW time \in Int
  PROVE  \E S : Actionable(rows, time) \in Seq(S) /\ \A s \in S : Backed(T, time, s)
<1> DEFINE U == {row \in T : Accepted(row) /\ Fresh(row, time)}
           sight == InSight(rows, time)
           firsts == Kept(sight, {i \in DOMAIN sight : \A j \in 1..i-1 : Sym(sight[j]) # Sym(sight[i])})
           profiles == Profiles(sight, time)
           S == {s \in {profiles[k] : k \in DOMAIN profiles} : Backed(T, time, s)}
           best == Kept(profiles, {k \in DOMAIN profiles : Qualifies(profiles[k], time)})
           key == [k \in DOMAIN best |-> 0 - best[k].dominant]
           sorted == Sorted(best, key)
           kept == Coherent(sorted)
<1>1. sight \in Seq(U)
  <2> DEFINE some == {i \in DOMAIN rows : Accepted(rows[i]) /\ rows[i].time \in (time - SignalTtl)..time}
  <2>1. \A i \in some : rows[i] \in U
    BY ElementOfSeq DEF Fresh
  <2>2. some \subseteq DOMAIN rows
    OBVIOUS
  <2> HIDE DEF some, U
  <2>3. Kept(rows, some) \in Seq(U)
    BY <2>1, <2>2, SomeKept
  <2> QED
    BY <2>3 DEF InSight, some
<1> HIDE DEF sight
<1>2. \A i \in DOMAIN sight : sight[i] \in U
  BY <1>1, ElementOfSeq
<1>3. firsts \in Seq(U) /\ \A k \in DOMAIN firsts : \E i \in DOMAIN sight : firsts[k] = sight[i]
  <2> DEFINE some == {i \in DOMAIN sight : \A j \in 1..i-1 : Sym(sight[j]) # Sym(sight[i])}
  <2>1. some \subseteq DOMAIN sight
    OBVIOUS
  <2> HIDE DEF some, U
  <2>2. /\ Kept(sight, some) \in Seq(U)
        /\ \A k \in DOMAIN Kept(sight, some) : \E i \in some : Kept(sight, some)[k] = sight[i]
    BY <1>1, <1>2, <2>1, SomeKept
  <2> QED
    BY <2>1, <2>2 DEF some
<1>4. profiles = [k \in DOMAIN firsts |-> Profile(sight, Sym(firsts[k]), time)]
  BY DEF Profiles
<1> HIDE DEF firsts, profiles
<1>5. \A k \in DOMAIN profiles : profiles[k] \in S
  <2> TAKE k \in DOMAIN profiles
  <2>1. k \in DOMAIN firsts /\ profiles[k] = Profile(sight, Sym(firsts[k]), time)
    BY <1>4
  <2>2. \E i \in DOMAIN sight : Sym(sight[i]) = Sym(firsts[k])
    BY <1>3, <2>1
  <2>3. \A row \in U : Readable(row) /\ Accepted(row) /\ Fresh(row, time)
    OBVIOUS
  <2>4. U \subseteq T
    OBVIOUS
  <2> HIDE DEF U
  <2>5. Backed(U, time, profiles[k])
    BY <1>1, <2>1, <2>2, <2>3, ProfileIs
  <2>6. Backed(T, time, profiles[k])
    BY <2>4, <2>5 DEF Backed
  <2> QED
    BY <2>6
<1>6. \A s \in S : Backed(T, time, s)
  OBVIOUS
<1> HIDE DEF S
<1>7. profiles \in Seq(S)
  <2>1. DOMAIN firsts = 1..Len(firsts) /\ Len(firsts) \in Nat
    BY <1>3, LenProperties
  <2>2. profiles \in [1..Len(firsts) -> S]
    BY <1>4, <1>5, <2>1
  <2> QED
    BY <2>1, <2>2, SeqDef
<1>8. best \in Seq(S)
  <2> DEFINE some == {k \in DOMAIN profiles : Qualifies(profiles[k], time)}
  <2>1. some \subseteq DOMAIN profiles /\ \A k \in some : profiles[k] \in S
    BY <1>5
  <2> HIDE DEF some
  <2>2. Kept(profiles, some) \in Seq(S)
    BY <1>7, <2>1, SomeKept
  <2> QED
    BY <2>2 DEF some
<1> HIDE DEF best
<1>9. \A k \in DOMAIN best : key[k] \in Int
  <2> TAKE k \in DOMAIN best
  <2>1. Backed(T, time, best[k])
    BY <1>6, <1>8, ElementOfSeq
  <2>2. best[k].dominant \in Int
    BY <2>1 DEF Backed
  <2> QED
    BY <2>2
<1> HIDE DEF key
<1>10. sorted \in Seq(S)
  BY <1>8, <1>9, AllSorted
<1>11. Actionable(rows, time) = SubSeq(kept, 1, Min({10, Len(kept)}))
  BY DEF Actionable, sight, profiles, best, key
<1> HIDE DEF sorted
<1>12. kept \in Seq(S)
  BY <1>10, CoherentType
<1> HIDE DEF kept
<1>13. SubSeq(kept, 1, Min({10, Len(kept)})) \in Seq(S)
  <2>1. Len(kept) \in Nat /\ \A i \in 1..Len(kept) : kept[i] \in S
    BY <1>12, LenProperties, ElementOfSeq
  <2>2. Min({10, Len(kept)}) \in Nat /\ Min({10, Len(kept)}) <= Len(kept)
    BY <2>1, MinOfTwo
  <2> DEFINE n == Min({10, Len(kept)})
  <2>3. 1 \in Int /\ n \in Int /\ \A i \in 1..n : kept[i] \in S
    <3>1. n \in Nat /\ n <= Len(kept)
      BY <2>2
    <3> HIDE DEF n
    <3> QED
      BY <2>1, <3>1
  <2> HIDE DEF n
  <2>4. SubSeq(kept, 1, n) \in Seq(S)
    BY <2>3, SubSeqProperties
  <2> QED
    BY <2>4 DEF n
<1> QED
  BY <1>6, <1>11, <1>13

-----------------------------------------------------------------------------
(* The inductive invariant *)

\* An open trade of the back-test, and what is remembered of one that is over.
Books ==
  [sym : Watchlist, dir : Directions, day : Int, exp : Int, spot : Int, short : Int, long : Int,
   width : Nat \ {0}, credit : Nat \ {0}, qty : 1..MaxContracts, rolls : 0..RollMax,
   rollCost : Int, was : BOOLEAN, peak : Int \cup {None}, opp : Int \cup {None},
   total : Nat \ {0}, today : Int \cup {None}, exit : Exitings, pnl : Int, cash : Int]

Deals ==
  [rolls : 0..RollMax, two : BOOLEAN, exit : Exitings \cup {"end"}, pnl : Int,
   lifecycle : Int, cash : Int]

Morning == {"exits", "bars", "roll", "stops"}
Trading == {"scan", "signals"}
Phases == Morning \cup Trading \cup {"night", "condor", "slots", "closing", "done"}

Typed ==
  /\ cfg \in Configs /\ pc \in Phases
  /\ day \in Int /\ seen \in 0..MaxDays /\ opp_spread_val \in Int /\ at \in Nat \ {0}
  /\ positions \in Seq(Books) /\ closed_positions \in Seq(Deals)
  /\ balance \in Int /\ total_commissions \in Nat
  /\ vix_bps_blocked \in BOOLEAN /\ now \in Int /\ open_slots \in 0..MaxPositions

\* A day has its flow, a scan the signals of that flow at that time.
Scanned ==
  /\ pc \notin {"night", "closing", "done"} => seen < MaxDays /\ feed \in Feeds
  /\ pc \in Trading => now >= DayStart
  /\ pc = "signals" => now =< DayEnd /\ actionable = ScanSignals[feed][now]

\* Who has been looked at this morning, and what an open trade may be after it.
Looking ==
  /\ pc \in Morning \ {"exits"} => at =< Len(positions)
  /\ \A i \in DOMAIN positions : pc \notin Morning \/ i >= at => IsOpen(positions[i])
  /\ \A i \in DOMAIN positions :
       IsOpen(positions[i]) /\ (pc \in Morning => i < at) =>
         \/ positions[i].exp > day
         \/ MinDte = 0 /\ positions[i].day = day /\ positions[i].exp = day
            /\ pc \notin Morning
  /\ pc = "done" => positions = << >>

\* The slots left and the symbols taken are true to what is held.
Slots ==
  /\ OneTradePerSymbol
  /\ pc \in Trading =>
       /\ Len(positions) + open_slots =< MaxPositions
       /\ \A i \in DOMAIN positions : positions[i].sym \in taken

\* The money a trade that was never rolled has moved so far.
Booked(p) ==
  p.rolls = 0 =>
    /\ p.rollCost = 0
    /\ IsOpen(p) => p.cash = p.qty * p.credit + IF p.opp = None THEN 0 ELSE p.qty * p.opp
    /\ ~IsOpen(p) /\ (p.opp # None => p.exit \in {"take_profit", "expiration"}) => p.pnl = p.cash

Booking == BalanceIsLedger /\ TradesBooked /\ \A i \in DOMAIN positions : Booked(positions[i])

Inv == Typed /\ Scanned /\ Looking /\ Slots /\ NoHolidayHeld /\ Booking

-----------------------------------------------------------------------------
(* What a step may do to a trade *)

LEMMA ScanSignalsAre ==
  ASSUME NEW f \in Feeds, NEW time \in DayStart..DayEnd
  PROVE  \E S : ScanSignals[f][time] \in Seq(S) /\ \A s \in S : Backed(Range(f.rows), time, s)
<1> DEFINE T == Range(f.rows)
           unique == Deduped(f.rows)
           sorted == ByTime(unique)
<1>1. f.rows \in Seq(T) /\ \A i \in DOMAIN f.rows : Readable(f.rows[i])
  BY FeedAssumption DEF Readable
<1>2. \A row \in T : Readable(row)
  BY <1>1 DEF Range
<1> HIDE DEF T
<1>3. unique \in Seq(T)
  <2> DEFINE some == {i \in DOMAIN f.rows : \A j \in 1..i-1 : ~SameAlert(f.rows[j], f.rows[i])}
  <2>1. some \subseteq DOMAIN f.rows /\ \A i \in some : f.rows[i] \in T
    BY <1>1, ElementOfSeq
  <2> HIDE DEF some
  <2>2. Kept(f.rows, some) \in Seq(T)
    BY <1>1, <2>1, SomeKept
  <2> QED
    BY <2>2 DEF Deduped, some
<1> HIDE DEF unique
<1>4. sorted \in Seq(T)
  <2> DEFINE key == [i \in DOMAIN unique |-> unique[i].time]
  <2>1. \A i \in DOMAIN unique : key[i] \in Int
    BY <1>2, <1>3, ElementOfSeq DEF Readable
  <2> HIDE DEF key
  <2>2. Sorted(unique, key) \in Seq(T)
    BY <1>3, <2>1, AllSorted
  <2> QED
    BY <2>2 DEF ByTime, key
<1>5. ScanSignals[f][time] = Actionable(sorted, time)
  BY DEF ScanSignals, unique
<1> HIDE DEF sorted
<1>6. time \in Int
  OBVIOUS
<1>7. \E S : Actionable(sorted, time) \in Seq(S) /\ \A s \in S : Backed(T, time, s)
  BY <1>2, <1>4, <1>6, ActionableIs
<1> QED
  BY <1>5, <1>7 DEF T

LEMMA SlipType == Slips \subseteq Int
<1>1. Slip \in Int
  BY EngineAssumption
<1>2. \A a, b, c, d \in Int : (b - a + d - c) \div 2 \in Int
  OBVIOUS
<1>3. \A quote \in Quotes : Slippage(quote) \in Int
  <2> TAKE quote \in Quotes
  <2>1. CASE quote = None
    BY <1>1, <2>1 DEF Slippage
  <2>2. CASE quote # None
    <3>1. quote.sa \in Int /\ quote.sb \in Int /\ quote.la \in Int /\ quote.lb \in Int
      BY <2>2, EngineAssumption
    <3>2. (quote.sa - quote.sb + quote.la - quote.lb) \div 2 \in Int
      BY <1>2, <3>1
    <3> QED
      BY <1>1, <3>2 DEF Slippage
  <2> QED
    BY <2>1, <2>2
<1> QED
  BY <1>1, <1>3 DEF Slips

LEMMA CommissionType ==
  ASSUME NEW legs \in Nat, NEW quantity \in Nat
  PROVE  Commission(legs, quantity) \in Nat
<1>1. Fee \in Nat
  BY EngineAssumption
<1>2. \A a, b, c \in Nat : a * b * c \in Nat
  OBVIOUS
<1> QED
  BY <1>1, <1>2 DEF Commission

LEMMA ProfitType ==
  ASSUME NEW credit \in Nat \ {0}, NEW price \in Int
  PROVE  Profit(credit, price) \in Int
<1>1. 60 * (credit - price) \in Int
  OBVIOUS
<1>2. \A a \in Int : a \div credit \in Int
  OBVIOUS
<1> QED
  BY <1>1, <1>2 DEF Profit

\* The record of a trade.
LEMMA BookIs ==
  ASSUME NEW p \in Books
  PROVE  /\ p.sym \in Watchlist /\ p.dir \in Directions /\ p.day \in Int /\ p.exp \in Int
         /\ p.spot \in Int /\ p.short \in Int /\ p.long \in Int /\ p.width \in Nat \ {0}
         /\ p.credit \in Nat \ {0} /\ p.qty \in 1..MaxContracts /\ p.rolls \in 0..RollMax
         /\ p.rollCost \in Int /\ p.was \in BOOLEAN /\ p.peak \in Int \cup {None}
         /\ p.opp \in Int \cup {None} /\ p.total \in Nat \ {0} /\ p.today \in Int \cup {None}
         /\ p.exit \in Exitings /\ p.pnl \in Int /\ p.cash \in Int
         /\ p.qty \in Nat \ {0} /\ p.rolls \in Nat
  BY SpreadAssumption, EngineAssumption DEF Books

\* A trade that is looked at for another day.
LEMMA LookedAt ==
  ASSUME NEW p \in Books
  PROVE  LET q == [p EXCEPT !.today = None]
         IN  /\ q \in Books /\ (Booked(p) => Booked(q))
             /\ q.sym = p.sym /\ q.day = p.day /\ q.exp = p.exp /\ q.rolls = p.rolls
             /\ q.rollCost = p.rollCost /\ q.exit = p.exit
<1> DEFINE q == [p EXCEPT !.today = None]
<1>1. q \in Books
  BY DEF Books
<1>2. /\ q.sym = p.sym /\ q.day = p.day /\ q.exp = p.exp /\ q.rolls = p.rolls
      /\ q.rollCost = p.rollCost /\ q.exit = p.exit /\ q.cash = p.cash /\ q.pnl = p.pnl
      /\ q.qty = p.qty /\ q.credit = p.credit /\ q.opp = p.opp
  BY DEF Books
<1> HIDE DEF q
<1>3. Booked(p) => Booked(q)
  BY <1>2 DEF Booked, IsOpen
<1> QED
  BY <1>1, <1>2, <1>3 DEF q

\* What no step but a roll changes.
Same(p, q) ==
  q.sym = p.sym /\ q.day = p.day /\ q.exp = p.exp /\ q.rolls = p.rolls /\ q.rollCost = p.rollCost

LEMMA ProductsType ==
  /\ \A a, b \in Int : a * b \in Int
  /\ \A n, a, b \in Int : n * (a - b) = n * a - n * b
  /\ \A n, a, b \in Int : n * (a + b) = n * a + n * b
  /\ \A n \in Int : n * 0 = 0
<1>1. \A a, b \in Int : a * b \in Int
  OBVIOUS
<1>2. \A n, a, b \in Int : n * (a - b) = n * a - n * b
  OBVIOUS
<1>3. \A n, a, b \in Int : n * (a + b) = n * a + n * b
  OBVIOUS
<1>4. \A n \in Int : n * 0 = 0
  OBVIOUS
<1> QED
  BY <1>1, <1>2, <1>3, <1>4

\* A trade that leaves: what it moved is its profit, if both legs are bought back.
LEMMA ExitIs ==
  ASSUME NEW p \in Books, IsOpen(p), NEW kind \in Exitings \cup {"end"}, kind # "open",
         NEW price \in Int, NEW opposite \in Int \cup {None}, opposite # None => p.opp # None,
         p.opp # None /\ kind \in {"take_profit", "expiration"} => opposite # None
  PROVE  LET q == Exit(p, kind, price, opposite)
         IN  /\ Same(p, q) /\ q.exit = kind /\ q.qty = p.qty /\ q.opp = p.opp
             /\ q.pnl \in Int /\ q.cash \in Int
             /\ kind \in Exitings => q \in Books
             /\ Booked(p) => Booked(q)
<1> DEFINE q == Exit(p, kind, price, opposite)
           n == p.qty
           second == IF opposite = None THEN 0 ELSE n * (p.opp - opposite)
           back == IF opposite = None THEN 0 ELSE opposite
           gain == n * (p.credit - price) + second
           left == p.cash - n * (price + back)
<1>1. n \in Int /\ p.credit \in Int /\ p.cash \in Int /\ (p.opp # None => p.opp \in Int)
  BY BookIs
<1>2. q = [p EXCEPT !.exit = kind, !.pnl = gain, !.cash = left]
  BY DEF Exit
<1>3. second \in Int /\ back \in Int
  <2>1. CASE opposite = None
    BY <2>1
  <2>2. CASE opposite # None
    <3>1. p.opp - opposite \in Int /\ opposite \in Int
      BY <1>1, <2>2
    <3> HIDE DEF n
    <3> QED
      BY <1>1, <3>1, ProductsType
  <2> QED
    BY <2>1, <2>2
<1> HIDE DEF n, second, back
<1>4. gain \in Int /\ left \in Int
  <2>1. p.credit - price \in Int /\ price + back \in Int
    BY <1>1, <1>3
  <2>2. n * (p.credit - price) \in Int /\ n * (price + back) \in Int
    BY <1>1, <2>1, ProductsType
  <2> QED
    BY <1>1, <1>3, <2>2
<1>5. kind \in Exitings => q \in Books
  <2> HIDE DEF gain, left, q
  <2> QED
    BY <1>2, <1>4 DEF Books
<1>6. /\ Same(p, q) /\ q.qty = p.qty /\ q.opp = p.opp /\ q.credit = p.credit
      /\ q.exit = kind /\ q.pnl = gain /\ q.cash = left
  <2> HIDE DEF gain, left, q
  <2> QED
    BY <1>2 DEF Books, Same
<1>7. ASSUME Booked(p) PROVE Booked(q)
  <2>1. SUFFICES ASSUME p.rolls = 0, p.opp # None => kind \in {"take_profit", "expiration"}
                 PROVE  gain = left
    <3> HIDE DEF gain, left, q
    <3> QED
      BY <1>6, <1>7 DEF Booked, IsOpen, Same
  <2>2. p.cash = n * p.credit + IF p.opp = None THEN 0 ELSE n * p.opp
    BY <1>7, <2>1 DEF Booked, n
  <2>3. n * (p.credit - price) = n * p.credit - n * price
    BY <1>1, ProductsType
  <2>4. n * (price + back) = n * price + n * back
    BY <1>1, <1>3, ProductsType
  <2>5. n * p.credit \in Int /\ n * price \in Int /\ n * back \in Int
    BY <1>1, <1>3, ProductsType
  <2>6. CASE p.opp = None
    <3>1. second = 0 /\ back = 0
      BY <2>6 DEF second, back
    <3>2. n * back = 0
      BY <1>1, <3>1, ProductsType
    <3> QED
      BY <2>2, <2>3, <2>4, <2>5, <2>6, <3>1, <3>2
  <2>7. CASE p.opp # None
    <3>1. opposite # None /\ opposite \in Int /\ p.opp \in Int
      BY <1>1, <2>1, <2>7
    <3>2. second = n * (p.opp - opposite) /\ back = opposite
      BY <3>1 DEF second, back
    <3>3. n * (p.opp - opposite) = n * p.opp - n * opposite /\ n * p.opp \in Int
      BY <1>1, <3>1, ProductsType
    <3> QED
      BY <2>2, <2>3, <2>4, <2>5, <2>7, <3>2, <3>3
  <2> QED
    BY <2>6, <2>7
<1> HIDE DEF q, gain, left
<1>8. kind \in Exitings => q \in Books
  BY <1>5
<1> QED
  BY <1>4, <1>6, <1>7, <1>8 DEF q

\* A trade that is held through a bar.
LEMMA HeldIs ==
  ASSUME NEW p \in Books, IsOpen(p), NEW was \in BOOLEAN, NEW spread \in Int,
         NEW peak \in Int \cup {None}
  PROVE  LET held == [p EXCEPT !.was = was, !.today = spread]
             peaked == [held EXCEPT !.peak = peak]
         IN  /\ held \in Books /\ peaked \in Books
             /\ Same(p, held) /\ Same(p, peaked) /\ IsOpen(held) /\ IsOpen(peaked)
             /\ held.opp = p.opp /\ peaked.opp = p.opp
             /\ Booked(p) => Booked(held) /\ Booked(peaked)
<1> DEFINE held == [p EXCEPT !.was = was, !.today = spread]
           peaked == [held EXCEPT !.peak = peak]
<1>1. held \in Books
  BY DEF Books
<1>2. /\ Same(p, held) /\ held.exit = p.exit /\ held.opp = p.opp /\ held.qty = p.qty
      /\ held.credit = p.credit /\ held.cash = p.cash /\ held.pnl = p.pnl
  BY DEF Books, Same
<1> HIDE DEF held
<1>3. peaked \in Books
  BY <1>1 DEF Books
<1>4. /\ Same(held, peaked) /\ peaked.exit = held.exit /\ peaked.opp = held.opp
      /\ peaked.qty = held.qty /\ peaked.credit = held.credit /\ peaked.cash = held.cash
      /\ peaked.pnl = held.pnl
  BY <1>1 DEF Books, Same
<1> HIDE DEF peaked
<1>5. Booked(p) => Booked(held) /\ Booked(peaked)
  BY <1>2, <1>4 DEF Booked, IsOpen, Same
<1>6. Same(p, peaked)
  BY <1>2, <1>4 DEF Same
<1> QED
  BY <1>1, <1>2, <1>3, <1>4, <1>5, <1>6 DEF held, peaked, IsOpen

LEMMA AfterBarIs ==
  ASSUME NEW p \in Books, IsOpen(p), NEW spread \in Int, NEW opposite \in Int, NEW slip \in Int
  PROVE  LET q == AfterBar(p, spread, opposite, slip)
         IN  /\ q \in Books /\ Same(p, q) /\ (Booked(p) => Booked(q))
<1> DEFINE profit == Profit(CreditOf(p), Combined(p, spread, opposite))
           peak == Peak(p, profit, spread)
           was == p.was \/ profit > 0
           held == [p EXCEPT !.was = was, !.today = spread]
           peaked == [held EXCEPT !.peak = peak]
           q == AfterBar(p, spread, opposite, slip)
<1>1. profit \in Int
  <2>1. CreditOf(p) \in Nat \ {0}
    BY BookIs DEF CreditOf
  <2>2. Combined(p, spread, opposite) \in Int
    BY DEF Combined
  <2> QED
    BY <2>1, <2>2, ProfitType
<1> HIDE DEF profit
<1>2. peak \in Int \cup {None}
  <2>1. CASE p.peak # None
    <3>1. p.peak \in Int
      BY <2>1, BookIs
    <3>2. Max({p.peak, profit}) \in Int
      BY <1>1, <3>1, MaxOfTwo
    <3> QED
      BY <2>1, <3>2 DEF Peak
  <2>2. CASE p.peak = None
    BY <1>1, <2>2 DEF Peak
  <2> QED
    BY <2>1, <2>2
<1> HIDE DEF peak
<1>3. was \in BOOLEAN
  OBVIOUS
<1>4. held = [p EXCEPT !.was = @ \/ profit > 0, !.today = spread]
  OBVIOUS
<1> DEFINE second == IF p.opp = None THEN None ELSE opposite + Slip
<1>5. \/ q = Exit(held, "recapture", spread + slip, None)
      \/ q = Exit(peaked, "trail", spread + slip, None)
      \/ q = Exit(held, "take_profit", spread + slip, second)
      \/ q = peaked
  BY DEF AfterBar, profit, peak
<1> HIDE DEF was
<1>6. /\ held \in Books /\ peaked \in Books /\ Same(p, held) /\ Same(p, peaked)
      /\ IsOpen(held) /\ IsOpen(peaked) /\ held.opp = p.opp
      /\ Booked(p) => Booked(held) /\ Booked(peaked)
  <2> HIDE DEF peaked, held
  <2> QED
    BY <1>2, <1>3, HeldIs DEF held, peaked
<1>7. spread + slip \in Int /\ second \in Int \cup {None} /\ (second # None => p.opp # None)
      /\ (p.opp # None => second # None)
  <2>1. opposite + Slip \in Int
    BY EngineAssumption
  <2>2. opposite + Slip # None
    BY <2>1, NotANumber
  <2> QED
    BY <2>1, <2>2
<1>8. {"recapture", "trail", "take_profit"} \subseteq Exitings
  BY DEF Exitings
<1> HIDE DEF held, peaked, second, q
<1>9. ASSUME NEW h \in {held, peaked}, NEW kind \in {"recapture", "trail"},
             q = Exit(h, kind, spread + slip, None)
      PROVE  q \in Books /\ Same(h, q) /\ (Booked(h) => Booked(q))
  <2>1. h \in Books /\ IsOpen(h) /\ kind \in Exitings /\ kind # "open" /\ kind \notin {"take_profit", "expiration"}
    BY <1>6, <1>8
  <2> QED
    BY <1>7, <1>9, <2>1, ExitIs
<1>10. ASSUME q = Exit(held, "take_profit", spread + slip, second)
       PROVE  q \in Books /\ Same(held, q) /\ (Booked(held) => Booked(q))
  <2>1. "take_profit" \in Exitings /\ "take_profit" # "open"
    BY <1>8
  <2> QED
    BY <1>6, <1>7, <1>10, <2>1, ExitIs
<1>11. \A h \in {held, peaked} : Same(h, q) => Same(p, q)
  BY <1>6 DEF Same
<1>12. q \in Books /\ Same(p, q) /\ (Booked(p) => Booked(q))
  BY <1>5, <1>6, <1>9, <1>10, <1>11
<1> QED
  BY <1>12 DEF q

\* A trade that is rolled.
LEMMA RolledIs ==
  ASSUME NEW p \in Books, IsOpen(p), p.rolls < RollMax, RollExpiration \in Int,
         NEW spread, spread.short \in Int, spread.long \in Int, spread.width \in Nat \ {0},
         NEW cost \in Int, NEW credit \in Nat \ {0}, NEW today \in Int \cup {None}
  PROVE  LET q == Rolled(p, spread, cost, credit, today)
         IN  /\ q \in Books /\ IsOpen(q) /\ Booked(q)
             /\ q.sym = p.sym /\ q.day = p.day /\ q.exp = RollExpiration
             /\ q.rolls = p.rolls + 1 /\ q.rollCost - p.rollCost \in Int
<1> DEFINE net == p.qty * (credit - cost)
           q == Rolled(p, spread, cost, credit, today)
           short == spread.short
           long == spread.long
           width == spread.width
           rolls == p.rolls + 1
           rollCost == p.rollCost + net
           cash == p.cash + net
<1>1. net \in Int /\ p.rollCost \in Int /\ p.cash \in Int /\ p.rolls \in Nat
  <2>1. p.qty \in Int /\ credit - cost \in Int /\ p.rollCost \in Int /\ p.cash \in Int /\ p.rolls \in Nat
    BY BookIs
  <2> QED
    BY <2>1, ProductsType
<1>2. rolls \in 0..RollMax /\ rolls > 0
  BY <1>1, EngineAssumption
<1>3. q = [p EXCEPT !.exp = RollExpiration, !.short = short, !.long = long, !.width = width,
                    !.credit = credit, !.rolls = rolls, !.rollCost = rollCost, !.cash = cash,
                    !.today = today]
  BY DEF Rolled
<1> HIDE DEF net
<1>4. rollCost \in Int /\ cash \in Int /\ rollCost - p.rollCost \in Int
  BY <1>1
<1>5. short \in Int /\ long \in Int /\ width \in Nat \ {0}
  OBVIOUS
<1> HIDE DEF q, short, long, width, rolls, rollCost, cash, RollExpiration
<1>6. q \in Books
  BY <1>2, <1>3, <1>4, <1>5 DEF Books
<1>7. /\ q.sym = p.sym /\ q.day = p.day /\ q.exp = RollExpiration /\ q.exit = p.exit
      /\ q.rolls = rolls /\ q.rollCost = rollCost
  BY <1>3 DEF Books
<1>8. Booked(q) /\ IsOpen(q)
  BY <1>2, <1>7 DEF Booked, IsOpen
<1>9. q.rolls = p.rolls + 1 /\ q.rollCost - p.rollCost \in Int
  BY <1>4, <1>7 DEF rolls
<1> QED
  BY <1>6, <1>7, <1>8, <1>9 DEF q

\* A trade that becomes an iron condor.
LEMMA LegAdded ==
  ASSUME NEW p \in Books, IsOpen(p), p.opp = None, NEW credit \in Nat \ {0}
  PROVE  LET q == [p EXCEPT !.opp = credit, !.total = p.credit + credit, !.cash = @ + p.qty * credit]
         IN  q \in Books /\ IsOpen(q) /\ Same(p, q) /\ (Booked(p) => Booked(q))
<1> DEFINE total == p.credit + credit
           more == p.qty * credit
           cash == p.cash + more
           q == [p EXCEPT !.opp = credit, !.total = total, !.cash = cash]
<1>1. p.credit \in Nat \ {0} /\ p.qty \in Int /\ p.cash \in Int
  BY BookIs
<1>2. total \in Nat \ {0} /\ more \in Int /\ p.qty * p.credit \in Int
  BY <1>1, ProductsType
<1>3. cash \in Int /\ credit \in Int /\ credit # None
  BY <1>1, <1>2, NotANumber
<1> HIDE DEF total, cash
<1>4. q \in Books
  BY <1>2, <1>3 DEF Books
<1>5. /\ Same(p, q) /\ q.exit = p.exit /\ q.opp = credit /\ q.qty = p.qty
      /\ q.credit = p.credit /\ q.cash = cash
  BY DEF Books, Same
<1> HIDE DEF q
<1>6. ASSUME Booked(p), p.rolls = 0 PROVE Booked(q)
  <2>1. p.cash = p.qty * p.credit + 0 /\ p.rollCost = 0
    BY <1>6 DEF Booked
  <2>2. cash = p.qty * p.credit + more
    BY <1>2, <2>1 DEF cash
  <2>3. q.cash = q.qty * q.credit + q.qty * q.opp
    BY <1>5, <2>2
  <2> QED
    BY <1>3, <1>5, <2>1, <2>3 DEF Booked, IsOpen, Same
<1>7. Booked(p) => Booked(q)
  BY <1>5, <1>6 DEF Booked, Same
<1> QED
  BY <1>4, <1>5, <1>7 DEF q, total, cash, IsOpen

\* A trade that is opened.
LEMMA OpenedIs ==
  ASSUME NEW s, s.sym \in Watchlist, s.spot \in Int, s.dir \in Directions,
         day \in Int, balance \in Int, EntryExpiration \in Int,
         NEW spread, spread.short \in Int, spread.long \in Int, spread.width \in Nat \ {0},
         NEW credit \in Nat \ {0}
  PROVE  LET p == Opened(s, spread, credit)
         IN  /\ p \in Books /\ IsOpen(p) /\ Booked(p) /\ p.sym = s.sym /\ p.rollCost = 0
             /\ p.day = day /\ p.exp = EntryExpiration /\ p.dir = DirectionOf(s)
<1> DEFINE qty == Contracts(balance, spread.width, credit)
           p == Opened(s, spread, credit)
           short == spread.short
           long == spread.long
           width == spread.width
           dir == DirectionOf(s)
           cash == qty * credit
           exp == EntryExpiration
           sym == s.sym
           spot == s.spot
<1>1. qty \in 1..MaxContracts
  <2>1. spread.width \in Int /\ credit \in Int
    OBVIOUS
  <2> QED
    BY <2>1, ContractsAre
<1> HIDE DEF qty
<1>2. cash \in Int /\ qty \in Int
  <2>1. qty \in Int
    BY <1>1, SpreadAssumption
  <2> QED
    BY <2>1, ProductsType
<1>3. dir \in Directions
  BY DEF DirectionOf, Directions
<1>4. 0 \in 0..RollMax
  BY EngineAssumption
<1>5. p = [sym |-> sym, dir |-> dir, day |-> day, exp |-> exp,
           spot |-> spot, short |-> short, long |-> long, width |-> width,
           credit |-> credit, qty |-> qty, rolls |-> 0, rollCost |-> 0, was |-> FALSE,
           peak |-> None, opp |-> None, total |-> credit, today |-> None, exit |-> "open",
           pnl |-> 0, cash |-> cash]
  BY DEF Opened, qty
<1>6. short \in Int /\ long \in Int /\ width \in Nat \ {0} /\ sym \in Watchlist /\ spot \in Int /\ exp \in Int
  OBVIOUS
<1> HIDE DEF p, short, long, width, dir, cash, exp, sym, spot
<1>7. p \in Books
  BY <1>1, <1>2, <1>3, <1>4, <1>5, <1>6 DEF Books, Exitings
<1>8. /\ p.sym = sym /\ p.day = day /\ p.exp = exp /\ p.dir = dir /\ p.exit = "open"
      /\ p.rollCost = 0 /\ p.opp = None /\ p.cash = cash /\ p.qty = qty /\ p.credit = credit
  BY <1>5
<1>9. Booked(p)
  <2>1. cash = p.qty * p.credit + 0
    BY <1>2, <1>8 DEF cash
  <2> QED
    BY <1>8, <2>1 DEF Booked, IsOpen
<1> QED
  BY <1>7, <1>8, <1>9 DEF p, dir, exp, sym, IsOpen

-----------------------------------------------------------------------------
(* The steps that touch the trade being looked at *)

Touches(q) ==
  /\ at \in DOMAIN positions /\ q \in Books
  /\ positions' = [positions EXCEPT ![at] = q]
  /\ UNCHANGED closed_positions
  /\ q.sym = Here.sym /\ q.day = Here.day
  /\ q.rollCost - Here.rollCost \in Int
  /\ \E fee \in Nat : Pay(q.rollCost - Here.rollCost, fee)
  /\ Booked(Here) => Booked(q)

LEMMA HereIs ==
  ASSUME Typed, Looking, at =< Len(positions)
  PROVE  at \in DOMAIN positions /\ Here \in Books /\ IsOpen(Here)
<1>1. positions \in Seq(Books) /\ at \in Nat \ {0}
  BY DEF Typed
<1>2. DOMAIN positions = 1..Len(positions) /\ Len(positions) \in Nat
  BY <1>1, LenProperties
<1>3. at \in DOMAIN positions
  BY <1>1, <1>2
<1>4. positions[at] \in Books
  BY <1>1, <1>3, ElementOfSeq
<1>5. IsOpen(positions[at])
  BY <1>1, <1>3 DEF Looking
<1> QED
  BY <1>3, <1>4, <1>5 DEF Here

LEMMA Unpaid ==
  ASSUME Typed, UNCHANGED money
  PROVE  Pay(0, 0)
  BY DEF Typed, Pay, money

\* A trade that keeps its rolls is paid nothing but the commission.
LEMMA SameTouched ==
  ASSUME at \in DOMAIN positions, NEW q \in Books, Same(Here, q), Booked(Here) => Booked(q),
         Here \in Books, Update(q), UNCHANGED closed_positions, NEW fee \in Nat, Pay(0, fee)
  PROVE  Touches(q) /\ q.exp = Here.exp /\ q.rolls = Here.rolls
<1>1. q.rollCost - Here.rollCost = 0
  <2>1. Here.rollCost \in Int /\ q.rollCost = Here.rollCost
    BY BookIs DEF Same
  <2> QED
    BY <2>1
<1>2. positions' = [positions EXCEPT ![at] = q]
  BY DEF Update
<1>3. \E x \in Nat : Pay(q.rollCost - Here.rollCost, x)
  BY <1>1
<1>4. q.rollCost - Here.rollCost \in Int
  BY <1>1
<1> QED
  BY <1>2, <1>3, <1>4, Zenon DEF Touches, Same

LEMMA LookAtTouches ==
  ASSUME Typed, Looking, LookAt
  PROVE  /\ pc = "exits" /\ pc' = "bars" /\ at' = at
         /\ \E q : Touches(q) /\ q.exp = Here.exp /\ q.rolls = Here.rolls /\ IsOpen(q)
<1> DEFINE q == [Here EXCEPT !.today = None]
<1>1. pc = "exits" /\ pc' = "bars" /\ at' = at /\ at <= Len(positions)
  BY DEF LookAt
<1>2. at \in DOMAIN positions /\ Here \in Books /\ IsOpen(Here)
  BY <1>1, HereIs
<1>3. Update(q) /\ UNCHANGED closed_positions /\ UNCHANGED money
  BY DEF LookAt
<1>4. /\ q \in Books /\ (Booked(Here) => Booked(q)) /\ q.sym = Here.sym /\ q.day = Here.day
      /\ q.exp = Here.exp /\ q.rolls = Here.rolls /\ q.rollCost = Here.rollCost /\ q.exit = Here.exit
  BY <1>2, LookedAt
<1>5. Same(Here, q) /\ IsOpen(q)
  BY <1>2, <1>4 DEF Same, IsOpen
<1>6. Pay(0, 0)
  BY <1>3, Unpaid
<1> HIDE DEF q
<1>7. Touches(q) /\ q.exp = Here.exp /\ q.rolls = Here.rolls
  BY <1>2, <1>3, <1>4, <1>5, <1>6, SameTouched
<1> QED
  BY <1>1, <1>5, <1>7

LEMMA BarTouches ==
  ASSUME Typed, Looking, Bar
  PROVE  /\ pc = "bars" /\ opp_spread_val' \in Int
         /\ \E q : /\ Touches(q) /\ q.exp = Here.exp /\ q.rolls = Here.rolls
                   /\ IF IsOpen(q) THEN pc' = pc /\ at' = at ELSE pc' = "exits" /\ at' = at + 1
<1>1. pc = "bars" /\ pc \in Morning \ {"exits"}
  BY DEF Bar, Morning
<1>2. at \in DOMAIN positions /\ Here \in Books /\ IsOpen(Here)
  BY <1>1, HereIs DEF Looking
<1>3. PICK spread \in Prices, slip \in Slips,
           opposite \in IF Here.opp = None THEN {0} ELSE Prices \cup {opp_spread_val} :
         LET after == AfterBar(Here, spread, opposite, slip)
         IN  /\ Update(after)
             /\ IF after.exit = "open"
                THEN /\ opp_spread_val' = opposite /\ bars' = bars + 1
                     /\ UNCHANGED <<pc, at, money>>
                ELSE /\ Pay(0, Commission(LegsOut(after, after.exit), after.qty))
                     /\ opp_spread_val' = 0 /\ bars' = 0
                     /\ at' = at + 1 /\ pc' = "exits"
  BY DEF Bar
<1>4. spread \in Int /\ slip \in Int /\ opposite \in Int
  BY EngineAssumption, SlipType DEF Typed
<1> DEFINE q == AfterBar(Here, spread, opposite, slip)
<1>5. q \in Books /\ Same(Here, q) /\ (Booked(Here) => Booked(q))
  BY <1>2, <1>4, AfterBarIs
<1>6. Update(q) /\ UNCHANGED closed_positions
  BY <1>3 DEF Bar
<1>7. IF q.exit = "open"
      THEN opp_spread_val' = opposite /\ UNCHANGED <<pc, at, money>>
      ELSE /\ Pay(0, Commission(LegsOut(q, q.exit), q.qty))
           /\ opp_spread_val' = 0 /\ at' = at + 1 /\ pc' = "exits"
  BY <1>3
<1> HIDE DEF q
<1>8. \E fee \in Nat : Pay(0, fee)
  <2>1. CASE q.exit = "open"
    <3>1. UNCHANGED money
      BY <1>7, <2>1
    <3> QED
      BY <3>1, Unpaid
  <2>2. CASE q.exit # "open"
    <3>1. LegsOut(q, q.exit) \in Nat /\ q.qty \in Nat
      BY <1>5, BookIs DEF LegsOut
    <3>2. Commission(LegsOut(q, q.exit), q.qty) \in Nat
      BY <3>1, CommissionType
    <3> QED
      BY <1>7, <2>2, <3>2
  <2> QED
    BY <2>1, <2>2
<1>9. Touches(q) /\ q.exp = Here.exp /\ q.rolls = Here.rolls
  BY <1>2, <1>5, <1>6, <1>8, SameTouched
<1>10. IF IsOpen(q) THEN pc' = pc /\ at' = at ELSE pc' = "exits" /\ at' = at + 1
  BY <1>7 DEF IsOpen
<1>11. opp_spread_val' \in Int
  BY <1>4, <1>7
<1> QED
  BY <1>1, <1>9, <1>10, <1>11

LEMMA RollTouches ==
  ASSUME Typed, Looking, Roll
  PROVE  /\ pc = "roll" /\ pc' = "exits" /\ at' = at + 1
         /\ RollWanted(Here) /\ RollExpiration # None
         /\ RollExpiration \in Int /\ RollExpiration - day >= RollMinDte
         /\ \E q : Touches(q) /\ q.exp = RollExpiration /\ q.rolls = Here.rolls + 1 /\ IsOpen(q)
<1>1. pc = "roll" /\ pc' = "exits" /\ at' = at + 1 /\ pc \in Morning \ {"exits"}
  BY DEF Roll, Morning
<1>2. at \in DOMAIN positions /\ Here \in Books /\ IsOpen(Here)
  BY <1>1, HereIs DEF Looking
<1>3. RollWanted(Here) /\ RollExpiration # None /\ UNCHANGED closed_positions
  BY DEF Roll
<1>4. RollExpiration \in Int /\ RollExpiration - day >= RollMinDte
  <2>1. RollExpiration = WeeklyExpiration(day, RollMinDte, RollMaxDte)
    BY <1>3 DEF RollExpiration
  <2>2. day \in Int /\ RollMinDte \in Nat /\ RollMaxDte \in Nat
    BY SpreadAssumption DEF Typed
  <2> HIDE DEF RollExpiration
  <2> QED
    BY <1>3, <2>1, <2>2, WeeklyExpirationIs
<1>5. PICK raw \in Raws, out \in Slips, in \in Slips, priced \in BOOLEAN :
         LET spread == RolledSpread(Listed[Here.sym], Here)
             credit == raw - in
             after == Rolled(Here, spread, Here.today + out, credit,
                             IF priced THEN raw ELSE None)
         IN  /\ spread # None /\ credit > 0
             /\ Update(after)
             /\ Pay(after.rollCost - Here.rollCost, Commission(4, Here.qty))
  BY DEF Roll
<1> DEFINE spread == RolledSpread(Listed[Here.sym], Here)
           credit == raw - in
           cost == Here.today + out
           today == IF priced THEN raw ELSE None
           q == Rolled(Here, spread, cost, credit, today)
<1>6. /\ spread # None /\ credit > 0 /\ Update(q)
      /\ Pay(q.rollCost - Here.rollCost, Commission(4, Here.qty))
  BY <1>5
<1>7. raw \in Int /\ out \in Int /\ in \in Int
  BY EngineAssumption, SlipType
<1>8. Here.today \in Int /\ Here.rolls < RollMax
  BY <1>2, <1>3, BookIs DEF RollWanted
<1>9. cost \in Int /\ credit \in Nat \ {0} /\ today \in Int \cup {None}
  BY <1>6, <1>7, <1>8
<1>10. spread.short \in Int /\ spread.long \in Int /\ spread.width \in Nat \ {0}
  <2>1. /\ Here.sym \in Watchlist /\ Here.dir \in Directions
        /\ {Here.spot, Here.short, Here.width} \subseteq Int
    BY <1>2, BookIs
  <2> HIDE DEF Here
  <2> QED
    BY <1>6, <2>1, RolledSpreadIs
<1> HIDE DEF spread, credit, cost, today
<1>11. /\ q \in Books /\ IsOpen(q) /\ Booked(q)
       /\ q.sym = Here.sym /\ q.day = Here.day /\ q.exp = RollExpiration
       /\ q.rolls = Here.rolls + 1 /\ q.rollCost - Here.rollCost \in Int
  BY <1>2, <1>4, <1>8, <1>9, <1>10, RolledIs
<1>12. Commission(4, Here.qty) \in Nat
  <2>1. Here.qty \in Nat
    BY <1>2, BookIs
  <2> QED
    BY <2>1, CommissionType
<1> HIDE DEF q
<1>13. positions' = [positions EXCEPT ![at] = q]
  BY <1>6 DEF Update
<1>14. \E fee \in Nat : Pay(q.rollCost - Here.rollCost, fee)
  BY <1>6, <1>12
<1>15. Touches(q)
  BY <1>2, <1>3, <1>11, <1>13, <1>14, Zenon DEF Touches
<1> QED
  BY <1>1, <1>3, <1>4, <1>11, <1>15

LEMMA LastCloseType ==
  ASSUME NEW p \in Books
  PROVE  LastClose(p) \subseteq Int
<1>1. p.today # None => p.today \in Int
  BY BookIs
<1> QED
  BY <1>1, EngineAssumption DEF LastClose

LEMMA FloorType == ASSUME NEW price \in Int PROVE Max({0, price}) \in Int
  BY MaxOfTwo

\* A trade that leaves for one of the reasons that are looked at after its bars.
LEMMA LeaveTouches ==
  ASSUME Typed, Looking, pc = "stops", NEW kind \in {"stop", "stale", "expiration"},
         NEW price \in Int, NEW opposite \in Int \cup {None}, opposite # None => Here.opp # None,
         Here.opp # None /\ kind = "expiration" => opposite # None,
         Leave(kind, price, opposite), UNCHANGED closed_positions
  PROVE  \E q : Touches(q) /\ q.exp = Here.exp /\ q.rolls = Here.rolls /\ ~IsOpen(q)
<1> DEFINE q == Exit(Here, kind, price, opposite)
<1>1. at \in DOMAIN positions /\ Here \in Books /\ IsOpen(Here)
  BY HereIs DEF Looking, Morning
<1>2. kind \in Exitings /\ kind # "open" /\ (kind \in {"take_profit", "expiration"} => kind = "expiration")
  BY DEF Exitings
<1>3. /\ Same(Here, q) /\ q.exit = kind /\ q \in Books /\ (Booked(Here) => Booked(q))
  BY <1>1, <1>2, ExitIs
<1>4. Commission(LegsOut(Here, kind), Here.qty) \in Nat
  <2>1. LegsOut(Here, kind) \in Nat /\ Here.qty \in Nat
    BY <1>1, BookIs DEF LegsOut
  <2> QED
    BY <2>1, CommissionType
<1>5. Update(q) /\ Pay(0, Commission(LegsOut(Here, kind), Here.qty))
  BY DEF Leave
<1> HIDE DEF q
<1>6. Touches(q) /\ q.exp = Here.exp /\ q.rolls = Here.rolls
  BY <1>1, <1>3, <1>4, <1>5, SameTouched
<1>7. ~IsOpen(q)
  BY <1>2, <1>3 DEF IsOpen
<1> QED
  BY <1>6, <1>7

LEMMA StopsTouch ==
  ASSUME Typed, Looking, StopOut \/ StaleExit \/ Expire
  PROVE  /\ pc = "stops" /\ pc' = "exits" /\ at' = at + 1
         /\ \E q : Touches(q) /\ q.exp = Here.exp /\ q.rolls = Here.rolls /\ ~IsOpen(q)
<1>1. pc = "stops" /\ pc' = "exits" /\ at' = at + 1 /\ UNCHANGED closed_positions
  BY DEF StopOut, StaleExit, Expire
<1>2. at \in DOMAIN positions /\ Here \in Books /\ IsOpen(Here)
  BY <1>1, HereIs DEF Looking, Morning
<1>3. LastClose(Here) \subseteq Int
  BY <1>2, LastCloseType
<1>4. CASE StopOut
  <2>1. PICK slip \in Slips : Leave("stop", Here.today + slip, None)
    BY <1>4 DEF StopOut
  <2>2. Here.today + slip \in Int
    <3>1. Here.today \in Int
      BY <1>2, <1>4, BookIs DEF StopOut, StopHit
    <3>2. slip \in Int
      BY SlipType
    <3> QED
      BY <3>1, <3>2
  <2> QED
    BY <1>1, <2>1, <2>2, LeaveTouches
<1>5. CASE StaleExit
  <2>1. PICK slip \in Slips, price \in LastClose(Here) :
           Leave("stale", Max({0, price}) + slip, None)
    BY <1>5 DEF StaleExit
  <2>2. Max({0, price}) + slip \in Int
    BY <1>3, FloorType, SlipType
  <2> QED
    BY <1>1, <2>1, <2>2, LeaveTouches
<1>6. CASE Expire
  <2>1. PICK slip \in Slips, price \in LastClose(Here), second \in Prices :
           Leave("expiration", Max({0, price}) + slip,
                 IF Here.opp = None THEN None ELSE Max({0, second}) + Slip)
    BY <1>6 DEF Expire
  <2>2. Max({0, price}) + slip \in Int
    BY <1>3, FloorType, SlipType
  <2>3. Max({0, second}) + Slip \in Int
    <3>1. second \in Int /\ Slip \in Int
      BY EngineAssumption
    <3> QED
      BY <3>1, FloorType
  <2> DEFINE opposite == IF Here.opp = None THEN None ELSE Max({0, second}) + Slip
             out == Max({0, price}) + slip
  <2>4. /\ opposite \in Int \cup {None} /\ (opposite # None => Here.opp # None)
        /\ (Here.opp # None => opposite # None)
    BY <2>3, NotANumber
  <2>5. Leave("expiration", out, opposite) /\ out \in Int
    BY <2>1, <2>2
  <2> HIDE DEF opposite, out
  <2> QED
    BY <1>1, <2>4, <2>5, LeaveTouches
<1> QED
  BY <1>1, <1>4, <1>5, <1>6

LEMMA AddLegTouches ==
  ASSUME Typed, Looking, AddLeg
  PROVE  /\ pc = "condor" /\ pc' = pc /\ at' = at + 1
         /\ \E q : Touches(q) /\ q.exp = Here.exp /\ q.rolls = Here.rolls /\ IsOpen(q)
<1>1. /\ pc = "condor" /\ pc' = pc /\ at' = at + 1 /\ at <= Len(positions)
      /\ Here.opp = None /\ UNCHANGED closed_positions
  BY DEF AddLeg
<1>2. at \in DOMAIN positions /\ Here \in Books /\ IsOpen(Here)
  BY <1>1, HereIs
<1>3. PICK raw \in Raws, slip \in Slips :
         LET credit == raw - slip
         IN  /\ credit > 0
             /\ Update([Here EXCEPT !.opp = credit, !.total = Here.credit + credit,
                                  !.cash = @ + Here.qty * credit])
             /\ Pay(0, Commission(2, Here.qty))
  BY DEF AddLeg
<1> DEFINE credit == raw - slip
           q == [Here EXCEPT !.opp = credit, !.total = Here.credit + credit,
                             !.cash = @ + Here.qty * credit]
<1>4. credit \in Nat \ {0}
  <2>1. raw \in Int /\ slip \in Int
    BY EngineAssumption, SlipType
  <2> QED
    BY <1>3, <2>1
<1>5. Update(q) /\ Pay(0, Commission(2, Here.qty))
  BY <1>3
<1> HIDE DEF credit
<1>6. q \in Books /\ IsOpen(q) /\ Same(Here, q) /\ (Booked(Here) => Booked(q))
  BY <1>1, <1>2, <1>4, LegAdded
<1>7. Commission(2, Here.qty) \in Nat
  <2>1. Here.qty \in Nat
    BY <1>2, BookIs
  <2> QED
    BY <2>1, CommissionType
<1> HIDE DEF q
<1>8. Touches(q) /\ q.exp = Here.exp /\ q.rolls = Here.rolls
  BY <1>1, <1>2, <1>5, <1>6, <1>7, SameTouched
<1> QED
  BY <1>1, <1>6, <1>8

-----------------------------------------------------------------------------
(* The steps that open trades and take them off the list *)

LEMMA SignalIs ==
  ASSUME Scanned, Typed, pc = "signals", at =< Len(actionable)
  PROVE  feed \in Feeds /\ now \in Int /\ Backed(Range(feed.rows), now, Signal)
<1>1. feed \in Feeds /\ now \in DayStart..DayEnd /\ actionable = ScanSignals[feed][now]
  BY EngineAssumption DEF Scanned, Typed, Trading
<1>2. PICK S : ScanSignals[feed][now] \in Seq(S) /\ \A s \in S : Backed(Range(feed.rows), now, s)
  BY <1>1, ScanSignalsAre
<1>3. actionable \in Seq(S) /\ at \in 1..Len(actionable)
  <2>1. actionable \in Seq(S)
    BY <1>1, <1>2
  <2>2. Len(actionable) \in Nat
    BY <2>1, LenProperties
  <2> QED
    BY <2>1, <2>2 DEF Typed
<1>4. actionable[at] \in S
  BY <1>3, ElementOfSeq
<1> QED
  BY <1>1, <1>2, <1>4 DEF Signal

LEMMA OpenAdds ==
  ASSUME Typed, Scanned, Open
  PROVE  /\ pc = "signals" /\ pc' = pc /\ at' = at + 1 /\ open_slots > 0
         /\ open_slots' = open_slots - 1 /\ taken' = taken \cup {Signal.sym}
         /\ UNCHANGED closed_positions
         /\ EntryExpiration \in Int /\ EntryExpiration # None /\ EntryExpiration - day >= MinDte
         /\ \E p : /\ p \in Books /\ positions' = Append(positions, p)
                   /\ IsOpen(p) /\ Booked(p) /\ p.rollCost = 0
                   /\ p.day = day /\ p.exp = EntryExpiration
                   /\ p.sym = Signal.sym /\ p.sym \notin taken /\ p.dir = DirectionOf(Signal)
                   /\ \E fee \in Nat : Pay(0, fee)
<1>1. /\ pc = "signals" /\ pc' = pc /\ at' = at + 1 /\ open_slots > 0 /\ at =< Len(actionable)
      /\ open_slots' = open_slots - 1 /\ taken' = taken \cup {Signal.sym}
      /\ UNCHANGED closed_positions /\ EntryExpiration # None
      /\ Signal.sym \notin taken
  BY DEF Open, Wanted
<1>2. EntryExpiration \in Int /\ EntryExpiration - day >= MinDte
  <2>1. EntryExpiration = WeeklyExpiration(day, MinDte, MaxDte)
    BY <1>1 DEF EntryExpiration
  <2>2. day \in Int /\ MinDte \in Nat /\ MaxDte \in Nat
    BY SpreadAssumption DEF Typed
  <2> HIDE DEF EntryExpiration
  <2> QED
    BY <1>1, <2>1, <2>2, WeeklyExpirationIs
<1>3. Signal.sym \in Watchlist /\ Signal.dir \in Directions /\ Signal.spot \in Int
  BY <1>1, SignalIs DEF Backed
<1>4. PICK raw \in Raws, slip \in Slips :
        LET spread == EntrySpread(Listed[Signal.sym], Signal.spot, DirectionOf(Signal))
            credit == raw - slip
        IN  /\ spread # None /\ raw > 0 /\ WorthSelling(credit, spread.width)
            /\ LET p == Opened(Signal, spread, credit)
               IN  positions' = Append(positions, p) /\ Pay(0, Commission(2, p.qty))
  BY DEF Open
<1> DEFINE spread == EntrySpread(Listed[Signal.sym], Signal.spot, DirectionOf(Signal))
           credit == raw - slip
           p == Opened(Signal, spread, credit)
<1>5. /\ spread # None /\ WorthSelling(credit, spread.width)
      /\ positions' = Append(positions, p) /\ Pay(0, Commission(2, p.qty))
  BY <1>4
<1>6. credit \in Nat \ {0}
  <2>1. raw \in Int /\ slip \in Int
    BY EngineAssumption, SlipType
  <2>2. credit > 0
    BY <1>5 DEF WorthSelling
  <2> QED
    BY <2>1, <2>2
<1>7. spread.short \in Int /\ spread.long \in Int /\ spread.width \in Nat \ {0}
  <2>1. DirectionOf(Signal) \in Directions
    BY <1>3 DEF DirectionOf, Directions
  <2> HIDE DEF Signal
  <2> QED
    BY <1>3, <1>5, <2>1, EntrySpreadIs
<1> HIDE DEF spread, credit
<1>8. /\ p \in Books /\ IsOpen(p) /\ Booked(p) /\ p.sym = Signal.sym /\ p.rollCost = 0
      /\ p.day = day /\ p.exp = EntryExpiration /\ p.dir = DirectionOf(Signal)
  <2>1. day \in Int /\ balance \in Int
    BY DEF Typed
  <2> QED
    BY <1>2, <1>3, <1>6, <1>7, <2>1, OpenedIs
<1> HIDE DEF p
<1>9. Commission(2, p.qty) \in Nat
  <2>1. p.qty \in Nat
    BY <1>8, BookIs
  <2> QED
    BY <2>1, CommissionType
<1>10. \E fee \in Nat : Pay(0, fee)
  BY <1>5, <1>9
<1> QED
  BY <1>1, <1>2, <1>5, <1>8, <1>10

\* What remains of a list, with the place each trade had.
Remain(list, result) ==
  \E from : \A k \in DOMAIN result :
    /\ from[k] \in DOMAIN list /\ result[k] = list[from[k]]
    /\ \A m \in DOMAIN result : from[m] = from[k] => m = k

\* The money of a trade that is over, as far as it can be told.
Settled(t) ==
  t.rolls = 0 /\ (t.two => t.exit \in {"take_profit", "expiration"}) => t.lifecycle = t.cash

LEMMA TradeIs ==
  ASSUME NEW p, p.rolls \in 0..RollMax, p.exit \in Exitings \cup {"end"}, ~IsOpen(p),
         p.pnl \in Int, p.rollCost \in Int, p.cash \in Int
  PROVE  /\ Trade(p) \in Deals /\ Trade(p).pnl = p.pnl /\ Trade(p).lifecycle = p.pnl + p.rollCost
         /\ Booked(p) => Settled(Trade(p))
<1> DEFINE t == Trade(p)
<1>1. t = [rolls |-> p.rolls, two |-> p.opp # None, exit |-> p.exit,
           pnl |-> p.pnl, lifecycle |-> p.pnl + p.rollCost, cash |-> p.cash]
  BY DEF Trade
<1>2. t \in Deals
  BY <1>1 DEF Deals
<1>3. /\ t.rolls = p.rolls /\ t.two = (p.opp # None) /\ t.exit = p.exit /\ t.pnl = p.pnl
      /\ t.lifecycle = p.pnl + p.rollCost /\ t.cash = p.cash
  BY <1>1
<1> HIDE DEF t
<1>4. ASSUME Booked(p), t.rolls = 0, t.two => t.exit \in {"take_profit", "expiration"}
      PROVE  t.lifecycle = t.cash
  <2>1. p.opp # None => p.exit \in {"take_profit", "expiration"}
    BY <1>3, <1>4
  <2>2. p.rollCost = 0 /\ p.pnl = p.cash
    BY <1>3, <1>4, <2>1 DEF Booked
  <2> QED
    BY <1>3, <2>2
<1>5. Booked(p) => Settled(t)
  BY <1>4 DEF Settled
<1> QED
  BY <1>2, <1>3, <1>5 DEF t

LEMMA KeptRemain ==
  ASSUME NEW list, NEW some, some \subseteq DOMAIN list, IsFiniteSet(some), some \subseteq Int
  PROVE  Remain(list, Kept(list, some))
<1>1. Lists(list, some, Kept(list, some))
  BY KeptIs
<1> DEFINE places == 1..Cardinality(some)
           result == Kept(list, some)
<1>2. PICK nth \in Bijection(places, some) : result = [k \in places |-> list[nth[k]]]
  BY <1>1 DEF Lists
<1> HIDE DEF places, result
<1>3. nth \in [places -> some] /\ \A k, m \in places : nth[k] = nth[m] => k = m
  BY Fun_BijectionProperties
<1>4. DOMAIN result = places
  BY <1>2
<1>5. \A k \in DOMAIN result :
        /\ nth[k] \in DOMAIN list /\ result[k] = list[nth[k]]
        /\ \A m \in DOMAIN result : nth[m] = nth[k] => m = k
  BY <1>2, <1>3, <1>4
<1> QED
  BY <1>5 DEF Remain, result

LEMMA TailRemains ==
  ASSUME NEW T, NEW list \in Seq(T), list # << >>
  PROVE  /\ Remain(list, Tail(list)) /\ Tail(list) \in Seq(T)
         /\ Len(list) \in Nat \ {0} /\ Len(Tail(list)) = Len(list) - 1
         /\ \A k \in 1..(Len(list) - 1) : Tail(list)[k] = list[1 + k]
<1>1. /\ Tail(list) \in Seq(T) /\ Len(Tail(list)) = Len(list) - 1
      /\ \A i \in 1..Len(Tail(list)) : Tail(list)[i] = list[i + 1]
  BY HeadTailProperties
<1>2. Len(list) \in Nat \ {0} /\ DOMAIN list = 1..Len(list)
  BY LenProperties, EmptySeq
<1>3. DOMAIN Tail(list) = 1..(Len(list) - 1)
  BY <1>1, LenProperties
<1> DEFINE from == [k \in 1..(Len(list) - 1) |-> k + 1]
           result == Tail(list)
           n == Len(list)
<1> HIDE DEF result, n
<1>4. \A k \in DOMAIN result :
        /\ from[k] \in DOMAIN list /\ result[k] = list[from[k]]
        /\ \A m \in DOMAIN result : from[m] = from[k] => m = k
  BY <1>1, <1>2, <1>3 DEF result, n
<1>5. Remain(list, result)
  BY <1>4 DEF Remain
<1>6. \A k \in 1..(Len(list) - 1) : Tail(list)[k] = list[1 + k]
  BY <1>1, <1>2
<1> QED
  BY <1>1, <1>2, <1>5, <1>6 DEF result

-----------------------------------------------------------------------------
(* The ledger *)

Costs(list) == SumFunction([i \in DOMAIN list |-> list[i].rollCost])
Lives(list) == SumFunction([i \in DOMAIN list |-> list[i].lifecycle])

LEMMA LedgerType ==
  /\ \A list \in Seq(Books) : Costs(list) \in Int
  /\ \A list \in Seq(Deals) : Lives(list) \in Int
<1>1. ASSUME NEW list \in Seq(Books) PROVE Costs(list) \in Int
  <2> DEFINE f == [i \in DOMAIN list |-> list[i].rollCost]
  <2>1. DOMAIN list = 1..Len(list) /\ Len(list) \in Nat /\ \A i \in DOMAIN list : list[i] \in Books
    BY LenProperties, ElementOfSeq
  <2>2. IsFiniteSet(1..Len(list))
    BY <2>1, FS_Interval
  <2>3. DOMAIN f = DOMAIN list /\ \A i \in DOMAIN f : f[i] \in Int
    BY <2>1, BookIs
  <2>4. IsFiniteSet(DOMAIN f)
    BY <2>1, <2>2, <2>3
  <2> HIDE DEF f
  <2>5. SumFunction(f) \in Int
    BY <2>3, <2>4, TotalType
  <2> QED
    BY <2>5 DEF Costs, f
<1>2. ASSUME NEW list \in Seq(Deals) PROVE Lives(list) \in Int
  <2> DEFINE f == [i \in DOMAIN list |-> list[i].lifecycle]
  <2>1. DOMAIN list = 1..Len(list) /\ Len(list) \in Nat /\ \A i \in DOMAIN list : list[i] \in Deals
    BY LenProperties, ElementOfSeq
  <2>2. IsFiniteSet(1..Len(list))
    BY <2>1, FS_Interval
  <2>3. DOMAIN f = DOMAIN list /\ \A i \in DOMAIN f : f[i] \in Int
    BY <2>1 DEF Deals
  <2>4. IsFiniteSet(DOMAIN f)
    BY <2>1, <2>2, <2>3
  <2> HIDE DEF f
  <2>5. SumFunction(f) \in Int
    BY <2>3, <2>4, TotalType
  <2> QED
    BY <2>5 DEF Lives, f
<1> QED
  BY <1>1, <1>2

\* One trade changes its costs.
LEMMA CostsChange ==
  ASSUME NEW list \in Seq(Books), NEW k \in DOMAIN list, NEW q \in Books,
         NEW result, result = [list EXCEPT ![k] = q]
  PROVE  Costs(result) = Costs(list) + (q.rollCost - list[k].rollCost)
<1> DEFINE S == DOMAIN list
           f == [i \in S |-> list[i].rollCost]
           g == [i \in S |-> result[i].rollCost]
<1>1. S = 1..Len(list) /\ Len(list) \in Nat /\ \A i \in S : list[i] \in Books
  BY LenProperties, ElementOfSeq
<1>2. IsFiniteSet(S)
  <2>1. IsFiniteSet(1..Len(list))
    BY <1>1, FS_Interval
  <2> QED
    BY <1>1, <2>1
<1>3. DOMAIN result = S
  OBVIOUS
<1> HIDE DEF S
<1>4. \A i \in S : f[i] \in Int
  BY <1>1, BookIs
<1>5. g[k] = q.rollCost /\ f[k] = list[k].rollCost /\ g[k] \in Int
  BY <1>1, BookIs DEF S
<1>6. \A i \in S \ {k} : g[i] = f[i]
  BY DEF S
<1>7. Costs(list) = SumFunctionOnSet(f, S)
  BY DEF Costs, SumFunction, S
<1>8. Costs(result) = SumFunctionOnSet(g, S)
  BY <1>3 DEF Costs, SumFunction
<1>9. k \in S
  BY DEF S
<1> HIDE DEF f, g
<1>10. SumFunctionOnSet(g, S) = SumFunctionOnSet(f, S) + (g[k] - f[k])
  BY <1>2, <1>4, <1>5, <1>6, <1>9, SumChanged
<1> QED
  BY <1>5, <1>7, <1>8, <1>10

\* What is written under what was written.
LEMMA LivesJoin ==
  ASSUME NEW list \in Seq(Deals), NEW more \in Seq(Deals)
  PROVE  Lives(list \o more) = Lives(list) + Lives(more)
<1> DEFINE both == list \o more
           m == Len(list)
           n == Len(more)
           f == [i \in DOMAIN list |-> list[i].lifecycle]
           g == [i \in DOMAIN more |-> more[i].lifecycle]
           h == [i \in DOMAIN both |-> both[i].lifecycle]
<1>1. /\ DOMAIN list = 1..m /\ m \in Nat /\ DOMAIN more = 1..n /\ n \in Nat
      /\ \A i \in DOMAIN list : list[i] \in Deals
      /\ \A i \in DOMAIN more : more[i] \in Deals
  BY LenProperties, ElementOfSeq
<1>2. /\ both \in Seq(Deals) /\ Len(both) = m + n
      /\ \A i \in 1..(m + n) : both[i] = IF i <= m THEN list[i] ELSE more[i - m]
  BY ConcatProperties
<1>3. DOMAIN both = 1..(m + n)
  BY <1>2, LenProperties
<1> HIDE DEF both, m, n
<1>4. \A i \in 1..m : f[i] \in Int /\ h[i] = f[i]
  <2> TAKE i \in 1..m
  <2>1. i \in DOMAIN list /\ i \in DOMAIN both /\ both[i] = list[i]
    BY <1>1, <1>2, <1>3
  <2> QED
    BY <1>1, <2>1 DEF Deals
<1>5. \A i \in 1..n : g[i] \in Int /\ h[m + i] = g[i]
  <2> TAKE i \in 1..n
  <2>1. i \in DOMAIN more /\ m + i \in DOMAIN both /\ ~(m + i <= m) /\ (m + i) - m = i
    BY <1>1, <1>3
  <2>2. both[m + i] = more[i]
    BY <1>2, <1>3, <2>1
  <2> QED
    BY <1>1, <2>1, <2>2 DEF Deals
<1>6. SumFunctionOnSet(h, 1..(m + n)) = SumFunctionOnSet(f, 1..m) + SumFunctionOnSet(g, 1..n)
  <2>1. m \in Nat /\ n \in Nat
    BY <1>1
  <2>2. Joins(h, f, m, g, n)
    BY <1>4, <1>5 DEF Joins
  <2> HIDE DEF f, g, h
  <2> QED
    BY <2>1, <2>2, SumOfJoined
<1> QED
  BY <1>1, <1>3, <1>6 DEF Lives, SumFunction, both

LEMMA LivesAppend ==
  ASSUME NEW list \in Seq(Deals), NEW t \in Deals
  PROVE  Append(list, t) \in Seq(Deals) /\ Lives(Append(list, t)) = Lives(list) + t.lifecycle
<1> DEFINE f == [i \in DOMAIN << t >> |-> << t >>[i].lifecycle]
<1>1. << t >> \in Seq(Deals) /\ list \o << t >> = Append(list, t) /\ Append(list, t) \in Seq(Deals)
  BY AppendIsConcat, AppendProperties
<1>2. DOMAIN f = {1} /\ f[1] = t.lifecycle /\ f[1] \in Int
  BY DEF Deals
<1> HIDE DEF f
<1>3. SumFunction(f) = f[1]
  BY <1>2, TotalOfOne
<1>4. Lives(<< t >>) = t.lifecycle
  BY <1>2, <1>3 DEF Lives, f
<1> QED
  BY <1>1, <1>4, LivesJoin

LEMMA CostsAppend ==
  ASSUME NEW list \in Seq(Books), NEW p \in Books
  PROVE  Costs(Append(list, p)) = Costs(list) + p.rollCost
<1> DEFINE more == Append(list, p)
           m == Len(list)
           f == [i \in DOMAIN list |-> list[i].rollCost]
           g == [i \in DOMAIN more |-> more[i].rollCost]
<1>1. /\ DOMAIN list = 1..m /\ m \in Nat /\ \A i \in DOMAIN list : list[i] \in Books
  BY LenProperties, ElementOfSeq
<1>2. /\ more \in Seq(Books) /\ Len(more) = m + 1 /\ more[m + 1] = p
      /\ \A i \in 1..m : more[i] = list[i]
  BY AppendProperties
<1>3. DOMAIN more = 1..(m + 1)
  BY <1>2, LenProperties
<1> HIDE DEF more, m
<1>4. IsFiniteSet(1..m) /\ m + 1 \notin 1..m /\ 1..(m + 1) = (1..m) \cup {m + 1}
  <2>1. m + 1 \notin 1..m /\ 1..(m + 1) = (1..m) \cup {m + 1}
    BY <1>1
  <2>2. IsFiniteSet(1..m)
    BY <1>1, FS_Interval
  <2> QED
    BY <2>1, <2>2
<1>5. IsFiniteSet(DOMAIN f) /\ m + 1 \notin DOMAIN f
  BY <1>1, <1>4
<1>6. DOMAIN g = DOMAIN f \cup {m + 1}
  BY <1>1, <1>3, <1>4
<1>7. \A i \in DOMAIN f : f[i] = g[i] /\ g[i] \in Int
  BY <1>1, <1>2, <1>3, <1>4, BookIs
<1>8. g[m + 1] = p.rollCost /\ g[m + 1] \in Int
  BY <1>1, <1>2, <1>3, BookIs
<1> HIDE DEF f, g
<1>9. SumFunction(g) = g[m + 1] + SumFunction(f)
  BY <1>5, <1>6, <1>7, <1>8, TotalWithOne
<1>10. SumFunction(f) \in Int
  BY <1>5, <1>7, TotalType
<1>11. SumFunction(f) = Costs(list) /\ SumFunction(g) = Costs(more)
  BY DEF Costs, f, g
<1> QED
  BY <1>8, <1>9, <1>10, <1>11 DEF more

LEMMA CostsTail ==
  ASSUME NEW list \in Seq(Books), list # << >>
  PROVE  Costs(Tail(list)) = Costs(list) - list[1].rollCost
<1> DEFINE rest == Tail(list)
           n == Len(list) - 1
           f == [i \in 1..1 |-> list[1].rollCost]
           g == [i \in DOMAIN rest |-> rest[i].rollCost]
           h == [i \in DOMAIN list |-> list[i].rollCost]
<1>1. /\ rest \in Seq(Books) /\ n \in Nat /\ Len(rest) = n
      /\ \A k \in 1..n : rest[k] = list[1 + k]
  BY TailRemains
<1>2. DOMAIN rest = 1..n /\ \A i \in DOMAIN rest : rest[i] \in Books
  BY <1>1, LenProperties, ElementOfSeq
<1>3. DOMAIN list = 1..(1 + n) /\ \A i \in DOMAIN list : list[i] \in Books
  BY <1>1, LenProperties, ElementOfSeq
<1> HIDE DEF rest, n
<1>4. \A i \in 1..1 : f[i] \in Int /\ h[i] = f[i]
  BY <1>1, <1>3, BookIs
<1>5. \A i \in 1..n : g[i] \in Int /\ h[1 + i] = g[i]
  <2> TAKE i \in 1..n
  <2>1. i \in DOMAIN rest /\ 1 + i \in DOMAIN list /\ rest[i] = list[1 + i]
    BY <1>1, <1>2, <1>3
  <2>2. rest[i] \in Books
    BY <1>2, <2>1
  <2> QED
    BY <2>1, <2>2, BookIs
<1>6. f[1] = list[1].rollCost
  OBVIOUS
<1> HIDE DEF f, g, h
<1>7. SumFunctionOnSet(h, 1..(1 + n)) = SumFunctionOnSet(f, 1..1) + SumFunctionOnSet(g, 1..n)
  <2>1. 1 \in Nat /\ n \in Nat
    BY <1>1
  <2> DEFINE one == 1
  <2>2. Joins(h, f, one, g, n) /\ one \in Nat
    BY <1>4, <1>5 DEF Joins
  <2> HIDE DEF one
  <2>3. SumFunctionOnSet(h, 1..(one + n)) = SumFunctionOnSet(f, 1..one) + SumFunctionOnSet(g, 1..n)
    BY <2>1, <2>2, SumOfJoined
  <2> QED
    BY <2>3 DEF one
<1>8. SumFunctionOnSet(f, 1..1) = f[1]
  <2>1. 1..1 = {1} /\ f[1] \in Int
    BY <1>4
  <2> QED
    BY <2>1, SumOfOne
<1>9. /\ Costs(list) = SumFunctionOnSet(h, 1..(1 + n))
      /\ Costs(rest) = SumFunctionOnSet(g, 1..n)
  BY <1>2, <1>3 DEF Costs, SumFunction, g, h
<1>10. Costs(rest) \in Int /\ f[1] \in Int
  BY <1>1, <1>4, LedgerType
<1> QED
  BY <1>6, <1>7, <1>8, <1>9, <1>10 DEF rest

\* The costs of the trades that are kept and of those that are not.
LEMMA CostsSplit ==
  ASSUME NEW list \in Seq(Books), NEW some, some \subseteq DOMAIN list
  PROVE  LET gone == DOMAIN list \ some
             cost == [i \in DOMAIN list |-> list[i].rollCost]
             gain == [i \in DOMAIN list |-> list[i].pnl]
             out == Trades(Kept(list, gone))
         IN  (\A i \in gone : Trade(list[i]) \in Deals
                              /\ Trade(list[i]).pnl = list[i].pnl
                              /\ Trade(list[i]).lifecycle = list[i].pnl + list[i].rollCost) =>
             /\ Costs(list) = Costs(Kept(list, some)) + SumFunctionOnSet(cost, gone)
             /\ PnlOf(out) = SumFunctionOnSet(gain, gone) /\ PnlOf(out) \in Int
             /\ Lives(out) = SumFunctionOnSet(gain, gone) + SumFunctionOnSet(cost, gone)
<1> DEFINE gone == DOMAIN list \ some
           cost == [i \in DOMAIN list |-> list[i].rollCost]
           gain == [i \in DOMAIN list |-> list[i].pnl]
           life == [i \in DOMAIN list |-> list[i].pnl + list[i].rollCost]
           kept == Kept(list, some)
           left == Kept(list, gone)
           out == Trades(left)
<1> SUFFICES ASSUME \A i \in gone : /\ Trade(list[i]) \in Deals
                                    /\ Trade(list[i]).pnl = list[i].pnl
                                    /\ Trade(list[i]).lifecycle = list[i].pnl + list[i].rollCost
             PROVE  /\ Costs(list) = Costs(kept) + SumFunctionOnSet(cost, gone)
                    /\ PnlOf(out) = SumFunctionOnSet(gain, gone) /\ PnlOf(out) \in Int
                    /\ Lives(out) = SumFunctionOnSet(gain, gone) + SumFunctionOnSet(cost, gone)
  OBVIOUS
<1>1. DOMAIN list = 1..Len(list) /\ Len(list) \in Nat /\ \A i \in DOMAIN list : list[i] \in Books
  BY LenProperties, ElementOfSeq
<1>2. IsFiniteSet(DOMAIN list) /\ DOMAIN list \subseteq Int
  <2>1. IsFiniteSet(1..Len(list)) /\ 1..Len(list) \subseteq Int
    BY <1>1, FS_Interval
  <2> QED
    BY <1>1, <2>1
<1>3. IsFiniteSet(some) /\ some \subseteq Int /\ IsFiniteSet(gone) /\ gone \subseteq Int
  BY <1>2, FS_Subset
<1>4. Lists(list, some, kept) /\ Lists(list, gone, left)
  BY <1>3, KeptIs
<1>5. \A i \in DOMAIN list :
        cost[i] \in Int /\ gain[i] \in Int /\ life[i] = gain[i] + cost[i] /\ life[i] \in Int
  BY <1>1, BookIs
<1>6. some \cap gone = {} /\ some \cup gone = DOMAIN list
  OBVIOUS
<1>7. DOMAIN out = DOMAIN left /\ \A k \in DOMAIN left : out[k] = Trade(left[k])
  BY DEF Trades
<1> DEFINE costs == [k \in DOMAIN kept |-> kept[k].rollCost]
           lives == [k \in DOMAIN out |-> out[k].lifecycle]
           gains == [k \in DOMAIN out |-> out[k].pnl]
<1>8. \A k \in DOMAIN kept : \A i \in some : kept[k] = list[i] => costs[k] = cost[i]
  OBVIOUS
<1>9. \A k \in DOMAIN left : \A i \in gone : left[k] = list[i] => lives[k] = life[i] /\ gains[k] = gain[i]
  BY <1>7
<1> HIDE DEF kept, left, out, cost, gain, life, costs, lives, gains
<1>10. SumFunctionOnSet(costs, DOMAIN kept) = SumFunctionOnSet(cost, some)
  <2>1. Reads(costs, kept, cost, list, some)
    BY <1>5, <1>8 DEF Reads
  <2> QED
    BY <1>3, <1>4, <2>1, SumOfListed
<1> HIDE DEF gone
<1>11. SumFunctionOnSet(lives, DOMAIN left) = SumFunctionOnSet(life, gone)
  <2>1. Reads(lives, left, life, list, gone)
    BY <1>5, <1>6, <1>9 DEF Reads
  <2> QED
    BY <1>3, <1>4, <2>1, SumOfListed
<1>12. SumFunctionOnSet(gains, DOMAIN left) = SumFunctionOnSet(gain, gone)
  <2>1. Reads(gains, left, gain, list, gone)
    BY <1>5, <1>6, <1>9 DEF Reads
  <2> QED
    BY <1>3, <1>4, <2>1, SumOfListed
<1>13. SumFunctionOnSet(cost, some \cup gone)
         = SumFunctionOnSet(cost, some) + SumFunctionOnSet(cost, gone)
  BY <1>3, <1>5, <1>6, SumOfUnion
<1>14. SumFunctionOnSet(life, gone)
         = SumFunctionOnSet(gain, gone) + SumFunctionOnSet(cost, gone)
  <2>1. \A i \in gone : gain[i] \in Int /\ cost[i] \in Int /\ life[i] = gain[i] + cost[i]
    BY <1>5, <1>6
  <2> QED
    BY <1>3, <2>1, SumOfBoth
<1>15. SumFunctionOnSet(gain, gone) \in Int
  <2>1. \A i \in gone : gain[i] \in Int
    BY <1>5, <1>6
  <2> QED
    BY <1>3, <2>1, SumType
<1>16. /\ Costs(kept) = SumFunctionOnSet(costs, DOMAIN kept)
       /\ Costs(list) = SumFunctionOnSet(cost, DOMAIN list)
  BY DEF Costs, SumFunction, costs, cost
<1>17. /\ Lives(out) = SumFunctionOnSet(lives, DOMAIN left)
       /\ PnlOf(out) = SumFunctionOnSet(gains, DOMAIN left)
  BY <1>7 DEF Lives, PnlOf, SumFunction, lives, gains
<1> QED
  BY <1>6, <1>10, <1>11, <1>12, <1>13, <1>14, <1>15, <1>16, <1>17

AllSettled(list) == \A i \in DOMAIN list : Settled(list[i])
AllBooked(list) == \A i \in DOMAIN list : Booked(list[i])

LEMMA LedgerIs ==
  /\ RollCosts = Costs(positions) /\ Lifecycles = Lives(closed_positions)
  /\ TradesBooked <=> AllSettled(closed_positions)
<1>1. RollCosts = Costs(positions) /\ Lifecycles = Lives(closed_positions)
  BY DEF RollCosts, Lifecycles, Costs, Lives
<1>2. TradesBooked <=> AllSettled(closed_positions)
  BY DEF TradesBooked, AllSettled, Settled
<1> QED
  BY <1>1, <1>2

LEMMA SettledJoin ==
  ASSUME NEW list \in Seq(Deals), NEW more \in Seq(Deals), AllSettled(list), AllSettled(more)
  PROVE  list \o more \in Seq(Deals) /\ AllSettled(list \o more)
<1> DEFINE both == list \o more
           m == Len(list)
           n == Len(more)
<1>1. DOMAIN list = 1..m /\ m \in Nat /\ DOMAIN more = 1..n /\ n \in Nat
  BY LenProperties
<1>2. /\ both \in Seq(Deals) /\ Len(both) = m + n
      /\ \A i \in 1..(m + n) : both[i] = IF i <= m THEN list[i] ELSE more[i - m]
  BY ConcatProperties
<1>3. DOMAIN both = 1..(m + n)
  BY <1>2, LenProperties
<1> HIDE DEF both, m, n
<1>4. ASSUME NEW i \in DOMAIN both PROVE Settled(both[i])
  <2>1. CASE i <= m
    <3>1. i \in DOMAIN list /\ both[i] = list[i]
      BY <1>1, <1>2, <1>3, <2>1
    <3> QED
      BY <3>1 DEF AllSettled
  <2>2. CASE ~(i <= m)
    <3>1. i - m \in DOMAIN more /\ both[i] = more[i - m]
      BY <1>1, <1>2, <1>3, <2>2
    <3> QED
      BY <3>1 DEF AllSettled
  <2> QED
    BY <2>1, <2>2
<1>5. both \in Seq(Deals) /\ AllSettled(both)
  BY <1>2, <1>4 DEF AllSettled
<1> QED
  BY <1>5 DEF both

\* The exits of a day are booked, and the trades that remain are the open ones.
LEMMA BookExitsIs ==
  ASSUME Typed, AllBooked(positions), AllSettled(closed_positions), BookExits
  PROVE  /\ positions' \in Seq(Books) /\ Remain(positions, positions')
         /\ Len(positions') <= Len(positions)
         /\ \A k \in DOMAIN positions' : IsOpen(positions'[k])
         /\ closed_positions' \in Seq(Deals) /\ AllSettled(closed_positions')
         /\ balance' \in Int /\ total_commissions' = total_commissions
         /\ balance' - Lives(closed_positions') - Costs(positions')
              = balance - Lives(closed_positions) - Costs(positions)
<1> DEFINE some == StillOpen
           gone == DOMAIN positions \ some
           left == Kept(positions, gone)
           out == Trades(left)
           kept == Kept(positions, some)
           cost == [i \in DOMAIN positions |-> positions[i].rollCost]
           gain == [i \in DOMAIN positions |-> positions[i].pnl]
<1>1. /\ closed_positions' = closed_positions \o out
      /\ Pay(PnlOf(out), 0) /\ positions' = kept
  BY DEF BookExits
<1>2. /\ positions \in Seq(Books) /\ closed_positions \in Seq(Deals) /\ balance \in Int
      /\ total_commissions \in Nat
  BY DEF Typed
<1>3. DOMAIN positions = 1..Len(positions) /\ Len(positions) \in Nat /\ \A i \in DOMAIN positions : positions[i] \in Books
  BY <1>2, LenProperties, ElementOfSeq
<1>4. /\ IsFiniteSet(DOMAIN positions) /\ DOMAIN positions \subseteq Int
      /\ Cardinality(DOMAIN positions) = Len(positions)
  <2>1. IsFiniteSet(1..Len(positions)) /\ 1..Len(positions) \subseteq Int
    BY <1>3, FS_Interval
  <2>2. Cardinality(1..Len(positions)) = Len(positions)
    <3> DEFINE n == Len(positions)
    <3>1. n \in Nat /\ 1 \in Int /\ n \in Int
      BY <1>3
    <3> HIDE DEF n
    <3>2. Cardinality(1..n) = IF 1 > n THEN 0 ELSE n - 1 + 1
      BY <3>1, FS_Interval
    <3>3. Cardinality(1..n) = n
      BY <3>1, <3>2
    <3> QED
      BY <3>3 DEF n
  <2> QED
    BY <1>3, <2>1, <2>2
<1>5. some \subseteq DOMAIN positions /\ gone \subseteq DOMAIN positions
  BY DEF StillOpen
<1>6. \A i \in some : IsOpen(positions[i])
  BY DEF StillOpen
<1>7. \A i \in gone : ~IsOpen(positions[i])
  BY DEF StillOpen
<1> HIDE DEF some
<1>8. IsFiniteSet(some) /\ some \subseteq Int /\ Cardinality(some) <= Len(positions)
  BY <1>4, <1>5, FS_Subset
<1>9. \A i \in gone : /\ Trade(positions[i]) \in Deals
                      /\ Trade(positions[i]).pnl = positions[i].pnl
                      /\ Trade(positions[i]).lifecycle = positions[i].pnl + positions[i].rollCost
                      /\ Settled(Trade(positions[i]))
  <2> TAKE i \in gone
  <2> DEFINE p == positions[i]
  <2>1. p \in Books /\ ~IsOpen(p) /\ Booked(p)
    BY <1>3, <1>7 DEF AllBooked
  <2> HIDE DEF p
  <2>2. p.rolls \in 0..RollMax /\ p.exit \in Exitings \cup {"end"} /\ p.pnl \in Int
        /\ p.rollCost \in Int /\ p.cash \in Int
    BY <2>1, BookIs
  <2>3. /\ Trade(p) \in Deals /\ Trade(p).pnl = p.pnl
        /\ Trade(p).lifecycle = p.pnl + p.rollCost /\ Settled(Trade(p))
    BY <2>1, <2>2, TradeIs
  <2> QED
    BY <2>3 DEF p
<1>10. /\ kept \in Seq(Books) /\ Len(kept) <= Len(positions)
       /\ \A k \in DOMAIN kept : IsOpen(kept[k])
  <2> HIDE DEF kept
  <2>1. Lists(positions, some, kept)
    BY <1>8, KeptIs DEF kept
  <2>2. \A i \in some : positions[i] \in Books
    BY <1>3, <1>5
  <2>3. IsFiniteSet(some)
    BY <1>8
  <2>4. kept \in Seq(Books) /\ Len(kept) = Cardinality(some)
    BY <2>1, <2>2, <2>3, ListsMembers
  <2>5. \A k \in DOMAIN kept : \E i \in some : kept[k] = positions[i]
    BY <2>1, <2>2, <2>3, <2>4, ListsMembers
  <2> QED
    BY <1>6, <1>8, <2>4, <2>5
<1>11. Remain(positions, kept)
  BY <1>5, <1>8, KeptRemain
<1>12. out \in Seq(Deals) /\ AllSettled(out)
  <2>1. gone \subseteq DOMAIN positions /\ \A i \in gone : positions[i] \in {positions[j] : j \in gone}
    BY <1>5
  <2>2. /\ left \in Seq({positions[j] : j \in gone})
    BY <1>2, <2>1, SomeKept
  <2> HIDE DEF left, gone
  <2>3. DOMAIN left = 1..Len(left) /\ Len(left) \in Nat /\ \A k \in DOMAIN left : \E j \in gone : left[k] = positions[j]
    BY <2>2, LenProperties, ElementOfSeq
  <2>4. out = [k \in 1..Len(left) |-> Trade(left[k])]
    BY <2>3 DEF Trades
  <2>5. \A k \in 1..Len(left) : Trade(left[k]) \in Deals /\ Settled(Trade(left[k]))
    BY <1>9, <2>3
  <2>6. out \in Seq(Deals)
    BY <2>3, <2>4, <2>5, SeqDef
  <2>7. AllSettled(out)
    BY <2>4, <2>5 DEF AllSettled
  <2> QED
    BY <2>6, <2>7
<1>13. /\ Costs(positions) = Costs(kept) + SumFunctionOnSet(cost, gone)
       /\ PnlOf(out) = SumFunctionOnSet(gain, gone) /\ PnlOf(out) \in Int
       /\ Lives(out) = SumFunctionOnSet(gain, gone) + SumFunctionOnSet(cost, gone)
  BY <1>2, <1>5, <1>9, CostsSplit
<1>14. SumFunctionOnSet(cost, gone) \in Int
  <2>1. IsFiniteSet(gone) /\ \A i \in gone : cost[i] \in Int
    <3>1. IsFiniteSet(gone)
      BY <1>4, <1>5, FS_Subset
    <3>2. \A i \in gone : cost[i] \in Int
      BY <1>3, BookIs
    <3> QED
      BY <3>1, <3>2
  <2> HIDE DEF cost, gone
  <2> QED
    BY <2>1, SumType
<1> HIDE DEF out, kept, cost, gain, gone
<1>15. Lives(closed_positions') = Lives(closed_positions) + Lives(out)
  BY <1>1, <1>2, <1>12, LivesJoin
<1>16. closed_positions' \in Seq(Deals) /\ AllSettled(closed_positions')
  BY <1>1, <1>2, <1>12, SettledJoin
<1>17. Lives(closed_positions) \in Int /\ Costs(kept) \in Int
  BY <1>2, <1>10, LedgerType
<1>18. balance' = balance + PnlOf(out) /\ total_commissions' = total_commissions
  BY <1>1, <1>2, <1>13 DEF Pay
<1> QED
  BY <1>1, <1>2, <1>10, <1>11, <1>13, <1>14, <1>15, <1>16, <1>17, <1>18

\* What is left at the end is closed, the first trade first.
LEMMA ForceCloseIs ==
  ASSUME Typed, Looking, AllBooked(positions), AllSettled(closed_positions), ForceClose
  PROVE  /\ positions' \in Seq(Books) /\ Remain(positions, positions')
         /\ Len(positions') <= Len(positions)
         /\ closed_positions' \in Seq(Deals) /\ AllSettled(closed_positions')
         /\ balance' \in Int /\ total_commissions' = total_commissions
         /\ balance' - Lives(closed_positions') - Costs(positions')
              = balance - Lives(closed_positions) - Costs(positions)
<1> DEFINE p == positions[1]
<1>1. pc = "closing" /\ positions # << >> /\ positions' = Tail(positions)
  BY DEF ForceClose
<1>2. /\ positions \in Seq(Books) /\ closed_positions \in Seq(Deals) /\ balance \in Int
      /\ total_commissions \in Nat
  BY DEF Typed
<1>3. /\ Remain(positions, positions') /\ positions' \in Seq(Books)
      /\ Len(positions) \in Nat \ {0} /\ Len(positions') = Len(positions) - 1
  BY <1>1, <1>2, TailRemains
<1>4. 1 \in DOMAIN positions /\ p \in Books /\ Head(positions) = p
  BY <1>1, <1>2, <1>3, LenProperties, ElementOfSeq
<1>5. IsOpen(p) /\ Booked(p)
  BY <1>1, <1>4 DEF Looking, Morning, AllBooked
<1>6. PICK price \in Prices \cup Raws :
        LET out == Exit(p, "end", Max({0, price}) + Slip, None)
        IN  /\ closed_positions' = Append(closed_positions, Trade(out))
            /\ Pay(out.pnl, 0)
  BY <1>4 DEF ForceClose
<1>7. Max({0, price}) + Slip \in Int
  <2>1. price \in Int /\ Slip \in Int
    BY EngineAssumption
  <2> QED
    BY <2>1, FloorType
<1> DEFINE last == Max({0, price}) + Slip
           out == Exit(p, "end", last, None)
<1>8. closed_positions' = Append(closed_positions, Trade(out)) /\ Pay(out.pnl, 0)
  BY <1>6
<1> HIDE DEF last, p
<1>9. /\ Same(p, out) /\ out.exit = "end" /\ out.pnl \in Int /\ out.cash \in Int
      /\ Booked(p) => Booked(out)
  <2> DEFINE kind == "end"
  <2>1. kind \in Exitings \cup {"end"} /\ kind # "open" /\ kind \notin {"take_profit", "expiration"}
    OBVIOUS
  <2>2. last \in Int /\ None \in Int \cup {None}
    BY <1>7 DEF last
  <2>3. out = Exit(p, kind, last, None)
    OBVIOUS
  <2> HIDE DEF kind, out
  <2>4. /\ Same(p, out) /\ out.exit = kind /\ out.pnl \in Int /\ out.cash \in Int
        /\ Booked(p) => Booked(out)
    BY <1>4, <1>5, <2>1, <2>2, <2>3, ExitIs
  <2> QED
    BY <2>4 DEF kind
<1>10. out.rolls \in 0..RollMax /\ out.rollCost = p.rollCost /\ p.rollCost \in Int
  BY <1>4, <1>9, BookIs DEF Same
<1> HIDE DEF out
<1>11. ~IsOpen(out)
  BY <1>9 DEF IsOpen
<1>12. /\ Trade(out) \in Deals /\ Trade(out).lifecycle = out.pnl + out.rollCost
       /\ Settled(Trade(out))
  <2>1. out.exit \in Exitings \cup {"end"} /\ out.rollCost \in Int
    BY <1>9, <1>10
  <2> QED
    BY <1>5, <1>9, <1>10, <1>11, <2>1, TradeIs
<1> DEFINE t == Trade(out)
<1> HIDE DEF t
<1>13. t \in Deals /\ t.lifecycle = out.pnl + p.rollCost /\ Settled(t)
       /\ closed_positions' = Append(closed_positions, t)
  BY <1>8, <1>10, <1>12 DEF t
<1>14. /\ closed_positions' \in Seq(Deals)
       /\ Lives(closed_positions') = Lives(closed_positions) + t.lifecycle
  BY <1>2, <1>13, LivesAppend
<1>15. AllSettled(closed_positions')
  <2>1. << t >> \in Seq(Deals) /\ closed_positions' = closed_positions \o << t >>
    BY <1>2, <1>13, AppendIsConcat
  <2>2. AllSettled(<< t >>)
    BY <1>13 DEF AllSettled
  <2> QED
    BY <1>2, <2>1, <2>2, SettledJoin
<1>16. Costs(positions') = Costs(positions) - p.rollCost
  BY <1>1, <1>2, CostsTail DEF p
<1>17. Lives(closed_positions) \in Int /\ Costs(positions) \in Int
  BY <1>2, LedgerType
<1>18. balance' = balance + out.pnl /\ total_commissions' = total_commissions
  BY <1>2, <1>8, <1>9 DEF Pay
<1>19. balance' - Lives(closed_positions') - Costs(positions')
         = balance - Lives(closed_positions) - Costs(positions)
  <2> DEFINE gain == out.pnl
             cost == p.rollCost
  <2>1. /\ Lives(closed_positions') = Lives(closed_positions) + (gain + cost)
        /\ Costs(positions') = Costs(positions) - cost /\ balance' = balance + gain
        /\ gain \in Int /\ cost \in Int /\ balance \in Int
    BY <1>2, <1>9, <1>10, <1>13, <1>14, <1>16, <1>18
  <2> HIDE DEF gain, cost
  <2> QED
    BY <1>17, <2>1
<1>20. balance' \in Int /\ Len(positions') <= Len(positions)
  BY <1>2, <1>3, <1>9, <1>18
<1> QED
  BY <1>3, <1>14, <1>15, <1>18, <1>19, <1>20

-----------------------------------------------------------------------------
(* What the steps do to the books *)

Quiet == UNCHANGED <<positions, closed_positions, balance, total_commissions>>

Adds(p) ==
  /\ p \in Books /\ positions' = Append(positions, p) /\ UNCHANGED closed_positions
  /\ Booked(p) /\ p.rollCost = 0 /\ \E fee \in Nat : Pay(0, fee)

Leaves ==
  /\ positions' \in Seq(Books) /\ Remain(positions, positions')
  /\ Len(positions') <= Len(positions)
  /\ closed_positions' \in Seq(Deals) /\ AllSettled(closed_positions')
  /\ balance' \in Int /\ UNCHANGED total_commissions
  /\ balance' - Lives(closed_positions') - Costs(positions')
       = balance - Lives(closed_positions) - Costs(positions)

BooksStep == Quiet \/ (\E q : Touches(q)) \/ (\E p : Adds(p)) \/ Leaves

LEMMA StepsOfBooks ==
  ASSUME Inv, Next
  PROVE  BooksStep
<1> USE DEF Inv
<1>1. AllBooked(positions) /\ AllSettled(closed_positions)
  BY LedgerIs DEF Booking, AllBooked
<1>2. CASE LookAt
  BY <1>2, LookAtTouches DEF BooksStep
<1>3. CASE Bar
  BY <1>3, BarTouches DEF BooksStep
<1>4. CASE Roll
  BY <1>4, RollTouches DEF BooksStep
<1>5. CASE StopOut \/ StaleExit \/ Expire
  BY <1>5, StopsTouch DEF BooksStep
<1>6. CASE AddLeg
  BY <1>6, AddLegTouches DEF BooksStep
<1>7. CASE Open
  <2>1. UNCHANGED closed_positions /\ \E p : /\ p \in Books /\ positions' = Append(positions, p)
                                             /\ Booked(p) /\ p.rollCost = 0
                                             /\ \E fee \in Nat : Pay(0, fee)
    BY <1>7, OpenAdds
  <2> QED
    BY <2>1 DEF BooksStep, Adds
<1>8. CASE BookExits
  BY <1>1, <1>8, BookExitsIs DEF BooksStep, Leaves
<1>9. CASE ForceClose
  BY <1>1, <1>9, ForceCloseIs DEF BooksStep, Leaves
<1>10. CASE EndOfBars \/ NoRoll \/ Keep \/ NoLeg
  BY <1>10 DEF EndOfBars, NoRoll, Keep, NoLeg, BooksStep, Quiet, money
<1>11. CASE StartScans \/ Scan \/ Pass \/ NextScan
  BY <1>11 DEF StartScans, Scan, Pass, NextScan, BooksStep, Quiet, money
<1>12. CASE StartDay \/ EndDay \/ EndReplay \/ Finish \/ Done
  BY <1>12 DEF StartDay, EndDay, EndReplay, Finish, Done, BooksStep, Quiet, money, vars
<1> QED
  BY <1>2, <1>3, <1>4, <1>5, <1>6, <1>7, <1>8, <1>9, <1>10, <1>11, <1>12
     DEF Next, Exits, Entries, Calendar

\* One trade of a list is replaced.
LEMMA Replaced ==
  ASSUME NEW T, NEW list \in Seq(T), NEW k \in DOMAIN list, NEW q \in T,
         NEW result, result = [list EXCEPT ![k] = q]
  PROVE  /\ result \in Seq(T) /\ DOMAIN result = DOMAIN list /\ Len(result) = Len(list)
         /\ result[k] = q /\ \A i \in DOMAIN list \ {k} : result[i] = list[i]
<1>1. list \in [1..Len(list) -> T] /\ Len(list) \in Nat /\ DOMAIN list = 1..Len(list)
  BY LenProperties
<1>2. result \in [1..Len(list) -> T]
  BY <1>1
<1>3. result \in Seq(T)
  BY <1>1, <1>2, SeqDef
<1>4. DOMAIN result = 1..Len(result) /\ Len(result) \in Nat /\ DOMAIN result = 1..Len(list)
  BY <1>2, <1>3, LenProperties
<1>5. Len(result) = Len(list)
  BY <1>1, <1>4
<1> QED
  BY <1>1, <1>3, <1>4, <1>5

LEMMA Appended ==
  ASSUME NEW T, NEW list \in Seq(T), NEW p \in T
  PROVE  /\ Append(list, p) \in Seq(T) /\ Len(Append(list, p)) = Len(list) + 1
         /\ Len(list) \in Nat
         /\ DOMAIN Append(list, p) = DOMAIN list \cup {Len(list) + 1}
         /\ Append(list, p)[Len(list) + 1] = p
         /\ \A i \in DOMAIN list : Append(list, p)[i] = list[i] /\ i # Len(list) + 1
<1>1. /\ Append(list, p) \in Seq(T) /\ Len(Append(list, p)) = Len(list) + 1
      /\ \A i \in 1..Len(list) : Append(list, p)[i] = list[i]
      /\ Append(list, p)[Len(list) + 1] = p
  BY AppendProperties
<1>2. Len(list) \in Nat /\ DOMAIN list = 1..Len(list)
  BY LenProperties
<1>3. DOMAIN Append(list, p) = 1..(Len(list) + 1)
  BY <1>1, LenProperties
<1> DEFINE n == Len(list)
<1> HIDE DEF n
<1>4. 1..(n + 1) = (1..n) \cup {n + 1} /\ n + 1 \notin 1..n
  BY <1>2 DEF n
<1> QED
  BY <1>1, <1>2, <1>3, <1>4 DEF n

\* The ledger after a step, from the ledger before it.
LEMMA BooksKept ==
  ASSUME Typed, Booking, BooksStep
  PROVE  /\ positions' \in Seq(Books) /\ closed_positions' \in Seq(Deals)
         /\ balance' \in Int /\ total_commissions' \in Nat
         /\ Booking'
<1>1. /\ positions \in Seq(Books) /\ closed_positions \in Seq(Deals)
      /\ balance \in Int /\ total_commissions \in Nat
  BY DEF Typed
<1>2. Costs(positions) \in Int /\ Lives(closed_positions) \in Int /\ Capital \in Int
  BY <1>1, LedgerType, EngineAssumption
<1>3. balance = Capital + Lives(closed_positions) + Costs(positions) - total_commissions
  BY LedgerIs DEF Booking, BalanceIsLedger
<1>4. AllBooked(positions) /\ AllSettled(closed_positions)
  BY LedgerIs DEF Booking, AllBooked
<1> DEFINE Ledger == /\ positions' \in Seq(Books) /\ closed_positions' \in Seq(Deals)
                    /\ balance' \in Int /\ total_commissions' \in Nat
                    /\ AllBooked(positions') /\ AllSettled(closed_positions')
                    /\ balance' = Capital + Lives(closed_positions') + Costs(positions')
                                    - total_commissions'
<1>5. ASSUME Quiet PROVE Ledger
  BY <1>1, <1>2, <1>3, <1>4, <1>5 DEF Quiet
<1>6. ASSUME \E q : Touches(q) PROVE Ledger
  <2>1. PICK q : Touches(q)
    BY <1>6
  <2>2. /\ at \in DOMAIN positions /\ q \in Books
        /\ positions' = [positions EXCEPT ![at] = q]
        /\ closed_positions' = closed_positions
        /\ q.rollCost - Here.rollCost \in Int
        /\ \E fee \in Nat : Pay(q.rollCost - Here.rollCost, fee)
        /\ Booked(Here) => Booked(q)
    BY <2>1 DEF Touches
  <2> DEFINE net == q.rollCost - Here.rollCost
  <2>3. Costs(positions') = Costs(positions) + net
    BY <1>1, <2>2, CostsChange DEF Here
  <2> HIDE DEF net
  <2>4. PICK fee \in Nat : Pay(net, fee)
    BY <2>2 DEF net
  <2>5. net \in Int
    BY <2>2 DEF net
  <2>6. balance' = balance + net - fee /\ total_commissions' = total_commissions + fee
    BY <2>4 DEF Pay
  <2>7. /\ positions' \in Seq(Books) /\ DOMAIN positions' = DOMAIN positions
        /\ positions'[at] = q /\ \A i \in DOMAIN positions \ {at} : positions'[i] = positions[i]
    BY <1>1, <2>2, Replaced
  <2>8. AllBooked(positions')
    BY <1>4, <2>2, <2>7 DEF AllBooked, Here
  <2>9. closed_positions' \in Seq(Deals) /\ AllSettled(closed_positions') /\ Lives(closed_positions') = Lives(closed_positions)
    BY <1>1, <1>4, <2>2
  <2>10. /\ balance \in Int /\ total_commissions \in Nat /\ fee \in Nat /\ Capital \in Int
         /\ Lives(closed_positions) \in Int /\ Costs(positions) \in Int
    BY <1>1, <1>2, <2>4
  <2>11. Costs(positions') = Costs(positions) + net
    BY <2>3
  <2>12. balance' \in Int /\ total_commissions' \in Nat
    BY <2>5, <2>6, <2>10
  <2>13. balance' = Capital + Lives(closed_positions') + Costs(positions') - total_commissions'
    BY <1>3, <2>5, <2>6, <2>9, <2>10, <2>11
  <2> QED
    BY <2>7, <2>8, <2>9, <2>12, <2>13
<1>7. ASSUME \E p : Adds(p) PROVE Ledger
  <2>1. PICK p : Adds(p)
    BY <1>7
  <2>2. /\ p \in Books /\ positions' = Append(positions, p) /\ closed_positions' = closed_positions
        /\ Booked(p) /\ p.rollCost = 0 /\ \E fee \in Nat : Pay(0, fee)
    BY <2>1 DEF Adds
  <2>3. Costs(positions') = Costs(positions) + 0
    BY <1>1, <2>2, CostsAppend
  <2>4. PICK fee \in Nat : Pay(0, fee)
    BY <2>2
  <2>5. balance' = balance + 0 - fee /\ total_commissions' = total_commissions + fee
    BY <2>4 DEF Pay
  <2>6. positions' \in Seq(Books) /\ AllBooked(positions')
    BY <1>1, <1>4, <2>2, Appended DEF AllBooked
  <2>7. /\ balance \in Int /\ total_commissions \in Nat /\ fee \in Nat /\ Capital \in Int
        /\ Lives(closed_positions) \in Int /\ Costs(positions) \in Int
    BY <1>1, <1>2, <2>4
  <2>8. balance' \in Int /\ total_commissions' \in Nat
    BY <2>5, <2>7
  <2>9. balance' = Capital + Lives(closed_positions) + Costs(positions') - total_commissions'
    BY <1>3, <2>3, <2>5, <2>7
  <2> QED
    BY <1>1, <1>4, <2>2, <2>6, <2>8, <2>9
<1>8. ASSUME Leaves PROVE Ledger
  <2>1. /\ positions' \in Seq(Books) /\ closed_positions' \in Seq(Deals) /\ AllSettled(closed_positions')
        /\ balance' \in Int /\ total_commissions' = total_commissions
        /\ balance' - Lives(closed_positions') - Costs(positions')
             = balance - Lives(closed_positions) - Costs(positions)
        /\ Remain(positions, positions')
    BY <1>8 DEF Leaves
  <2>2. Costs(positions') \in Int /\ Lives(closed_positions') \in Int
    BY <2>1, LedgerType
  <2>3. AllBooked(positions')
    BY <1>4, <2>1 DEF AllBooked, Remain
  <2>4. balance' = Capital + Lives(closed_positions') + Costs(positions') - total_commissions'
    <3> DEFINE lives == Lives(closed_positions)
               costs == Costs(positions)
               nlives == Lives(closed_positions')
               ncosts == Costs(positions')
    <3>1. /\ balance' - nlives - ncosts = balance - lives - costs
          /\ balance = Capital + lives + costs - total_commissions
          /\ {balance, balance', lives, costs, nlives, ncosts, Capital, total_commissions} \subseteq Int
      BY <1>1, <1>2, <1>3, <2>1, <2>2
    <3> HIDE DEF lives, costs, nlives, ncosts
    <3>2. balance' = Capital + nlives + ncosts - total_commissions
      BY <3>1
    <3> QED
      BY <2>1, <3>2 DEF nlives, ncosts
  <2> QED
    BY <1>1, <2>1, <2>3, <2>4
<1>9. Ledger
  BY <1>5, <1>6, <1>7, <1>8 DEF BooksStep
<1>10. /\ RollCosts' = Costs(positions') /\ Lifecycles' = Lives(closed_positions')
       /\ TradesBooked' <=> AllSettled(closed_positions')
  BY DEF RollCosts, Lifecycles, Costs, Lives, TradesBooked, AllSettled, Settled
<1>11. (\A i \in DOMAIN positions : Booked(positions[i]))' <=> AllBooked(positions')
  BY DEF AllBooked
<1> QED
  BY <1>9, <1>10, <1>11 DEF Booking, BalanceIsLedger

-----------------------------------------------------------------------------
(* The invariant, part by part *)

LEMMA BlockedType ==
  ASSUME NEW blocked \in BOOLEAN, NEW vix
  PROVE  Blocked(blocked, vix) \in BOOLEAN
<1>1. CASE cfg.vixBlock = 0 \/ vix <= 0
  BY <1>1 DEF Blocked
<1>2. CASE ~(cfg.vixBlock = 0 \/ vix <= 0)
  <2>1. CASE blocked
    <3>1. Blocked(blocked, vix) = (vix >= cfg.vixUnblock)
      BY <1>2, <2>1 DEF Blocked
    <3> QED
      BY <3>1
  <2>2. CASE ~blocked
    <3>1. Blocked(blocked, vix) = (vix > cfg.vixBlock)
      BY <1>2, <2>2 DEF Blocked
    <3> QED
      BY <3>1
  <2> QED
    BY <2>1, <2>2
<1> QED
  BY <1>1, <1>2

LEMMA TypedKept ==
  ASSUME Inv, Next
  PROVE  Typed'
<1> USE DEF Inv
<1> DEFINE Books1 == /\ positions' \in Seq(Books) /\ closed_positions' \in Seq(Deals)
                     /\ balance' \in Int /\ total_commissions' \in Nat
           Rest == /\ cfg' \in Configs /\ pc' \in Phases
                   /\ day' \in Int /\ seen' \in 0..MaxDays /\ opp_spread_val' \in Int
                   /\ at' \in Nat \ {0} /\ vix_bps_blocked' \in BOOLEAN /\ now' \in Int
                   /\ open_slots' \in 0..MaxPositions
<1>1. Books1
  BY StepsOfBooks, BooksKept
<1>2. Rest
  <2>1. /\ cfg \in Configs /\ day \in Int /\ seen \in 0..MaxDays /\ opp_spread_val \in Int
        /\ at \in Nat \ {0} /\ vix_bps_blocked \in BOOLEAN /\ now \in Int
        /\ open_slots \in 0..MaxPositions /\ pc \in Phases
        /\ Len(positions) \in Nat /\ Len(positions) <= MaxPositions
    BY LenProperties DEF Typed, Slots, OneTradePerSymbol
  <2>2. /\ MaxPositions \in Nat /\ MaxDays \in Nat /\ ScanStep \in Int /\ DayStart \in Int
        /\ Days \subseteq Int /\ Prices \cup {0} \subseteq Int
    BY EngineAssumption
  <2>3. {"night", "exits", "bars", "roll", "stops", "condor", "slots", "scan", "signals",
         "closing", "done"} \subseteq Phases
    BY DEF Phases, Morning, Trading
  <2> HIDE DEF Inv
  <2>4. CASE LookAt
    <3>1. opp_spread_val' \in (IF Here.opp = None THEN {0} ELSE Prices \cup {0})
      BY <2>4 DEF LookAt
    <3>2. opp_spread_val' \in Int
      BY <2>2, <3>1
    <3> QED
      BY <2>1, <2>3, <2>4, <3>2 DEF LookAt, clock, scanning
  <2>5. CASE Bar
    <3>1. /\ opp_spread_val' \in Int /\ pc' \in {pc, "exits"} /\ at' \in {at, at + 1}
      BY <2>5, BarTouches DEF Inv
    <3> QED
      BY <2>1, <2>3, <2>5, <3>1 DEF Bar, clock, scanning
  <2>6. CASE EndOfBars
    BY <2>1, <2>3, <2>6 DEF EndOfBars, clock, scanning
  <2>7. CASE Roll
    BY <2>1, <2>3, <2>7 DEF Roll, clock, scanning, watching
  <2>8. CASE NoRoll
    BY <2>1, <2>3, <2>8 DEF NoRoll, clock, scanning, watching
  <2>9. CASE StopOut \/ StaleExit \/ Expire
    BY <2>1, <2>3, <2>9 DEF StopOut, StaleExit, Expire, clock, scanning, watching
  <2>10. CASE Keep
    BY <2>1, <2>3, <2>10 DEF Keep, clock, scanning, watching
  <2>11. CASE BookExits
    BY <2>1, <2>3, <2>11 DEF BookExits, clock, scanning, watching
  <2>12. CASE AddLeg \/ NoLeg
    <3>1. UNCHANGED <<clock, scanning, watching, pc>> /\ at' = at + 1
      BY <2>12 DEF AddLeg, NoLeg
    <3> QED
      BY <2>1, <3>1 DEF clock, scanning, watching
  <2>13. CASE StartScans
    <3>1. MaxPositions - Len(positions) \in 0..MaxPositions
      BY <2>1, <2>2
    <3> QED
      BY <2>1, <2>2, <2>3, <2>13, <3>1 DEF StartScans, clock, watching
  <2>14. CASE Scan
    <3>1. Blocked(vix_bps_blocked, VixAt(now)) \in BOOLEAN
      BY <2>1, BlockedType
    <3> QED
      BY <2>1, <2>3, <2>14, <3>1 DEF Scan, clock, watching
  <2>15. CASE Open
    <3>1. open_slots - 1 \in 0..MaxPositions
      BY <2>1, <2>2, <2>15 DEF Open
    <3> QED
      BY <2>1, <2>15, <3>1 DEF Open, clock, watching
  <2>16. CASE Pass
    BY <2>1, <2>16 DEF Pass, clock, scanning, watching
  <2>17. CASE NextScan
    BY <2>1, <2>2, <2>3, <2>17 DEF NextScan, clock, watching
  <2>18. CASE StartDay
    <3>1. day' \in Int
      BY <2>2, <2>18 DEF StartDay
    <3> QED
      BY <2>1, <2>3, <2>18, <3>1 DEF StartDay, scanning, watching
  <2>19. CASE EndDay
    <3>1. seen' \in 0..MaxDays
      <4>1. seen < MaxDays
        BY <2>19 DEF EndDay, Inv, Scanned
      <4> QED
        BY <2>1, <2>2, <2>19, <4>1 DEF EndDay
    <3> QED
      BY <2>1, <2>2, <2>3, <2>19, <3>1 DEF EndDay, watching
  <2>20. CASE EndReplay \/ ForceClose \/ Finish
    BY <2>1, <2>3, <2>20 DEF EndReplay, ForceClose, Finish, clock, scanning, watching
  <2>21. CASE Done
    BY <2>1, <2>21 DEF Done, vars
  <2> QED
    BY <2>4, <2>5, <2>6, <2>7, <2>8, <2>9, <2>10, <2>11, <2>12, <2>13, <2>14, <2>15, <2>16,
       <2>17, <2>18, <2>19, <2>20, <2>21 DEF Next, Exits, Entries, Calendar
<1> QED
  BY <1>1, <1>2 DEF Typed

LEMMA ScannedKept ==
  ASSUME Inv, Next
  PROVE  Scanned'
<1>1. Typed /\ Scanned /\ DayStart \in Int /\ ScanStep \in Nat
  BY EngineAssumption DEF Inv
<1>2. MaxDays \in Int /\ seen \in Int /\ now \in Int
  BY <1>1, EngineAssumption DEF Typed
<1> USE DEF Scanned, Trading
<1>3. CASE LookAt \/ EndOfBars
  BY <1>1, <1>3 DEF LookAt, EndOfBars, clock, scanning
<1>4. CASE Bar
  <2>1. pc = "bars" /\ pc' \in {pc, "exits"}
    BY <1>4, BarTouches DEF Inv
  <2> QED
    BY <1>1, <1>4, <2>1 DEF Bar, clock, scanning
<1>5. CASE Roll \/ NoRoll \/ StopOut \/ StaleExit \/ Expire \/ Keep \/ BookExits
  BY <1>1, <1>5 DEF Roll, NoRoll, StopOut, StaleExit, Expire, Keep, BookExits, clock, scanning
<1>6. CASE AddLeg \/ NoLeg
  BY <1>1, <1>6 DEF AddLeg, NoLeg, clock, scanning
<1>7. CASE StartScans
  BY <1>1, <1>7 DEF StartScans, clock
<1>8. CASE Scan
  BY <1>1, <1>8 DEF Scan, clock
<1>9. CASE Open \/ Pass
  BY <1>1, <1>9 DEF Open, Pass, clock, scanning
<1>10. CASE NextScan
  BY <1>1, <1>2, <1>10 DEF NextScan, clock
<1>11. CASE StartDay
  BY <1>1, <1>11 DEF StartDay, scanning
<1>12. CASE EndDay \/ EndReplay \/ ForceClose \/ Finish
  BY <1>1, <1>12 DEF EndDay, EndReplay, ForceClose, Finish, clock, scanning
<1>13. CASE Done
  BY <1>1, <1>13 DEF Done, vars
<1> QED
  BY <1>3, <1>4, <1>5, <1>6, <1>7, <1>8, <1>9, <1>10, <1>11, <1>12, <1>13
     DEF Next, Exits, Entries, Calendar

\* What a step that touches one trade leaves as it is.
LEMMA TouchedList ==
  ASSUME Typed, NEW q, Touches(q)
  PROVE  /\ at \in DOMAIN positions /\ DOMAIN positions' = DOMAIN positions
         /\ Len(positions') = Len(positions) /\ positions'[at] = q
         /\ \A i \in DOMAIN positions \ {at} : positions'[i] = positions[i]
         /\ q.sym = Here.sym /\ q.day = Here.day /\ q \in Books /\ Here = positions[at]
<1>1. /\ at \in DOMAIN positions /\ q \in Books /\ positions' = [positions EXCEPT ![at] = q]
      /\ q.sym = Here.sym /\ q.day = Here.day
  BY DEF Touches
<1>2. positions \in Seq(Books)
  BY DEF Typed
<1> QED
  BY <1>1, <1>2, Replaced DEF Here

\* Not expiring any more, or entered on the day of its expiration.
Lasts(p) == p.exp > day \/ (MinDte = 0 /\ p.day = day /\ p.exp = day /\ pc \notin Morning)

LEMMA LookingKept ==
  ASSUME Inv, Next
  PROVE  Looking'
<1>1. Typed /\ Looking /\ Scanned /\ day \in Int /\ at \in Nat \ {0} /\ positions \in Seq(Books)
  BY DEF Inv, Typed
<1>2. /\ DOMAIN positions = 1..Len(positions) /\ Len(positions) \in Nat
      /\ \A i \in DOMAIN positions : positions[i] \in Books
  BY <1>1, LenProperties, ElementOfSeq
<1> USE DEF Morning
<1>3. CASE LookAt
  <2>1. pc = "exits" /\ pc' = "bars" /\ at' = at
    BY <1>1, <1>3, LookAtTouches
  <2>2. PICK q : Touches(q) /\ IsOpen(q)
    BY <1>1, <1>3, LookAtTouches
  <2>3. day' = day
    BY <1>3 DEF LookAt, clock
  <2> QED
    BY <1>1, <1>2, <2>1, <2>2, <2>3, TouchedList DEF Looking, IsOpen
<1>4. CASE Bar
  <2>1. pc = "bars"
    BY <1>1, <1>4, BarTouches
  <2>2. PICK q : /\ Touches(q) /\ IF IsOpen(q) THEN pc' = pc /\ at' = at ELSE pc' = "exits" /\ at' = at + 1
    BY <1>1, <1>4, BarTouches
  <2>3. day' = day
    BY <1>4 DEF Bar, clock
  <2>4. CASE IsOpen(q)
    BY <1>1, <1>2, <2>1, <2>2, <2>3, <2>4, TouchedList DEF Looking, IsOpen
  <2>5. CASE ~IsOpen(q)
    BY <1>1, <1>2, <2>1, <2>2, <2>3, <2>5, TouchedList DEF Looking, IsOpen
  <2> QED
    BY <2>4, <2>5
<1>5. CASE Roll
  <2>1. pc = "roll" /\ pc' = "exits" /\ at' = at + 1 /\ RollExpiration \in Int /\ RollExpiration > day
    <3>1. /\ pc = "roll" /\ pc' = "exits" /\ at' = at + 1
          /\ RollExpiration \in Int /\ RollExpiration - day >= RollMinDte
      BY <1>1, <1>5, RollTouches
    <3>2. RollMinDte \in Nat \ {0}
      BY SpreadAssumption
    <3> HIDE DEF RollExpiration
    <3> QED
      BY <1>1, <3>1, <3>2
  <2>2. PICK q : Touches(q) /\ q.exp = RollExpiration
    BY <1>1, <1>5, RollTouches
  <2>3. day' = day
    BY <1>5 DEF Roll, clock
  <2>4. q.exp > day
    BY <2>1, <2>2
  <2> QED
    BY <1>1, <1>2, <2>1, <2>2, <2>3, <2>4, TouchedList DEF Looking, IsOpen
<1>6. CASE StopOut \/ StaleExit \/ Expire
  <2>1. pc = "stops" /\ pc' = "exits" /\ at' = at + 1
    BY <1>1, <1>6, StopsTouch
  <2>2. PICK q : Touches(q) /\ ~IsOpen(q)
    BY <1>1, <1>6, StopsTouch
  <2>3. day' = day
    BY <1>6 DEF StopOut, StaleExit, Expire, clock
  <2> QED
    BY <1>1, <1>2, <2>1, <2>2, <2>3, TouchedList DEF Looking, IsOpen
<1>7. CASE Keep
  <2>1. /\ pc = "stops" /\ pc' = "exits" /\ at' = at + 1 /\ positions' = positions /\ day' = day
        /\ ~(day >= Here.exp)
    BY <1>7 DEF Keep, clock, Expired
  <2>2. at <= Len(positions)
    BY <1>1, <2>1 DEF Looking
  <2>3. at \in DOMAIN positions /\ Here.exp \in Int
    BY <1>1, <1>2, <2>2, BookIs DEF Here
  <2>4. positions[at].exp > day
    BY <1>1, <2>1, <2>3 DEF Here
  <2> QED
    BY <1>1, <1>2, <2>1, <2>4 DEF Looking, IsOpen
<1>8. CASE EndOfBars \/ NoRoll
  <2>1. /\ pc \in {"bars", "roll"} /\ pc' \in {"roll", "stops"} /\ at' = at
        /\ positions' = positions /\ day' = day
    BY <1>8 DEF EndOfBars, NoRoll, clock
  <2> QED
    BY <1>1, <2>1 DEF Looking, IsOpen
<1>9. CASE BookExits
  <2>1. /\ pc = "exits" /\ at > Len(positions) /\ pc' \in {"slots", "condor"} /\ day' = day
    BY <1>9 DEF BookExits, clock
  <2>2. Remain(positions, positions') /\ \A k \in DOMAIN positions' : IsOpen(positions'[k])
    BY <1>9, BookExitsIs, LedgerIs DEF Inv, Booking, AllBooked
  <2>3. \A k \in DOMAIN positions' : positions'[k].exp > day
    <3> TAKE k \in DOMAIN positions'
    <3>1. PICK i \in DOMAIN positions : positions'[k] = positions[i]
      BY <2>2 DEF Remain
    <3>2. i < at
      BY <1>1, <1>2, <2>1
    <3> QED
      BY <1>1, <2>1, <2>2, <3>1, <3>2 DEF Looking
  <2> QED
    BY <2>1, <2>2, <2>3 DEF Looking, IsOpen
<1>10. CASE AddLeg
  <2>1. pc = "condor" /\ pc' = pc
    BY <1>1, <1>10, AddLegTouches
  <2>2. PICK q : Touches(q) /\ q.exp = Here.exp /\ IsOpen(q)
    BY <1>1, <1>10, AddLegTouches
  <2>3. day' = day
    BY <1>10 DEF AddLeg, clock
  <2>4. \A i \in DOMAIN positions : Lasts(positions[i])
    BY <1>1, <2>1 DEF Looking, Lasts
  <2>5. Lasts(q)
    BY <1>1, <2>2, <2>4, TouchedList DEF Lasts
  <2> QED
    BY <1>1, <1>2, <2>1, <2>2, <2>3, <2>4, <2>5, TouchedList DEF Looking, IsOpen, Lasts
<1>11. CASE NoLeg \/ StartScans \/ Scan \/ Pass \/ NextScan \/ EndDay \/ EndReplay \/ Finish
  <2>1. /\ pc \notin Morning /\ pc' \notin Morning /\ positions' = positions /\ day' = day
        /\ pc' = "done" => positions = << >>
    BY <1>11 DEF NoLeg, StartScans, Scan, Pass, NextScan, EndDay, EndReplay, Finish, clock
  <2> QED
    BY <1>1, <2>1 DEF Looking, IsOpen
<1>12. CASE Open
  <2>1. /\ pc = "signals" /\ pc' = pc
        /\ EntryExpiration \in Int /\ EntryExpiration - day >= MinDte
    BY <1>1, <1>12, OpenAdds
  <2>2. PICK p : /\ p \in Books /\ positions' = Append(positions, p) /\ IsOpen(p)
                 /\ p.day = day /\ p.exp = EntryExpiration
    BY <1>1, <1>12, OpenAdds
  <2>3. day' = day
    BY <1>12 DEF Open, clock
  <2>4. \A i \in DOMAIN positions : Lasts(positions[i]) /\ IsOpen(positions[i])
    BY <1>1, <2>1 DEF Looking, Lasts
  <2>5. Lasts(p)
    <3>1. p.exp - day >= MinDte /\ p.exp \in Int /\ MinDte \in Nat
      BY <2>1, <2>2, SpreadAssumption
    <3> QED
      BY <1>1, <2>1, <2>2, <3>1 DEF Lasts
  <2>6. \A i \in DOMAIN positions' : Lasts(positions'[i]) /\ IsOpen(positions'[i])
    BY <1>1, <2>2, <2>4, <2>5, Appended
  <2> QED
    BY <2>1, <2>3, <2>6 DEF Looking, IsOpen, Lasts
<1>13. CASE StartDay
  <2>1. pc = "night" /\ pc' = "exits" /\ at' = 1 /\ positions' = positions
    BY <1>13 DEF StartDay
  <2>2. \A i \in DOMAIN positions : IsOpen(positions[i]) /\ i >= 1
    BY <1>1, <1>2, <2>1 DEF Looking
  <2> QED
    BY <1>2, <2>1, <2>2 DEF Looking, IsOpen
<1>14. CASE ForceClose
  <2>1. pc = "closing" /\ pc' = pc /\ day' = day
    BY <1>14 DEF ForceClose, clock
  <2>2. Remain(positions, positions')
    BY <1>14, ForceCloseIs, LedgerIs DEF Inv, Booking, AllBooked
  <2>3. \A i \in DOMAIN positions : Lasts(positions[i]) /\ IsOpen(positions[i])
    BY <1>1, <2>1 DEF Looking, Lasts
  <2>4. \A k \in DOMAIN positions' : Lasts(positions'[k]) /\ IsOpen(positions'[k])
    BY <2>2, <2>3 DEF Remain
  <2> QED
    BY <2>1, <2>4 DEF Looking, IsOpen, Lasts
<1>15. CASE Done
  BY <1>1, <1>15 DEF Done, vars, Looking, IsOpen
<1> QED
  BY <1>3, <1>4, <1>5, <1>6, <1>7, <1>8, <1>9, <1>10, <1>11, <1>12, <1>13, <1>14, <1>15
     DEF Next, Exits, Entries, Calendar

\* One trade of a symbol, and no more than the slots: said of the list.
Single(list) == \A i, j \in DOMAIN list : list[i].sym = list[j].sym => i = j

LEMMA SingleKept ==
  ASSUME Typed, Single(positions)
  PROVE  /\ \A q : Touches(q) => Single(positions') /\ Len(positions') = Len(positions)
         /\ Remain(positions, positions') => Single(positions')
<1>1. ASSUME NEW q, Touches(q) PROVE Single(positions') /\ Len(positions') = Len(positions)
  <2>1. /\ DOMAIN positions' = DOMAIN positions /\ Len(positions') = Len(positions)
        /\ \A i \in DOMAIN positions : positions'[i].sym = positions[i].sym
    BY <1>1, TouchedList
  <2> QED
    BY <2>1 DEF Single
<1>2. ASSUME Remain(positions, positions') PROVE Single(positions')
  BY <1>2 DEF Remain, Single
<1> QED
  BY <1>1, <1>2

LEMMA SlotsKept ==
  ASSUME Inv, Next
  PROVE  Slots'
<1>1. Typed /\ Looking /\ Scanned /\ Slots /\ positions \in Seq(Books) /\ open_slots \in Int
      /\ AllBooked(positions) /\ AllSettled(closed_positions)
  BY LedgerIs, EngineAssumption DEF Inv, Typed, Booking, AllBooked
<1>2. Single(positions) /\ Len(positions) <= MaxPositions /\ Len(positions) \in Nat
  BY <1>1, LenProperties DEF Slots, OneTradePerSymbol, Single
<1>3. MaxPositions \in Nat
  BY EngineAssumption
<1> USE DEF Trading
<1>4. ASSUME pc' \notin Trading, NEW q, Touches(q) PROVE Slots'
  <2>1. Single(positions') /\ Len(positions') = Len(positions)
    BY <1>1, <1>2, <1>4, SingleKept
  <2> QED
    BY <1>2, <1>4, <2>1 DEF Slots, OneTradePerSymbol, Single
<1>5. CASE LookAt
  BY <1>1, <1>4, <1>5, LookAtTouches
<1>6. CASE Bar
  <2>1. pc' \notin Trading
    BY <1>1, <1>6, BarTouches
  <2> QED
    BY <1>1, <1>4, <1>6, <2>1, BarTouches
<1>7. CASE Roll
  BY <1>1, <1>4, <1>7, RollTouches
<1>8. CASE StopOut \/ StaleExit \/ Expire
  BY <1>1, <1>4, <1>8, StopsTouch
<1>9. CASE AddLeg
  BY <1>1, <1>4, <1>9, AddLegTouches
<1>10. CASE BookExits
  <2>1. Remain(positions, positions') /\ Len(positions') <= Len(positions) /\ positions' \in Seq(Books)
    BY <1>1, <1>10, BookExitsIs
  <2>2. Single(positions') /\ Len(positions') \in Nat
    BY <1>1, <1>2, <2>1, SingleKept, LenProperties
  <2>3. pc' \notin Trading
    BY <1>10 DEF BookExits
  <2> QED
    BY <1>2, <1>3, <2>1, <2>2, <2>3 DEF Slots, OneTradePerSymbol, Single
<1>11. CASE ForceClose
  <2>1. Remain(positions, positions') /\ Len(positions') <= Len(positions) /\ positions' \in Seq(Books)
    BY <1>1, <1>11, ForceCloseIs
  <2>2. Single(positions') /\ Len(positions') \in Nat
    BY <1>1, <1>2, <2>1, SingleKept, LenProperties
  <2>3. pc' \notin Trading
    BY <1>11 DEF ForceClose
  <2> QED
    BY <1>2, <1>3, <2>1, <2>2, <2>3 DEF Slots, OneTradePerSymbol, Single
<1>12. CASE StartScans
  <2>1. /\ positions' = positions /\ open_slots' = MaxPositions - Len(positions)
        /\ taken' = {positions[i].sym : i \in DOMAIN positions}
    BY <1>12 DEF StartScans
  <2> QED
    BY <1>1, <1>2, <1>3, <2>1 DEF Slots, OneTradePerSymbol
<1>13. CASE Open
  <2>1. /\ pc = "signals" /\ pc' = pc /\ open_slots > 0
        /\ open_slots' = open_slots - 1 /\ taken' = taken \cup {Signal.sym}
    BY <1>1, <1>13, OpenAdds
  <2>2. PICK p : /\ p \in Books /\ positions' = Append(positions, p)
                 /\ p.sym = Signal.sym /\ p.sym \notin taken
    BY <1>1, <1>13, OpenAdds
  <2>3. /\ Len(positions) + open_slots =< MaxPositions
        /\ \A i \in DOMAIN positions : positions[i].sym \in taken
    BY <1>1, <2>1 DEF Slots
  <2>4. /\ Len(positions') = Len(positions) + 1
        /\ DOMAIN positions' = DOMAIN positions \cup {Len(positions) + 1}
        /\ positions'[Len(positions) + 1] = p
        /\ \A i \in DOMAIN positions : positions'[i] = positions[i]
    BY <1>1, <2>2, Appended
  <2>5. \A i \in DOMAIN positions : positions[i].sym # p.sym
    BY <2>2, <2>3
  <2>6. Single(positions')
    BY <1>2, <2>4, <2>5 DEF Single
  <2>7. Len(positions') + open_slots' =< MaxPositions /\ Len(positions') <= MaxPositions
    BY <1>1, <1>2, <1>3, <2>1, <2>3, <2>4
  <2>8. \A i \in DOMAIN positions' : positions'[i].sym \in taken'
    BY <2>1, <2>2, <2>3, <2>4
  <2> QED
    BY <2>6, <2>7, <2>8 DEF Slots, OneTradePerSymbol, Single
<1>14. CASE Scan \/ Pass \/ NextScan
  BY <1>1, <1>14 DEF Scan, Pass, NextScan, scanning, Slots, OneTradePerSymbol
<1>15. CASE EndOfBars \/ NoRoll \/ Keep \/ NoLeg \/ StartDay \/ EndDay \/ EndReplay \/ Finish
  <2>1. positions' = positions /\ pc' \notin Trading
    BY <1>15 DEF EndOfBars, NoRoll, Keep, NoLeg, StartDay, EndDay, EndReplay, Finish
  <2> QED
    BY <1>1, <2>1 DEF Slots, OneTradePerSymbol
<1>16. CASE Done
  BY <1>1, <1>16 DEF Done, vars, Slots, OneTradePerSymbol
<1> QED
  BY <1>5, <1>6, <1>7, <1>8, <1>9, <1>10, <1>11, <1>12, <1>13, <1>14, <1>15, <1>16
     DEF Next, Exits, Entries, Calendar

\* No holiday before the expiration of a trade, from this day on.
Unholy(p) == ~HolidayBetween(day, p.exp, cfg.blackout)

LEMMA HolidaysKept ==
  ASSUME Inv, Next
  PROVE  NoHolidayHeld'
<1>1. /\ Typed /\ Looking /\ Scanned /\ positions \in Seq(Books) /\ day \in Int
      /\ AllBooked(positions) /\ AllSettled(closed_positions)
      /\ \A i \in DOMAIN positions : IsOpen(positions[i]) => Unholy(positions[i])
  BY LedgerIs DEF Inv, Typed, Booking, AllBooked, NoHolidayHeld, Unholy
<1>2. \A i \in DOMAIN positions : positions[i] \in Books
  BY <1>1, ElementOfSeq
<1>3. NoHolidayHeld' <=>
        \A i \in DOMAIN positions' :
          IsOpen(positions'[i]) => ~HolidayBetween(day', positions'[i].exp, cfg'.blackout)
  BY DEF NoHolidayHeld, IsOpen, HolidayBetween
<1>4. ASSUME UNCHANGED <<day, cfg>>,
             \A i \in DOMAIN positions' : IsOpen(positions'[i]) => Unholy(positions'[i])
      PROVE  NoHolidayHeld'
  BY <1>3, <1>4 DEF Unholy
<1>5. ASSUME UNCHANGED <<day, cfg>>, IsOpen(Here), NEW q, Touches(q), q.exp = Here.exp \/ Unholy(q)
      PROVE  NoHolidayHeld'
  <2>1. Unholy(positions[at])
    BY <1>1, <1>5, TouchedList DEF Here
  <2>2. Unholy(q)
    BY <1>5, <2>1 DEF Unholy, Here
  <2>3. \A i \in DOMAIN positions' : IsOpen(positions'[i]) => Unholy(positions'[i])
    BY <1>1, <1>5, <2>2, TouchedList
  <2> QED
    BY <1>4, <1>5, <2>3
<1>6. ASSUME UNCHANGED <<day, cfg>>, Remain(positions, positions') PROVE NoHolidayHeld'
  <2>1. \A i \in DOMAIN positions' : IsOpen(positions'[i]) => Unholy(positions'[i])
    BY <1>1, <1>6 DEF Remain
  <2> QED
    BY <1>4, <1>6, <2>1
<1>7. CASE LookAt
  <2>1. UNCHANGED <<day, cfg>> /\ at =< Len(positions)
    BY <1>7 DEF LookAt, clock
  <2> QED
    BY <1>1, <1>5, <1>7, <2>1, HereIs, LookAtTouches
<1>8. CASE Bar \/ Roll \/ StopOut \/ StaleExit \/ Expire
  <2>1. UNCHANGED <<day, cfg>> /\ pc \in {"bars", "roll", "stops"}
    BY <1>8 DEF Bar, Roll, StopOut, StaleExit, Expire, clock
  <2>2. IsOpen(Here)
    BY <1>1, <2>1, HereIs DEF Looking, Morning
  <2>3. CASE Bar
    BY <1>1, <1>5, <2>1, <2>2, <2>3, BarTouches
  <2>4. CASE Roll
    <3>1. RollExpiration # None
      BY <1>1, <2>4, RollTouches
    <3>2. ~HolidayBetween(day, RollExpiration, cfg.blackout)
      BY <3>1 DEF RollExpiration
    <3>3. PICK q : Touches(q) /\ q.exp = RollExpiration
      BY <1>1, <2>4, RollTouches
    <3>4. Unholy(q)
      BY <3>2, <3>3 DEF Unholy
    <3> QED
      BY <1>5, <2>1, <2>2, <3>3, <3>4
  <2>5. CASE StopOut \/ StaleExit \/ Expire
    BY <1>1, <1>5, <2>1, <2>2, <2>5, StopsTouch
  <2> QED
    BY <1>8, <2>3, <2>4, <2>5
<1>9. CASE AddLeg
  <2>1. UNCHANGED <<day, cfg>> /\ at =< Len(positions)
    BY <1>9 DEF AddLeg, clock
  <2> QED
    BY <1>1, <1>5, <1>9, <2>1, HereIs, AddLegTouches
<1>10. CASE Open
  <2>1. UNCHANGED <<day, cfg>>
    BY <1>10 DEF Open, clock
  <2>2. EntryExpiration # None
    BY <1>1, <1>10, OpenAdds
  <2>3. ~HolidayBetween(day, EntryExpiration, cfg.blackout)
    BY <2>2 DEF EntryExpiration
  <2>4. PICK p : p \in Books /\ positions' = Append(positions, p) /\ p.exp = EntryExpiration
    BY <1>1, <1>10, OpenAdds
  <2>5. Unholy(p)
    BY <2>3, <2>4 DEF Unholy
  <2>6. \A i \in DOMAIN positions' : IsOpen(positions'[i]) => Unholy(positions'[i])
    BY <1>1, <2>4, <2>5, Appended
  <2> QED
    BY <1>4, <2>1, <2>6
<1>11. CASE BookExits
  <2>1. UNCHANGED <<day, cfg>>
    BY <1>11 DEF BookExits, clock
  <2> QED
    BY <1>1, <1>6, <1>11, <2>1, BookExitsIs
<1>12. CASE ForceClose
  <2>1. UNCHANGED <<day, cfg>>
    BY <1>12 DEF ForceClose, clock
  <2> QED
    BY <1>1, <1>6, <1>12, <2>1, ForceCloseIs
<1>13. CASE StartDay
  <2>1. positions' = positions /\ cfg' = cfg /\ day' \in Int /\ day' > day
    BY <1>13, EngineAssumption DEF StartDay
  <2>2. ASSUME NEW i \in DOMAIN positions, IsOpen(positions[i])
        PROVE  ~HolidayBetween(day', positions[i].exp, cfg.blackout)
    <3>1. positions[i].exp \in Int /\ Unholy(positions[i]) /\ day <= day'
      BY <1>1, <1>2, <2>1, <2>2, BookIs
    <3> QED
      BY <1>1, <2>1, <3>1, HolidaysPass DEF Unholy
  <2> QED
    BY <1>3, <2>1, <2>2
<1>14. CASE EndOfBars \/ NoRoll \/ Keep \/ NoLeg \/ StartScans \/ Scan \/ Pass \/ NextScan
  <2>1. UNCHANGED <<positions, day, cfg>>
    BY <1>14 DEF EndOfBars, NoRoll, Keep, NoLeg, StartScans, Scan, Pass, NextScan, clock
  <2> QED
    BY <1>1, <1>4, <2>1
<1>15. CASE EndDay \/ EndReplay \/ Finish \/ Done
  <2>1. UNCHANGED <<positions, day, cfg>>
    BY <1>15 DEF EndDay, EndReplay, Finish, Done, clock, vars
  <2> QED
    BY <1>1, <1>4, <2>1
<1> QED
  BY <1>7, <1>8, <1>9, <1>10, <1>11, <1>12, <1>13, <1>14, <1>15
     DEF Next, Exits, Entries, Calendar

-----------------------------------------------------------------------------
(* The invariant holds at first, and every step keeps it *)

LEMMA InvInit == Init => Inv
<1> SUFFICES ASSUME Init PROVE Inv
  OBVIOUS
<1>1. /\ positions = << >> /\ closed_positions = << >> /\ pc = "night"
      /\ balance = Capital /\ total_commissions = 0
  BY DEF Init
<1>2. DOMAIN positions = {} /\ DOMAIN closed_positions = {} /\ Len(positions) = 0
  BY <1>1
<1>3. Typed
  <2>1. MaxDays \in Nat /\ MaxPositions \in Nat /\ Capital \in Nat /\ DayStart \in Int
    BY EngineAssumption
  <2>2. day = 0 - 1 /\ seen = 0 /\ opp_spread_val = 0 /\ at = 1 /\ now = DayStart /\ open_slots = 0
        /\ vix_bps_blocked = FALSE /\ cfg \in Configs
    BY DEF Init
  <2>3. positions \in Seq(Books) /\ closed_positions \in Seq(Deals)
    BY <1>1
  <2>4. /\ day \in Int /\ seen \in 0..MaxDays /\ opp_spread_val \in Int /\ at \in Nat \ {0}
        /\ now \in Int /\ open_slots \in 0..MaxPositions
    BY <2>1, <2>2
  <2>6. vix_bps_blocked \in BOOLEAN
    BY <2>2
  <2>5. balance \in Int /\ total_commissions \in Nat /\ pc \in Phases
    BY <1>1, <2>1 DEF Phases
  <2> QED
    BY <2>2, <2>3, <2>4, <2>5, <2>6 DEF Typed
<1>4. Scanned
  BY <1>1 DEF Scanned, Trading
<1>5. Looking
  BY <1>1, <1>2 DEF Looking, Morning
<1>6. Slots
  BY <1>1, <1>2, EngineAssumption DEF Slots, OneTradePerSymbol, Trading
<1>7. NoHolidayHeld
  BY <1>2 DEF NoHolidayHeld
<1>8. Booking
  <2>1. RollCosts = 0 /\ Lifecycles = 0
    BY <1>2, TotalOfNone DEF RollCosts, Lifecycles
  <2>2. BalanceIsLedger
    BY <1>1, <2>1, EngineAssumption DEF BalanceIsLedger
  <2> QED
    BY <1>2, <2>2 DEF Booking, TradesBooked
<1> QED
  BY <1>3, <1>4, <1>5, <1>6, <1>7, <1>8 DEF Inv

LEMMA InvNext == Inv /\ [Next]_vars => Inv'
<1> SUFFICES ASSUME Inv, [Next]_vars PROVE Inv'
  OBVIOUS
<1>1. CASE Next
  <2>1. Typed' /\ Scanned' /\ Looking' /\ Slots' /\ NoHolidayHeld'
    BY <1>1, TypedKept, ScannedKept, LookingKept, SlotsKept, HolidaysKept
  <2>2. Booking'
    BY <1>1, StepsOfBooks, BooksKept DEF Inv
  <2> QED
    BY <2>1, <2>2 DEF Inv
<1>2. CASE UNCHANGED vars
  <2>1. Typed'
    BY <1>2 DEF Inv, Typed, vars
  <2>2. Scanned'
    BY <1>2 DEF Inv, Scanned, vars
  <2>3. Looking'
    BY <1>2 DEF Inv, Looking, IsOpen, vars
  <2>4. Slots' /\ OneTradePerSymbol'
    BY <1>2 DEF Inv, Slots, OneTradePerSymbol, vars
  <2>5. NoHolidayHeld'
    BY <1>2 DEF Inv, NoHolidayHeld, IsOpen, HolidayBetween, vars
  <2>6. Booking'
    BY <1>2 DEF Inv, Booking, BalanceIsLedger, RollCosts, Lifecycles, TradesBooked, Booked, IsOpen, vars
  <2> QED
    BY <2>1, <2>2, <2>3, <2>4, <2>5, <2>6 DEF Inv
<1> QED
  BY <1>1, <1>2

-----------------------------------------------------------------------------
(* What may be held *)

LEMMA HoldingsFollow == Inv => HoldingsAllowed
<1> SUFFICES ASSUME Inv PROVE HoldingsAllowed
  OBVIOUS
<1>1. Typed /\ Looking /\ Slots /\ NoHolidayHeld
  BY DEF Inv
<1>2. \A i \in DOMAIN positions : positions[i] \in Books
  BY <1>1, ElementOfSeq DEF Typed
<1>3. TypeOK
  <2>1. ASSUME NEW i \in DOMAIN positions
        PROVE  /\ positions[i].credit > 0 /\ positions[i].total > 0 /\ positions[i].width > 0
               /\ positions[i].qty \in 1..MaxContracts /\ positions[i].rolls \in 0..RollMax
               /\ positions[i].exit \in Exitings
    <3>1. /\ positions[i].credit \in Nat \ {0} /\ positions[i].total \in Nat \ {0}
          /\ positions[i].width \in Nat \ {0} /\ positions[i].qty \in 1..MaxContracts
          /\ positions[i].rolls \in 0..RollMax /\ positions[i].exit \in Exitings
      BY <1>2, <2>1, BookIs
    <3> QED
      BY <3>1
  <2> QED
    BY <1>1, <2>1 DEF Typed, TypeOK, Phases, Morning, Trading
<1>4. NoneOutlivesExpiry
  BY <1>1 DEF Looking, Morning, NoneOutlivesExpiry
<1> QED
  BY <1>1, <1>3, <1>4 DEF HoldingsAllowed, Slots

-----------------------------------------------------------------------------
(* The summary of a replay that is over *)

LEMMA LifeIs ==
  ASSUME NEW trades \in Seq(Deals)
  PROVE  LET life == [i \in DOMAIN trades |-> trades[i].lifecycle]
         IN  /\ IsFiniteSet(DOMAIN trades) /\ DOMAIN trades = 1..Len(trades) /\ Len(trades) \in Nat
             /\ \A i \in DOMAIN trades : life[i] \in Int /\ life[i] = trades[i].lifecycle
             /\ Lives(trades) = SumFunctionOnSet(life, DOMAIN trades)
             /\ \A some : LifecycleOf(trades, some) = SumFunctionOnSet(life, some)
<1> DEFINE life == [i \in DOMAIN trades |-> trades[i].lifecycle]
<1>1. DOMAIN trades = 1..Len(trades) /\ Len(trades) \in Nat
  BY LenProperties
<1>2. IsFiniteSet(DOMAIN trades)
  BY <1>1, FS_Interval
<1>3. \A i \in DOMAIN trades : life[i] \in Int /\ life[i] = trades[i].lifecycle
  <2>1. \A i \in DOMAIN trades : trades[i] \in Deals
    BY ElementOfSeq
  <2>2. \A i \in DOMAIN trades : trades[i].lifecycle \in Int
    BY <2>1 DEF Deals
  <2> QED
    BY <2>2
<1>4. Lives(trades) = SumFunctionOnSet(life, DOMAIN trades)
  BY DEF Lives, SumFunction, SumFunctionOnSet, FoldFunction
<1> QED
  BY <1>1, <1>2, <1>3, <1>4 DEF LifecycleOf

\* The three classes count every trade once, and their sums have their signs.
LEMMA ClassesAre ==
  ASSUME NEW trades \in Seq(Deals)
  PROVE  LET won == LifecycleOf(trades, Winners(trades))
             lost == LifecycleOf(trades, Losers(trades))
         IN  /\ won \in Nat /\ lost \in Int /\ lost <= 0
             /\ Lives(trades) = won + lost
             /\ LifecycleOf(trades, DOMAIN trades) = won + lost
             /\ Cardinality(Winners(trades)) + Cardinality(Losers(trades))
                  + Cardinality(Breakeven(trades)) = Len(trades)
<1> DEFINE D == DOMAIN trades
           W == Winners(trades)
           L == Losers(trades)
           B == Breakeven(trades)
           life == [i \in DOMAIN trades |-> trades[i].lifecycle]
           Sum(S) == SumFunctionOnSet(life, S)
<1>1. /\ IsFiniteSet(D) /\ D = 1..Len(trades) /\ Len(trades) \in Nat
      /\ \A i \in D : life[i] \in Int /\ life[i] = trades[i].lifecycle
      /\ Lives(trades) = Sum(D) /\ \A some : LifecycleOf(trades, some) = Sum(some)
  BY LifeIs
<1>2. /\ W = {i \in D : life[i] > 0} /\ L = {i \in D : life[i] < 0} /\ B = {i \in D : life[i] = 0}
  BY <1>1 DEF Winners, Losers, Breakeven
<1> HIDE DEF W, L, B, life, D
<1>3. /\ W \cap L = {} /\ (W \cup L) \cap B = {} /\ (W \cup L) \cup B = D
      /\ W \subseteq D /\ L \subseteq D /\ B \subseteq D /\ W \cup L \subseteq D
  BY <1>1, <1>2
<1>4. IsFiniteSet(W) /\ IsFiniteSet(L) /\ IsFiniteSet(B) /\ IsFiniteSet(W \cup L)
  BY <1>1, <1>3, FS_Subset
<1>5. Sum(D) = Sum(W \cup L) + Sum(B)
  <2>1. \A i \in (W \cup L) \cup B : life[i] \in Int
    BY <1>1, <1>3
  <2>2. Sum((W \cup L) \cup B) = Sum(W \cup L) + Sum(B)
    BY <1>3, <1>4, <2>1, SumOfUnion
  <2> QED
    BY <1>3, <2>2
<1>6. Sum(W \cup L) = Sum(W) + Sum(L)
  BY <1>1, <1>3, <1>4, SumOfUnion
<1>7. Sum(W) \in Nat
  <2>1. \A i \in W : life[i] \in Nat
    BY <1>1, <1>2
  <2> QED
    BY <1>4, <2>1, SumIsNatural
<1>8. Sum(B) = 0
  <2> DEFINE none == 0
  <2>1. \A i \in B : life[i] \in none..none
    BY <1>2
  <2>2. none \in Int
    OBVIOUS
  <2> HIDE DEF none
  <2>3. /\ Sum(B) \in Int /\ Cardinality(B) \in Nat
        /\ none * Cardinality(B) <= Sum(B) /\ Sum(B) <= none * Cardinality(B)
    BY <1>4, <2>1, <2>2, SumBetween
  <2>4. none = 0
    BY DEF none
  <2> QED
    BY <2>3, <2>4
<1>9. Sum(L) \in Int /\ Sum(L) <= 0
  <2> DEFINE minus == [i \in L |-> 0 - life[i]]
             both == [i \in L |-> 0]
  <2>1. \A i \in L : minus[i] \in Nat /\ minus[i] \in Int /\ life[i] \in Int
                     /\ both[i] = life[i] + minus[i] /\ both[i] \in Int /\ both[i] \in Nat
    BY <1>1, <1>2, <1>3
  <2> HIDE DEF minus
  <2>2. SumFunctionOnSet(minus, L) \in Nat
    BY <1>4, <2>1, SumIsNatural
  <2>3. SumFunctionOnSet(both, L) = Sum(L) + SumFunctionOnSet(minus, L)
    <3> HIDE DEF both
    <3> QED
      BY <1>4, <2>1, SumOfBoth
  <2>4. SumFunctionOnSet(both, L) = 0
    <3> DEFINE none == 0
    <3>1. \A i \in L : both[i] \in none..none
      OBVIOUS
    <3>2. none \in Int
      OBVIOUS
    <3> HIDE DEF none, both
    <3>3. /\ SumFunctionOnSet(both, L) \in Int /\ Cardinality(L) \in Nat
          /\ none * Cardinality(L) <= SumFunctionOnSet(both, L)
          /\ SumFunctionOnSet(both, L) <= none * Cardinality(L)
      BY <1>4, <3>1, <3>2, SumBetween
    <3>4. none = 0
      BY DEF none
    <3> QED
      BY <3>3, <3>4
  <2>5. Sum(L) \in Int
    BY <1>4, <2>1, SumType
  <2> QED
    BY <2>2, <2>3, <2>4, <2>5
<1>10. Cardinality(W) + Cardinality(L) + Cardinality(B) = Len(trades)
  <2>1. Cardinality(W \cup L) = Cardinality(W) + Cardinality(L)
    <3>1. Cardinality(W \cup L) = Cardinality(W) + Cardinality(L) - Cardinality(W \cap L)
      BY <1>4, FS_Union
    <3>2. Cardinality(W \cap L) = 0
      BY <1>3, FS_EmptySet
    <3> QED
      BY <1>4, <3>1, <3>2, FS_CardinalityType
  <2>2. Cardinality(D) = Cardinality(W \cup L) + Cardinality(B)
    <3>1. Cardinality((W \cup L) \cup B)
            = Cardinality(W \cup L) + Cardinality(B) - Cardinality((W \cup L) \cap B)
      BY <1>4, FS_Union
    <3>2. Cardinality((W \cup L) \cap B) = 0
      BY <1>3, FS_EmptySet
    <3>3. Cardinality(D) = Cardinality((W \cup L) \cup B)
      BY <1>3
    <3>4. Cardinality(W \cup L) \in Nat /\ Cardinality(B) \in Nat
      BY <1>4, FS_CardinalityType
    <3> QED
      BY <3>1, <3>2, <3>3, <3>4
  <2>3. Cardinality(D) = Len(trades)
    BY <1>1, FS_Interval
  <2> QED
    BY <2>1, <2>2, <2>3
<1>11. /\ LifecycleOf(trades, W) = Sum(W) /\ LifecycleOf(trades, L) = Sum(L)
       /\ LifecycleOf(trades, D) = Sum(D)
  BY <1>1
<1>12. Sum(D) = Sum(W) + Sum(L)
  BY <1>5, <1>6, <1>7, <1>8, <1>9
<1> QED
  <2> HIDE DEF Sum
  <2>1. /\ Sum(W) \in Nat /\ Sum(L) \in Int /\ Sum(L) <= 0 /\ Lives(trades) = Sum(W) + Sum(L)
        /\ LifecycleOf(trades, D) = Sum(W) + Sum(L)
    BY <1>1, <1>7, <1>9, <1>11, <1>12
  <2> QED
    BY <1>10, <1>11, <2>1 DEF W, L, B, D

\* Trades that end in two different ways are no more than all of them.
LEMMA EndsApart ==
  ASSUME NEW trades \in Seq(Deals)
  PROVE  LET expired == {i \in DOMAIN trades : trades[i].exit = "expiration"}
             forced == {i \in DOMAIN trades : trades[i].exit = "end"}
         IN  /\ Cardinality(expired) + Cardinality(forced) =< Len(trades)
             /\ \A some : Cardinality(some \cap Winners(trades)) =< Cardinality(Winners(trades))
<1> DEFINE expired == {i \in DOMAIN trades : trades[i].exit = "expiration"}
           forced == {i \in DOMAIN trades : trades[i].exit = "end"}
<1>1. IsFiniteSet(DOMAIN trades) /\ DOMAIN trades = 1..Len(trades) /\ Len(trades) \in Nat
  BY LifeIs
<1>2. /\ expired \subseteq DOMAIN trades /\ forced \subseteq DOMAIN trades
      /\ expired \cap forced = {} /\ expired \cup forced \subseteq DOMAIN trades
  OBVIOUS
<1>3. IsFiniteSet(Winners(trades))
  BY <1>1, FS_Subset DEF Winners
<1>4. \A some : Cardinality(some \cap Winners(trades)) =< Cardinality(Winners(trades))
  <2> SUFFICES ASSUME NEW some
               PROVE  Cardinality(some \cap Winners(trades)) =< Cardinality(Winners(trades))
    OBVIOUS
  <2>1. some \cap Winners(trades) \subseteq Winners(trades)
    OBVIOUS
  <2> QED
    BY <1>3, <2>1, FS_Subset
<1>5. Cardinality(expired) + Cardinality(forced) =< Len(trades)
  <2> HIDE DEF expired, forced
  <2>1. IsFiniteSet(expired) /\ IsFiniteSet(forced)
    BY <1>1, <1>2, FS_Subset
  <2>2. Cardinality(expired \cup forced)
          = Cardinality(expired) + Cardinality(forced) - Cardinality(expired \cap forced)
    BY <2>1, FS_Union
  <2>3. Cardinality(expired \cap forced) = 0
    BY <1>2, FS_EmptySet
  <2>4. Cardinality(expired \cup forced) =< Cardinality(DOMAIN trades)
    BY <1>1, <1>2, FS_Subset
  <2>5. Cardinality(DOMAIN trades) = Len(trades)
    BY <1>1, FS_Interval
  <2>6. Cardinality(expired) \in Nat /\ Cardinality(forced) \in Nat
    BY <2>1, FS_CardinalityType
  <2> QED
    BY <1>1, <2>2, <2>3, <2>4, <2>5, <2>6
<1> QED
  BY <1>4, <1>5

LEMMA SummaryFollows == Inv => ResultsAddUp
<1> SUFFICES ASSUME Inv, pc = "done" PROVE ResultsAddUp
  BY DEF ResultsAddUp
<1> DEFINE trades == closed_positions
           won == LifecycleOf(trades, Winners(trades))
           lost == LifecycleOf(trades, Losers(trades))
           total == LifecycleOf(trades, DOMAIN trades)
           r == Results(trades)
           verdict == Verdict(trades)
           w == Cardinality(Winners(trades))
           l == Cardinality(Losers(trades))
           b == Cardinality(Breakeven(trades))
<1>1. /\ trades \in Seq(Deals) /\ balance \in Int /\ total_commissions \in Nat
      /\ positions = << >> /\ BalanceIsLedger /\ Capital \in Nat
  BY EngineAssumption DEF Inv, Typed, Looking, Booking
<1>2. RollCosts = 0
  <2>1. DOMAIN positions = {}
    BY <1>1
  <2> QED
    BY <2>1, TotalOfNone DEF RollCosts
<1>3. /\ won \in Nat /\ lost \in Int /\ lost <= 0 /\ Lives(trades) = won + lost
      /\ total = won + lost /\ w + l + b = Len(trades)
  BY <1>1, ClassesAre
<1> HIDE DEF won, lost, total, w, l, b
<1>4. balance = Capital + (won + lost) - total_commissions
  <2>1. balance = Capital + Lifecycles + RollCosts - total_commissions
    BY <1>1 DEF BalanceIsLedger
  <2>2. Lifecycles = won + lost
    BY <1>3, LedgerIs
  <2> QED
    BY <1>1, <1>2, <1>3, <2>1, <2>2
<1>5. /\ r.trades = Len(trades) /\ r.winners = w /\ r.losers = l /\ r.breakeven = b
      /\ r.gross_profit = won /\ r.gross_loss = lost /\ r.total_pnl = total
      /\ r.force_closed = Cardinality({i \in DOMAIN trades : trades[i].exit = "end"})
  BY DEF Results, won, lost, total, w, l, b
<1>6. /\ verdict.viable <=> lost = 0 \/ 10 * won >= 20 * (0 - lost)
      /\ verdict.borderline => lost = 0 \/ 10 * won >= 15 * (0 - lost)
      /\ verdict.profitable <=> balance > Capital
  <2> HIDE DEF r
  <2>1. r = Results(trades)
    BY DEF r
  <2> QED
    BY <1>5, <2>1 DEF Verdict
<1>7. verdict.viable \/ verdict.borderline => total >= 0
  <2> HIDE DEF verdict
  <2> QED
    BY <1>3, <1>6
<1>8. verdict.profitable => total > total_commissions
  <2> HIDE DEF verdict
  <2> QED
    BY <1>1, <1>3, <1>4, <1>6
<1>9. RollResults(trades).winners =< w /\ CondorResults(trades).winners =< w
  BY <1>1, EndsApart DEF RollResults, CondorResults, w
<1>10. StaleResults(trades).expired + r.force_closed =< Len(trades)
  BY <1>1, <1>5, EndsApart DEF StaleResults
<1>11. Capital + won + lost = balance + total_commissions
  BY <1>1, <1>3, <1>4
<1> HIDE DEF r, verdict, trades
<1>12. trades = closed_positions /\ r = Results(trades) /\ verdict = Verdict(trades)
  BY DEF r, verdict, trades
<1> QED
  BY <1>3, <1>5, <1>7, <1>8, <1>9, <1>10, <1>11, <1>12 DEF ResultsAddUp

LEMMA MoneyFollows == Inv => MoneyIsBooked
BY SummaryFollows DEF Inv, Booking, MoneyIsBooked

-----------------------------------------------------------------------------
(* What may be traded *)

\* A step that leaves the trades, looks at one, or drops some: none is rolled by it.
Holds ==
  \/ positions' = positions
  \/ \E q : Touches(q) /\ q.rolls = Here.rolls
  \/ Remain(positions, positions') /\ Len(positions') <= Len(positions)

LEMMA StepKinds ==
  ASSUME Inv, Next
  PROVE  Holds \/ Roll \/ Open
<1>1. /\ Typed /\ Looking /\ Scanned /\ AllBooked(positions) /\ AllSettled(closed_positions)
  BY LedgerIs DEF Inv, Booking, AllBooked
<1>2. CASE LookAt \/ Bar
  BY <1>1, <1>2, LookAtTouches, BarTouches DEF Holds
<1>3. CASE StopOut \/ StaleExit \/ Expire \/ AddLeg
  BY <1>1, <1>3, StopsTouch, AddLegTouches DEF Holds
<1>4. CASE BookExits \/ ForceClose
  BY <1>1, <1>4, BookExitsIs, ForceCloseIs DEF Holds
<1>5. CASE EndOfBars \/ NoRoll \/ Keep \/ NoLeg \/ StartScans \/ Scan \/ Pass \/ NextScan
  <2>1. positions' = positions
    BY <1>5 DEF EndOfBars, NoRoll, Keep, NoLeg, StartScans, Scan, Pass, NextScan
  <2> QED
    BY <2>1 DEF Holds
<1>6. CASE StartDay \/ EndDay \/ EndReplay \/ Finish \/ Done
  <2>1. positions' = positions
    BY <1>6 DEF StartDay, EndDay, EndReplay, Finish, Done, vars
  <2> QED
    BY <2>1 DEF Holds
<1> QED
  BY <1>2, <1>3, <1>4, <1>5, <1>6 DEF Next, Exits, Entries, Calendar

Opening ==
  Len(positions') > Len(positions) =>
    LET p == Last(positions')
    IN  \E i \in DOMAIN feed.rows :
          LET row == feed.rows[i]
          IN  /\ Sym(row) = p.sym /\ row.time \in (now - SignalTtl)..now
              /\ p.dir = "bullish" => Sentiment(row) = "bullish"

LEMMA OpeningHolds ==
  ASSUME Inv, Next
  PROVE  Opening
<1> SUFFICES ASSUME Len(positions') > Len(positions) PROVE Opening
  BY DEF Opening
<1>1. Typed /\ Scanned /\ positions \in Seq(Books) /\ Len(positions) \in Nat
  BY LenProperties DEF Inv, Typed
<1>2. ~Holds
  <2>1. \A q : Touches(q) => Len(positions') = Len(positions)
    BY <1>1, TouchedList
  <2> QED
    BY <1>1, <2>1 DEF Holds
<1>3. ~Roll
  <2>1. ASSUME Roll PROVE FALSE
    <3>1. Looking
      BY DEF Inv
    <3>2. PICK q : Touches(q)
      BY <1>1, <2>1, <3>1, RollTouches
    <3> QED
      BY <1>1, <3>2, TouchedList
  <2> QED
    BY <2>1
<1>4. Open
  BY <1>2, <1>3, StepKinds
<1>5. PICK p : /\ p \in Books /\ positions' = Append(positions, p)
               /\ p.sym = Signal.sym /\ p.dir = DirectionOf(Signal)
  BY <1>1, <1>4, OpenAdds
<1>6. Last(positions') = p
  <2>1. /\ Append(positions, p) \in Seq(Books) /\ Len(Append(positions, p)) = Len(positions) + 1
        /\ Append(positions, p)[Len(positions) + 1] = p
    BY <1>1, <1>5, Appended
  <2> QED
    BY <1>5, <2>1 DEF Last
<1>7. Backed(Range(feed.rows), now, Signal)
  BY <1>1, <1>4, SignalIs DEF Open
<1>8. PICK row \in Range(feed.rows) :
        /\ Sym(row) = Signal.sym /\ Fresh(row, now)
        /\ Signal.dir = "bullish" => Sentiment(row) = "bullish"
  BY <1>7 DEF Backed
<1>9. PICK i \in DOMAIN feed.rows : row = feed.rows[i]
  BY <1>8 DEF Range
<1>10. p.dir = "bullish" => Signal.dir = "bullish"
  BY <1>5 DEF DirectionOf
<1>11. /\ Sym(feed.rows[i]) = p.sym /\ feed.rows[i].time \in (now - SignalTtl)..now
       /\ p.dir = "bullish" => Sentiment(feed.rows[i]) = "bullish"
  BY <1>5, <1>8, <1>9, <1>10 DEF Fresh
<1> HIDE DEF Sym, Sentiment, Last
<1> QED
  BY <1>6, <1>11 DEF Opening

Extending ==
  \A i \in DOMAIN positions \cap DOMAIN positions' :
    LET p == positions[i]
        rolled == positions'[i]
    IN  rolled.sym = p.sym /\ rolled.rolls > p.rolls =>
          /\ rolled.exp - day >= RollMinDte
          /\ cfg.rollDte < RollMinDte => rolled.exp > p.exp

LEMMA ExtendingHolds ==
  ASSUME Inv, Next
  PROVE  Extending
<1> SUFFICES ASSUME NEW i \in DOMAIN positions, i \in DOMAIN positions',
                    positions'[i].sym = positions[i].sym,
                    positions'[i].rolls > positions[i].rolls
             PROVE  /\ positions'[i].exp - day >= RollMinDte
                    /\ cfg.rollDte < RollMinDte => positions'[i].exp > positions[i].exp
  BY DEF Extending
<1>1. /\ Typed /\ Scanned /\ Looking /\ positions \in Seq(Books) /\ Single(positions)
      /\ day \in Int /\ cfg \in Options
  BY EngineAssumption DEF Inv, Typed, Slots, OneTradePerSymbol, Single
<1>2. positions[i] \in Books /\ positions[i].rolls \in Nat /\ positions[i].exp \in Int
  BY <1>1, ElementOfSeq, BookIs
<1>3. ~Holds
  <2>1. positions' # positions
    BY <1>2
  <2>2. ASSUME NEW q, Touches(q), q.rolls = Here.rolls PROVE FALSE
    BY <1>1, <1>2, <2>2, TouchedList DEF Here
  <2>3. ASSUME Remain(positions, positions') PROVE FALSE
    <3>1. PICK j \in DOMAIN positions : positions'[i] = positions[j]
      BY <2>3 DEF Remain
    <3>2. i = j
      BY <1>1, <3>1 DEF Single
    <3> QED
      BY <1>2, <3>1, <3>2
  <2> QED
    BY <2>1, <2>2, <2>3 DEF Holds
<1>4. ~Open
  <2>1. ASSUME Open PROVE FALSE
    <3>1. PICK p : p \in Books /\ positions' = Append(positions, p)
      BY <1>1, <2>1, OpenAdds
    <3>2. positions'[i] = positions[i]
      BY <1>1, <3>1, Appended
    <3> QED
      BY <1>2, <3>2
  <2> QED
    BY <2>1
<1>5. Roll
  BY <1>3, <1>4, StepKinds
<1>6. PICK q : Touches(q) /\ q.exp = RollExpiration
  BY <1>1, <1>5, RollTouches
<1>7. /\ RollExpiration \in Int /\ RollExpiration - day >= RollMinDte /\ RollWanted(Here)
  BY <1>1, <1>5, RollTouches
<1>8. i = at /\ positions'[i] = q /\ Here = positions[i]
  <2>1. ASSUME i # at PROVE FALSE
    <3>1. positions'[i] = positions[i]
      BY <1>1, <1>6, <2>1, TouchedList
    <3> QED
      BY <1>2, <3>1
  <2> QED
    BY <1>1, <1>6, <2>1, TouchedList
<1>9. positions[i].exp - day =< cfg.rollDte
  BY <1>7, <1>8 DEF RollWanted
<1>10. cfg.rollDte \in Int /\ RollMinDte \in Nat
  BY <1>1, SpreadAssumption DEF Options
<1> HIDE DEF RollExpiration
<1> QED
  BY <1>1, <1>2, <1>6, <1>7, <1>8, <1>9, <1>10

-----------------------------------------------------------------------------
(* The theorems *)

\* The inductive invariant holds in every state of a back-test.
THEOREM ReplayInv == Spec => []Inv
BY InvInit, InvNext, PTL DEF Spec

\* The money of a back-test is booked once: the balance is the capital, what the closed trades
\* made over their lives and what the open ones paid for their rolls, less the commissions
\* (process_day, _execute_roll, force_close_remaining); the profit of a trade that was never
\* rolled is the money it moved; and print_results splits all of it into classes that count
\* every trade once.
THEOREM MoneyBooked == Spec => []MoneyIsBooked
BY ReplayInv, MoneyFollows, PTL

\* What a back-test holds, at any point of a day: trades of their types, one of a symbol and no
\* more than MaxPositions in all, none past its expiration once the day's exits are done, none
\* over a holiday of the blackout (process_day, _find_roll_target, has_holiday_in_range).
THEOREM HoldingsHold == Spec => []HoldingsAllowed
BY ReplayInv, HoldingsFollow, PTL

\* What a back-test trades: a trade is opened on a row of the day's flow that has come, is fresh
\* and leans its way unless the market turned it (get_actionable), and a roll ends a week from
\* its day or later (_find_roll_target), later than the trade did if --roll-max-dte is less.
THEOREM TradesHold == Spec => TradesAllowed
<1>1. ASSUME Inv, [Next]_vars PROVE [Opening]_vars /\ [Extending]_vars
  <2>1. CASE Next
    BY <1>1, <2>1, OpeningHolds, ExtendingHolds
  <2>2. CASE UNCHANGED vars
    BY <2>2
  <2> QED
    BY <1>1, <2>1, <2>2
<1>2. [][Opening]_vars => OpensOnSignal
  BY PTL DEF OpensOnSignal, Opening
<1>3. [][Extending]_vars => RollsExtend
  BY PTL DEF RollsExtend, Extending
<1> QED
  BY <1>1, <1>2, <1>3, ReplayInv, PTL DEF Spec, TradesAllowed
=================================================================================
