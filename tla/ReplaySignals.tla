---------------------------- MODULE ReplaySignals ----------------------------
(***************************************************************************)
(* The flow signals of the back-test (simulations/engine_v345.py): rows of *)
(* the flow file become alerts (FlowAlert), the day's alerts are           *)
(* deduplicated (run), and SignalAggregator turns those of the last        *)
(* minutes into a short list of symbols with a direction.                  *)
(*                                                                         *)
(* A row is [ticker, call, sales, quality, premium, spot, time]: a row of  *)
(* an index counts for its ETF, whose price is a fraction of the index.    *)
(* Time is counted in ticks from the open, weights in tenths, and premium  *)
(* decays over Fade ticks.                                                 *)
(***************************************************************************)
EXTENDS Integers, Sequences, FiniteSets, FiniteSetsExt, SequencesExt, Functions

CONSTANTS
  None,                   \* Python's None
  Watchlist, Blacklist,   \* symbols
  Etf,                    \* index tickers to [sym, parts]
  MinPremium,             \* of an alert
  MinActionable,          \* weighted premium of a symbol
  MinAlerts,              \* alerts of a symbol in its direction
  SignalTtl, MaxAge,      \* how long an alert counts, and may be the last one
  Fade                    \* ticks over which premium fades to a fifth

ASSUME SignalAssumption ==
  /\ {MinPremium, MinActionable, MinAlerts, SignalTtl, MaxAge} \subseteq Nat
  /\ Fade \in Nat \ {0}
  /\ \A ticker \in DOMAIN Etf : Etf[ticker].parts \in Nat \ {0}
  /\ None \notin Int

(***************************************************************************)
(* Lists: what rank puts in order, what a comprehension keeps, and a list  *)
(* sorted, by the least key first and stably.                              *)
(***************************************************************************)
Arranged(list, rank) ==
  [k \in 1..Cardinality(DOMAIN rank) |-> list[CHOOSE i \in DOMAIN rank : rank[i] = k]]

Kept(list, some) == Arranged(list, [i \in some |-> Cardinality({j \in some : j =< i})])

Sorted(list, key) ==
  Arranged(list, [i \in DOMAIN list |->
                    Cardinality({j \in DOMAIN list : key[j] < key[i] \/ (key[j] = key[i] /\ j =< i)})])

Directions == {"bullish", "bearish"}
Sentiment(row) == IF row.call # row.sales THEN "bullish" ELSE "bearish"

Qualities == {"golden_sweep", "highly_unusual", "unusual", "aggressive", "sweep", "block"}

Weight(row) ==
  [golden_sweep |-> 50, highly_unusual |-> 30, unusual |-> 20, aggressive |-> 15,
   sweep |-> 12, block |-> 10][row.quality]

Sym(row) == IF row.ticker \in DOMAIN Etf THEN Etf[row.ticker].sym ELSE row.ticker
Spot(row) == IF row.ticker \in DOMAIN Etf THEN row.spot \div Etf[row.ticker].parts ELSE row.spot

\* Two files may hold the same row.
SameAlert(a, b) == a.time = b.time /\ a.ticker = b.ticker /\ Sentiment(a) = Sentiment(b)

Deduped(rows) == Kept(rows, {i \in DOMAIN rows : \A j \in 1..i-1 : ~SameAlert(rows[j], rows[i])})

Accepted(row) == row.premium >= MinPremium /\ Sym(row) \in Watchlist

\* Mutant: an alert counts before it has come.
InSightTooEarly(rows, now) ==
  Kept(rows, {i \in DOMAIN rows : Accepted(rows[i]) /\ rows[i].time >= now - SignalTtl})

InSight(rows, now) ==
  Kept(rows, {i \in DOMAIN rows : Accepted(rows[i]) /\ rows[i].time \in (now - SignalTtl)..now})

Effective(row, now) == row.premium * Weight(row) * Max({Fade \div 5, Fade - (now - row.time)})

Flow(rows, some, now) == SumFunctionOnSet([i \in DOMAIN rows |-> Effective(rows[i], now)], some)

Profile(rows, sym, now) ==
  LET mine == {i \in DOMAIN rows : Sym(rows[i]) = sym}
      bulls == {i \in mine : Sentiment(rows[i]) = "bullish"}
      bears == mine \ bulls
      bull == Flow(rows, bulls, now)
      bear == Flow(rows, bears, now)
      priced == {i \in mine : Spot(rows[i]) > 0}
  IN  [sym |-> sym, bull |-> bull, bear |-> bear,
       dir |-> IF bull > bear THEN "bullish" ELSE "bearish",
       dominant |-> Max({bull, bear}),
       count |-> Cardinality(IF bull > bear THEN bulls ELSE bears),
       freshest |-> Max({rows[i].time : i \in mine}),
       spot |-> IF priced = {} THEN 0 ELSE Spot(rows[Max(priced)])]

Convinced(profile, percent) == 100 * profile.dominant >= percent * (profile.bull + profile.bear)

Qualifies(profile, now) ==
  /\ profile.bull + profile.bear > 0
  /\ profile.dominant >= MinActionable
  /\ profile.count >= MinAlerts
  /\ Convinced(profile, 90)
  /\ now - profile.freshest =< MaxAge
  /\ profile.sym \notin Blacklist

BullFlow(profiles) == SumFunction([i \in DOMAIN profiles |-> profiles[i].bull])
BearFlow(profiles) == SumFunction([i \in DOMAIN profiles |-> profiles[i].bear])

\* More than this share of the flow is bearish.
BearishBeyond(profiles, percent) ==
  100 * BearFlow(profiles) > percent * (BullFlow(profiles) + BearFlow(profiles))
BullishBeyond(profiles, percent) ==
  100 * BullFlow(profiles) > percent * (BullFlow(profiles) + BearFlow(profiles))

\* Three symbols make a market: who goes against it must be nearly unanimous.
Coherent(profiles) ==
  LET bias == IF BearishBeyond(profiles, 52) THEN "bearish"
              ELSE IF BullishBeyond(profiles, 52) THEN "bullish" ELSE "neutral"
  IN  IF Len(profiles) < 3 \/ bias = "neutral" THEN profiles
      ELSE Kept(profiles, {i \in DOMAIN profiles : profiles[i].dir = bias \/ Convinced(profiles[i], 95)})

\* One profile for each symbol, in the order of their first alerts.
Profiles(seen, now) ==
  LET firsts == Kept(seen, {i \in DOMAIN seen : \A j \in 1..i-1 : Sym(seen[j]) # Sym(seen[i])})
  IN  [k \in DOMAIN firsts |-> Profile(seen, Sym(firsts[k]), now)]

\* Strongest first, ten at most.
Actionable(rows, now) ==
  LET profiles == Profiles(InSight(rows, now), now)
      best == Kept(profiles, {k \in DOMAIN profiles : Qualifies(profiles[k], now)})
      kept == Coherent(Sorted(best, [k \in DOMAIN best |-> 0 - best[k].dominant]))
  IN  SubSeq(kept, 1, Min({10, Len(kept)}))
=============================================================================
