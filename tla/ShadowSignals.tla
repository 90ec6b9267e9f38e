---------------------------- MODULE ShadowSignals ----------------------------
(***************************************************************************)
(* The shadow monitor's signals (shadow_data of bot/app/wiring.py) and the *)
(* caution score made of them (bot/regime/shadow_monitor.py).  A feed that *)
(* fails leaves None, and so does what is derived from it.                 *)
(*                                                                         *)
(* Prices are in cents, returns and ratios in ten-thousandths, deltas in   *)
(* hundredths.                                                             *)
(***************************************************************************)
EXTENDS RegimeSignals

CONSTANTS
  Basket,                     \* the symbols of the bulk quote
  OpeningBars,                \* minutes of the opening range
  TargetDelta, MinDelta, MaxDelta,
  Cushion                     \* average true ranges the short put is out of the money, hundredths

ASSUME ShadowAssumption ==
  /\ {"SPY", "QQQ", "DIA", "SOXX", "VIX", "VIX1D"} \subseteq Basket
  /\ OpeningBars \in Nat \ {0} /\ TargetDelta \in Nat

Maybe(S) == S \cup {None}

Minus(a, b) == IF a = None \/ b = None THEN None ELSE a - b
Ratio(a, b) == IF a = None \/ b = None \/ b = 0 THEN None ELSE Rounded(Unit * a, b)

-----------------------------------------------------------------------------
(* shadow_data *)

NoQuote == [last |-> None, high |-> None, change |-> None]

\* A bulk quote that breaks off keeps the symbols read before.
BasketQuotes(quotes) ==
  [s \in Basket |-> IF \E q \in Range(quotes) : q.sym = s
                    THEN LET q == CHOOSE q \in Range(quotes) : q.sym = s
                         IN  [last |-> q.last, high |-> q.high, change |-> q.change]
                    ELSE NoQuote]

\* Minute bars are [high, low, close, volume]; the typical price is a third of their sum.
Session(bars) ==
  LET opening == SubSeq(bars, 1, Min({OpeningBars, Len(bars)}))
      volume == Total([i \in DOMAIN bars |-> bars[i].volume])
      value == Total([i \in DOMAIN bars |->
                        (bars[i].high + bars[i].low + bars[i].close) * bars[i].volume])
  IN  IF bars = << >> THEN [vwap |-> None, orHigh |-> None, orLow |-> None]
      ELSE [vwap   |-> IF volume > 0 THEN Rounded(value, 3 * volume) ELSE None,
            orHigh |-> Max({b.high : b \in Range(opening)}),
            orLow  |-> Min({b.low : b \in Range(opening)})]

\* feeds.parse_chain and _fetch_put_greeks keep the puts that have a delta and both sides.
Usable(option) == option.put /\ option.delta # None /\ option.bid # None /\ option.ask # None
Kept(chain) == {i \in DOMAIN chain : Usable(chain[i])}
ReadPut(option, iv) == [strike |-> option.strike, delta |-> Distance(option.delta, 0), iv |-> iv]

\* The volatility of the middle price; parse_chain takes no zero, _fetch_put_greeks has a second source.
ParsedIv(option) == IF option.mid # None /\ option.mid > 0 THEN option.mid ELSE None
GreeksIv(option) == IF option.mid # None THEN option.mid ELSE option.smv
ParsedPuts(chain) == [i \in Kept(chain) |-> ReadPut(chain[i], ParsedIv(chain[i]))]
GreeksPuts(chain) == [i \in Kept(chain) |-> ReadPut(chain[i], GreeksIv(chain[i]))]

\* The first of the strikes whose delta is nearest the target.
NearestDelta(puts, eligible) ==
  LET off(i) == Distance(puts[i].delta, TargetDelta)
      near == {i \in eligible : \A j \in eligible : off(i) <= off(j)}
  IN  IF eligible = {} THEN None ELSE puts[Min(near)]

Cushioned(puts, spot, atr) ==
  {i \in DOMAIN puts : /\ puts[i].strike < spot
                       /\ 100 * (spot - puts[i].strike) >= Cushion * atr
                       /\ puts[i].delta \in MinDelta..MaxDelta}

\* strategy/s2b.py, what an entry sells.
SelectShortPut(chain, spot, atr) ==
  LET puts == ParsedPuts(chain)
  IN  IF atr <= 0 THEN None ELSE NearestDelta(puts, Cushioned(puts, spot, atr))

\* Mutant: the shadow monitor looks at calls as well.
ShadowShortOfAny(chain, spot, atr) ==
  LET all == [i \in DOMAIN chain |-> [strike |-> chain[i].strike, iv |-> chain[i].mid,
                                      delta |-> IF chain[i].delta = None THEN 0 ELSE Distance(chain[i].delta, 0)]]
  IN  IF chain = << >> \/ atr = None \/ atr = 0 \/ spot = None THEN None
      ELSE NearestDelta(all, Cushioned(all, spot, atr))

\* _select_shadow_short, which mirrors it on what shadow_data could read.
ShadowShort(chain, spot, atr) ==
  LET puts == GreeksPuts(chain)
  IN  IF Kept(chain) = {} \/ atr = None \/ atr = 0 \/ spot = None THEN None
      ELSE NearestDelta(puts, Cushioned(puts, spot, atr))

\* The implied volatility of the lowest strike below the short one, less the short one's.
PutSkew(puts, short) ==
  LET far == {i \in DOMAIN puts : puts[i].strike < short.strike /\ puts[i].iv # None}
      lowest == {i \in far : \A j \in far : puts[i].strike <= puts[j].strike}
  IN  IF short.iv = None \/ far = {} THEN None ELSE puts[Min(lowest)].iv - short.iv

\* What one tick reads; the sessions and quotes that are only passed on are left out.
ShadowData(spot, atr, quotes, bars, chain) ==
  [spot |-> spot, atr |-> atr, quotes |-> BasketQuotes(quotes), session |-> Session(bars),
   short |-> ShadowShort(chain, spot, atr), puts |-> GreeksPuts(chain)]

Signals(raw) ==
  LET q == raw.quotes
  IN  [fromVwap |-> Ratio(Minus(raw.spot, raw.session.vwap), raw.atr),
       fromHigh |-> Ratio(Minus(q["SPY"].high, raw.spot), raw.atr),
       vixRatio |-> Ratio(q["VIX1D"].last, q["VIX"].last),
       qqqDia   |-> Minus(q["QQQ"].change, q["DIA"].change),
       soxxSpy  |-> Minus(q["SOXX"].change, q["SPY"].change),
       session  |-> raw.session,
       short    |-> raw.short,
       skew     |-> IF raw.short = None THEN None ELSE PutSkew(raw.puts, raw.short)]

-----------------------------------------------------------------------------
(* shadow_caution_score *)

Clamp(x) == Max({0, Min({Unit, x})})

\* Stretched over the average price, at the high of the day, an inverted VIX, weak breadth.
Components(s) ==
     When(s.fromVwap # None, Clamp(Rounded(2 * s.fromVwap, 3)))
  \o When(s.fromHigh # None, Clamp(Unit - s.fromHigh))
  \o When(s.vixRatio # None, Clamp(Rounded(100 * (s.vixRatio - 8500), 35)))
  \o When(s.qqqDia # None, Clamp(0 - 100 * s.qqqDia))
  \o When(s.soxxSpy # None, Clamp(0 - 100 * s.soxxSpy))

CautionScore(s) ==
  LET parts == Components(s)
  IN  IF parts = << >> THEN 0 ELSE Rounded(Total(parts), Len(parts))

Thresholds == <<2000, 3500, 5000, 6500, 8000, 9000>>

\* The rung of the ladder: 1 is "normal", 7 "activate_bearish".
Action(score) == 1 + Cardinality({i \in DOMAIN Thresholds : Thresholds[i] <= score})
=============================================================================
