---------------------------- MODULE RegimeSignals ----------------------------
(***************************************************************************)
(* What one tick makes of the market (bot/regime): the term structure of   *)
(* the VIX, the trend of SPY's daily bars, the account's drawdown, the     *)
(* concentration of the book, the flow, and the scores derived from them.  *)
(*                                                                         *)
(* Fractions are in ten-thousandths, the four places Python rounds to.     *)
(***************************************************************************)
EXTENDS Integers, Sequences, FiniteSets, FiniteSetsExt, SequencesExt

CONSTANTS
  None,           \* unknown
  ShortN, LongN,  \* days of the moving averages of trend_bias
  MaN,            \* and of trend_regime
  AtrN,           \* days of the average true range
  Lookback,       \* of the rank of the VIX
  Extreme         \* net premium of a one-sided flow

ASSUME SignalAssumption ==
  /\ {ShortN, LongN, MaN, AtrN, Lookback} \subseteq Nat \ {0} /\ ShortN <= LongN
  /\ Extreme \in Nat \ {0}

Unit == 10000

\* Python's round of a / b: a half goes to the even neighbour.
Rounded(a, b) ==
  LET down == a \div b
      rest == 2 * (a % b)
  IN  IF rest < b \/ (rest = b /\ down % 2 = 0) THEN down ELSE down + 1

Total(numbers) == SumFunction(numbers)
Latest(s, n) == SubSeq(s, Max({1, Len(s) - n + 1}), Len(s))
When(condition, x) == IF condition THEN <<x>> ELSE << >>

-----------------------------------------------------------------------------
(* vix_term *)

NoTerm == [level |-> None, rank |-> None, slope |-> None]

\* Below zero when the front is dearer than three months out.
TermSlope(front, third) ==
  IF front = 0 \/ third = 0 THEN 0 ELSE Rounded(Unit * (third - front), front)

PctRank(latest, series) ==
  IF series = << >> THEN None
  ELSE Rounded(Unit * Cardinality({i \in DOMAIN series : series[i] <= latest}), Len(series))

Term(vix, third) ==
  [level |-> Last(vix),
   rank  |-> PctRank(Last(vix), Latest(vix, Lookback)),
   slope |-> IF third = << >> THEN 0 ELSE TermSlope(Last(vix), Last(third))]

-----------------------------------------------------------------------------
(* trend: bars are [high, low, close], oldest first *)

Closes(bars) == [i \in DOMAIN bars |-> bars[i].close]

\* A thousandth on either side of an average counts as on it.
Above(c, closes) == 1000 * c * Len(closes) > 1001 * Total(closes)
Below(c, closes) == 1000 * c * Len(closes) < 999 * Total(closes)

TrendBias(closes) ==
  LET c == Last(closes)
      short == Latest(closes, ShortN)
      long == IF Len(closes) >= LongN THEN Latest(closes, LongN) ELSE short
  IN  IF Len(closes) < ShortN THEN "neutral"
      ELSE IF Above(c, short) /\ Above(c, long) THEN "up"
      ELSE IF Below(c, short) /\ Below(c, long) THEN "down"
      ELSE "neutral"

TrendRegime(closes) ==
  IF Len(closes) < MaN THEN "unknown"
  ELSE IF MaN * Last(closes) > Total(Latest(closes, MaN)) THEN "risk_on" ELSE "risk_off"

Distance(a, b) == Max({a - b, b - a})

TrueRange(bars, i) ==
  LET bar == bars[i]
      before == {bars[j].close : j \in {i - 1} \cap DOMAIN bars}
  IN  Max({bar.high - bar.low} \cup {Distance(bar.high, c) : c \in before}
                               \cup {Distance(bar.low, c) : c \in before})

AverageTrueRange(bars) ==
  LET window == Latest([i \in DOMAIN bars |-> TrueRange(bars, i)], AtrN)
  IN  Rounded(Unit * Total(window), Len(window))

AtrPct(bars) ==
  IF bars = << >> \/ Last(bars).close = 0 THEN None
  ELSE Rounded(AverageTrueRange(bars), Last(bars).close)

-----------------------------------------------------------------------------
(* the account, the book and the flow *)

DrawdownFromPeak(equity, peak) ==
  IF peak <= 0 THEN 0 ELSE Rounded(Unit * Max({0, peak - equity}), peak)

\* The share of the book in its most crowded expiry and band of three strikes.
Bucket(position) == <<position.expiry, position.short \div 3>>

ConcentrationScore(book) ==
  LET crowd(i) == Cardinality({j \in DOMAIN book : Bucket(book[j]) = Bucket(book[i])})
  IN  IF book = << >> THEN 0 ELSE Rounded(Unit * Max({crowd(i) : i \in DOMAIN book}), Len(book))

NoFlow == [bias |-> "neutral", extreme |-> FALSE]

\* The latest bucket of the market tide, its net call less its net put premium.
MarketTide(rows) ==
  LET sentiment == Last(rows)
  IN  IF rows = << >> \/ sentiment = 0 THEN NoFlow
      ELSE [bias |-> IF sentiment > 0 THEN "bullish" ELSE "bearish",
            extreme |-> Distance(sentiment, 0) >= Extreme]

-----------------------------------------------------------------------------
(* scorer *)

StressComponents(term, bias, extreme) ==
     When(term.rank # None, Max({0, 2 * term.rank - Unit}))
  \o When(term.slope # None /\ term.slope < 0, Min({Unit, 10 * Distance(term.slope, 0)}))
  \o When(bias = "down", Unit)
  \o When(extreme, Unit)

Score(term, atr, closes, drawdown, concentration, flow) ==
  LET parts == StressComponents(term, TrendBias(closes), flow.extreme)
      stress == IF parts = << >> THEN 0 ELSE Rounded(Total(parts), Len(parts))
      kill == drawdown >= Unit \div 10
      degross == IF kill THEN Unit ELSE IF drawdown >= 600 THEN Unit \div 2 ELSE 0
  IN  [term |-> term, atr |-> atr, bias |-> TrendBias(closes), trend |-> TrendRegime(closes),
       drawdown |-> drawdown, concentration |-> concentration, flow |-> flow,
       stress |-> stress, size |-> Rounded(2 * Unit - stress, 2), widen |-> Rounded(stress, 2),
       degross |-> degross, kill |-> kill,
       pause |-> kill \/ degross > 0 \/ stress >= 6000 \/ flow.extreme]

\* RegimeState(): nothing is known, nothing is asked for.
Neutral ==
  [term |-> NoTerm, atr |-> None, bias |-> "neutral", trend |-> "unknown",
   drawdown |-> 0, concentration |-> 0, flow |-> NoFlow,
   stress |-> 0, size |-> Unit, widen |-> 0, degross |-> 0, kill |-> FALSE, pause |-> FALSE]

RegimeOf(term, bars, book, equity, peak, flow) ==
  Score(term, AtrPct(bars), Closes(bars), DrawdownFromPeak(equity, peak), ConcentrationScore(book), flow)
=============================================================================
