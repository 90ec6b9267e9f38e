---------------------------- MODULE ReplaySpreads ----------------------------
(***************************************************************************)
(* Which spread the back-test sells (simulations/engine_v345.py): the      *)
(* weekly expiration, the strikes (_find_spread, _find_roll_target,        *)
(* _build_opposite_spread) and the contracts.                              *)
(*                                                                         *)
(* Days are counted from a Monday.  Strikes and spots are in half dollars, *)
(* the targets that strikes are compared with in hundredths of those.      *)
(***************************************************************************)
EXTENDS ReplaySignals

CONSTANTS
  MinDte, MaxDte,           \* of an entry
  RollMinDte, RollMaxDte,   \* of the expiration a trade is rolled to
  IcMinDte, IcMaxDte,       \* of a second leg with an expiration of its own
  Clusters, SingleHolidays, \* days
  SizePercent, MaxContracts

ASSUME SpreadAssumption ==
  /\ {MinDte, MaxDte, RollMaxDte, IcMinDte, IcMaxDte} \subseteq Nat /\ RollMinDte \in Nat \ {0}
  /\ SizePercent \in 0..100 /\ MaxContracts \in Nat \ {0}

Friday == 4

\* The first Friday from the earliest day on, None when that is too far.
WeeklyExpiration(day, earliest, latest) ==
  LET friday == day + earliest + ((Friday - (day + earliest)) % 7)
  IN  IF friday - day > latest THEN None ELSE friday

HolidayBetween(first, last, blackout) ==
  \/ blackout # "off" /\ Clusters \cap first..last # {}
  \/ blackout = "all" /\ SingleHolidays \cap first..last # {}

\* Python's round: a half goes to the even neighbour.
Rounded(a, b) ==
  LET down == a \div b
      rest == 2 * (a % b)
  IN  IF rest < b \/ (rest = b /\ down % 2 = 0) THEN down ELSE down + 1

\* A chain of fewer than five strikes is replaced by a made-up grid.
Strikes(listed, spot) ==
  LET step == IF spot < 100 THEN 2 ELSE IF spot < 400 THEN 5 ELSE IF spot < 1000 THEN 10 ELSE 20
      base == Rounded(spot, step) * step
  IN  IF Cardinality(listed) >= 5 THEN listed ELSE {base + i * step : i \in -30..30}

Distance(strike, target) ==
  IF 100 * strike < target THEN target - 100 * strike ELSE 100 * strike - target

\* The lower one of two that are as near.
Nearest(target, strikes) ==
  LET near == {s \in strikes : \A t \in strikes : Distance(s, target) =< Distance(t, target)}
  IN  Min(near)

OutOf(strikes, from, dir) == {s \in strikes : IF dir = "bullish" THEN s < from ELSE s > from}

\* A put spread under the market, or a call spread over it; a zero strike counts as none.
SpreadAt(strikes, spot, dir, target, width) ==
  LET shorts == OutOf(strikes, spot, dir)
      short == Nearest(target, shorts)
      longs == OutOf(strikes, short, dir)
      long == Nearest(IF dir = "bullish" THEN 100 * short - width ELSE 100 * short + width, longs)
  IN  IF shorts = {} \/ short = 0 \/ longs = {} \/ long = 0 THEN None
      ELSE [short |-> short, long |-> long, width |-> Max({short - long, long - short})]

EntrySpread(listed, spot, dir) ==
  SpreadAt(Strikes(listed, spot), spot, dir,
           IF dir = "bullish" THEN 97 * spot ELSE 103 * spot, Max({600, Min({2000, spot})}))

\* As far from the market as before, or four percent, at the same width.
RolledSpread(listed, p) ==
  SpreadAt(Strikes(listed, p.spot), p.spot, p.dir,
           IF p.dir = "bullish" THEN Min({100 * p.short, 96 * p.spot})
                                ELSE Max({100 * p.short, 104 * p.spot}), 100 * p.width)

Opposite(dir) == IF dir = "bullish" THEN "bearish" ELSE "bullish"

Contracts(balance, width, credit) ==
  IF width =< credit THEN 1
  ELSE Max({1, Min({(balance * SizePercent) \div (100 * (width - credit)), MaxContracts})})
=============================================================================
