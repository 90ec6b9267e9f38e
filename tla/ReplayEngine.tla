---------------------------- MODULE ReplayEngine ----------------------------
(***************************************************************************)
(* The back-test of simulations/engine_v345.py, ReplayEngine.run: one pass *)
(* over the days of the flow file.  Each day looks at every open trade     *)
(* (the day's price bars, a roll, a stop, a stale exit, its expiration),   *)
(* books the exits, may turn a spread into an iron condor, and scans the   *)
(* day's flow for entries.  What is left at the end is closed.             *)
(*                                                                         *)
(* Market data is the environment: bars, quotes and strike lists are       *)
(* chosen when they are read.  Prices are per contract, money is           *)
(* contracts times price, profit is in sixtieths of the credit.            *)
(***************************************************************************)
EXTENDS ReplaySpreads

CONSTANTS
  Feeds,              \* what a day's flow file holds: [rows, vix]
  VixCloses,          \* days to the VIX close, as the fallback source has them
  Configs,            \* the options a replay may be started with
  Days, MaxDays,      \* the calendar, and how many of its days have flow
  Prices, Raws,       \* of a spread during and at the start of its life
  Listed, Quotes,     \* strikes of a symbol, at any expiration; bid/ask quotes
  MaxBars,            \* bars of a trade and a day
  Slip, Fee,          \* for both legs; per leg and contract
  Capital, MaxPositions, RollMax,
  DayStart, DayEnd, MidDay, ScanStep, VixGap,
  IcMove              \* percent

\* What a replay can be started with (the command line).
Options ==
  [rolling : BOOLEAN, rollDte : Int, stop : Int, hold : Int, rolledOnly : BOOLEAN,
   ic : {"off", "flow_reversal", "price_move", "spread_sl"}, icFresh : BOOLEAN,
   trail : BOOLEAN, recapture : BOOLEAN, putOnly : BOOLEAN, bias : Int, flip : Int,
   vixBlock : Int, vixUnblock : Int, blackout : {"off", "clusters", "all"},
   minRatio : Int, maxRatio : Int, calibrated : BOOLEAN, commissions : BOOLEAN]

ASSUME EngineAssumption ==
  /\ {Slip, Fee, Capital, MaxPositions, RollMax, MaxDays} \subseteq Nat
  /\ ScanStep \in Nat \ {0} /\ {DayStart, DayEnd} \subseteq Int
  /\ Configs \subseteq Options
  /\ Days \subseteq Nat /\ Prices \cup Raws \subseteq Int
  /\ Quotes \subseteq {None} \cup [sb : Int, sa : Int, lb : Int, la : Int]

\* The flow file and the chains: rows in a list, finitely many strikes of every symbol.
ASSUME FeedAssumption ==
  /\ \A f \in Feeds :
       /\ f.rows \in Seq(Range(f.rows))
       /\ \A i \in DOMAIN f.rows :
            LET row == f.rows[i]
            IN  {row.time, row.premium, row.spot} \subseteq Int /\ row.quality \in Qualities
  /\ \A sym \in Watchlist : Listed[sym] \subseteq Int /\ IsFiniteSet(Listed[sym])

VARIABLES
  cfg,
  pc,          \* where process_day is
  day, feed,   \* date_str and its alerts
  seen,        \* days replayed
  bars, opp_spread_val,  \* of the trade being looked at: bars seen, last close of its second leg
  at,          \* the open trade, or the signal, being looked at
  positions, closed_positions,
  balance, total_commissions,
  vix_bps_blocked,
  now, actionable, taken, open_slots

vars == <<cfg, pc, day, feed, seen, bars, opp_spread_val, at,
          positions, closed_positions, balance,
          total_commissions, vix_bps_blocked, now, actionable, taken, open_slots>>

watching == <<bars, opp_spread_val>>
clock == <<cfg, day, feed, seen>>
scanning == <<vix_bps_blocked, now, actionable, taken, open_slots>>
money == <<balance, total_commissions>>

Profit(credit, price) == (60 * (credit - price)) \div credit
TakeProfit == 30
TrailActivate == 30
TrailRetrace == 12

Commission(legs, quantity) == IF cfg.commissions THEN legs * quantity * Fee ELSE 0

\* _apply_commission, with what the step books besides.
Pay(gain, fee) ==
  /\ balance' = balance + gain - fee
  /\ total_commissions' = total_commissions + fee

\* Half of each leg's quoted spread, or the default.
Slippage(quote) ==
  IF \/ quote = None
     \/ quote.sa =< 0 \/ quote.la =< 0 \/ quote.sa < quote.sb \/ quote.la < quote.lb
  THEN Slip ELSE (quote.sa - quote.sb + quote.la - quote.lb) \div 2

Slips == IF cfg.calibrated THEN {Slippage(quote) : quote \in Quotes} ELSE {Slip}

-----------------------------------------------------------------------------
(* Phase 1: exits. *)

\* The trade leaves at this price, its second leg (if it is closed too) at that.
Exit(p, kind, price, opposite) ==
  LET second == IF opposite = None THEN 0 ELSE p.qty * (p.opp - opposite)
  IN  [p EXCEPT !.exit = kind,
                !.pnl = p.qty * (p.credit - price) + second,
                !.cash = @ - p.qty * (price + IF opposite = None THEN 0 ELSE opposite)]

LegsOut(p, kind) == IF p.opp # None /\ kind \in {"take_profit", "expiration"} THEN 4 ELSE 2

Here == positions[at]
Update(p) == positions' = [positions EXCEPT ![at] = p]

\* The spread's close, and the second leg's last close if it has one.
CreditOf(p) == IF p.opp = None THEN p.credit ELSE p.total
Combined(p, spread, opposite) == spread + IF p.opp = None THEN 0 ELSE opposite

\* The best profit of a trailing trade, None while the trail is not active.
Peak(p, profit, spread) ==
  IF ~cfg.trail THEN None
  ELSE IF p.peak # None THEN Max({p.peak, profit})
  ELSE IF profit >= TrailActivate /\ spread >= 0 THEN profit ELSE None

\* One bar: recapture, then the trailing stop or the take-profit.
AfterBar(p, spread, opposite, slip) ==
  LET profit == Profit(CreditOf(p), Combined(p, spread, opposite))
      peak == Peak(p, profit, spread)
      held == [p EXCEPT !.was = @ \/ profit > 0, !.today = spread]
  IN  CASE cfg.recapture /\ held.was /\ profit < 0 ->
             Exit(held, "recapture", spread + slip, None)
        [] peak # None /\ peak - profit >= TrailRetrace ->
             Exit([held EXCEPT !.peak = peak], "trail", spread + slip, None)
        [] ~cfg.trail /\ Combined(p, spread, opposite) >= 0 /\ profit >= TakeProfit ->
             Exit(held, "take_profit", spread + slip, IF p.opp = None THEN None ELSE opposite + Slip)
        [] OTHER -> [held EXCEPT !.peak = peak]

\* The second leg starts the day at its last close of that day.
LookAt ==
  /\ pc = "exits" /\ at <= Len(positions)
  /\ Update([Here EXCEPT !.today = None])
  /\ opp_spread_val' \in (IF Here.opp = None THEN {0} ELSE Prices \cup {0})
  /\ bars' = 0 /\ pc' = "bars"
  /\ UNCHANGED <<clock, at, closed_positions, money, scanning>>

\* There are no bars after the expiration; the second leg has its own on some of them.
Bar ==
  /\ pc = "bars" /\ bars < MaxBars /\ day =< Here.exp
  /\ \E spread \in Prices, slip \in Slips,
        opposite \in IF Here.opp = None THEN {0} ELSE Prices \cup {opp_spread_val} :
       LET after == AfterBar(Here, spread, opposite, slip)
       IN  /\ Update(after)
           /\ IF after.exit = "open"
              THEN /\ opp_spread_val' = opposite /\ bars' = bars + 1
                   /\ UNCHANGED <<pc, at, money>>
              ELSE /\ Pay(0, Commission(LegsOut(after, after.exit), after.qty))
                   /\ opp_spread_val' = 0 /\ bars' = 0
                   /\ at' = at + 1 /\ pc' = "exits"
  /\ UNCHANGED <<clock, scanning, closed_positions>>

EndOfBars ==
  /\ pc = "bars"
  /\ opp_spread_val' = 0 /\ bars' = 0
  /\ pc' = "roll"
  /\ UNCHANGED <<clock, at, positions, closed_positions, money, scanning>>

\* A loser near its expiration.
RollWanted(p) ==
  /\ cfg.rolling
  /\ p.exp - day =< cfg.rollDte /\ p.rolls < RollMax
  /\ p.today # None /\ p.today > 2 * p.credit

\* Mutant: a roll is not asked about holidays.
RollOverHolidays == WeeklyExpiration(day, RollMinDte, RollMaxDte)

RollExpiration ==
  LET exp == WeeklyExpiration(day, RollMinDte, RollMaxDte)
  IN  IF exp = None \/ HolidayBetween(day, exp, cfg.blackout) THEN None ELSE exp

\* The trade after it is bought back and sold again for later; its bars are now the new
\* spread's, whose first close need not be today's.
Rolled(p, spread, cost, credit, today) ==
  LET net == p.qty * (credit - cost)
  IN  [p EXCEPT !.exp = RollExpiration, !.short = spread.short, !.long = spread.long,
                !.width = spread.width, !.credit = credit, !.rolls = @ + 1,
                !.rollCost = @ + net, !.cash = @ + net, !.today = today]

Roll ==
  /\ pc = "roll" /\ RollWanted(Here) /\ RollExpiration # None
  /\ \E raw \in Raws, out \in Slips, in \in Slips, priced \in BOOLEAN :
       LET spread == RolledSpread(Listed[Here.sym], Here)
           credit == raw - in
           after == Rolled(Here, spread, Here.today + out, credit,
                           IF priced THEN raw ELSE None)
       IN  /\ spread # None /\ credit > 0
           /\ Update(after)
           /\ Pay(after.rollCost - Here.rollCost, Commission(4, Here.qty))
  /\ at' = at + 1 /\ pc' = "exits"
  /\ UNCHANGED <<clock, watching, scanning, closed_positions>>

\* No roll is due, or it finds no expiration, strikes, price or credit.
NoRoll ==
  /\ pc = "roll"
  /\ pc' = "stops"
  /\ UNCHANGED <<watching, clock, at, positions, closed_positions, money, scanning>>

StopHit(p) ==
  /\ cfg.stop > 0 /\ p.exp - day > cfg.rollDte
  /\ p.today # None /\ p.today >= p.credit * cfg.stop

\* Weekdays after the entry.
DaysHeld(p) == Cardinality({d \in (p.day + 1)..day : d % 7 < 5})

Stale(p) ==
  /\ cfg.hold > 0 /\ ~(cfg.rolledOnly /\ p.rolls = 0)
  /\ DaysHeld(p) >= cfg.hold

Expired(p) == day >= p.exp

\* The last close of the bars read: today's, or else any day's, before or after.
LastClose(p) == IF p.today # None THEN {p.today} ELSE Prices \cup Raws

Leave(kind, price, opposite) ==
  /\ Update(Exit(Here, kind, price, opposite))
  /\ Pay(0, Commission(LegsOut(Here, kind), Here.qty))

StopOut ==
  /\ pc = "stops" /\ StopHit(Here)
  /\ \E slip \in Slips : Leave("stop", Here.today + slip, None)
  /\ at' = at + 1 /\ pc' = "exits"
  /\ UNCHANGED <<clock, watching, scanning, closed_positions>>

StaleExit ==
  /\ pc = "stops" /\ ~StopHit(Here) /\ Stale(Here)
  /\ \E slip \in Slips, price \in LastClose(Here) :
       Leave("stale", Max({0, price}) + slip, None)
  /\ at' = at + 1 /\ pc' = "exits"
  /\ UNCHANGED <<clock, watching, scanning, closed_positions>>

Expire ==
  /\ pc = "stops" /\ ~StopHit(Here) /\ ~Stale(Here) /\ Expired(Here)
  /\ \E slip \in Slips, price \in LastClose(Here), second \in Prices :
       Leave("expiration", Max({0, price}) + slip,
             IF Here.opp = None THEN None ELSE Max({0, second}) + Slip)
  /\ at' = at + 1 /\ pc' = "exits"
  /\ UNCHANGED <<clock, watching, scanning, closed_positions>>

Keep ==
  /\ pc = "stops" /\ ~StopHit(Here) /\ ~Stale(Here) /\ ~Expired(Here)
  /\ at' = at + 1 /\ pc' = "exits"
  /\ UNCHANGED <<clock, watching, scanning, positions, closed_positions, money>>

\* What is remembered of a trade that is over.
Trade(p) == [rolls |-> p.rolls, two |-> p.opp # None, exit |-> p.exit,
             pnl |-> p.pnl, lifecycle |-> p.pnl + p.rollCost, cash |-> p.cash]

Trades(book) == [i \in DOMAIN book |-> Trade(book[i])]
IsOpen(p) == p.exit = "open"
StillOpen == {i \in DOMAIN positions : IsOpen(positions[i])}

\* Mutant: the rolls of a trade are booked again with its exit.
PnlWithRolls(trades) == SumFunction([i \in DOMAIN trades |-> trades[i].lifecycle])

PnlOf(trades) == SumFunction([i \in DOMAIN trades |-> trades[i].pnl])

BookExits ==
  /\ pc = "exits" /\ at > Len(positions)
  /\ LET out == Trades(Kept(positions, DOMAIN positions \ StillOpen))
     IN  /\ closed_positions' = closed_positions \o out
         /\ Pay(PnlOf(out), 0)
  /\ positions' = Kept(positions, StillOpen)
  /\ at' = 1
  /\ pc' = IF cfg.ic = "off" THEN "slots" ELSE "condor"
  /\ UNCHANGED <<watching, clock, scanning>>

-----------------------------------------------------------------------------
(* The signals of a day: rows are deduplicated, and sorted only for the scans. *)

ByTime(rows) == Sorted(rows, [i \in DOMAIN rows |-> rows[i].time])

ScanSignals ==
  [f \in Feeds |-> [t \in DayStart..DayEnd |-> Actionable(ByTime(Deduped(f.rows)), t)]]
NoonSignals == [f \in Feeds |-> Actionable(Deduped(f.rows), MidDay)]

-----------------------------------------------------------------------------
(* Phase 1.5: a spread may become an iron condor. *)

FlowReversed(p, signals) ==
  \E i \in DOMAIN signals : signals[i].sym = p.sym /\ signals[i].dir # p.dir

\* Against the trade by this percentage of its entry.
PriceMoved(p, signals) ==
  /\ p.today # None
  /\ \E i \in DOMAIN signals :
       LET move == 100 * (signals[i].spot - p.spot)
       IN  /\ signals[i].sym = p.sym /\ signals[i].spot > 0
           /\ IF p.dir = "bullish" THEN move <= 0 - IcMove * p.spot ELSE move >= IcMove * p.spot

\* The spread is worth one and a half times its credit.
SpreadLoses(p) == p.today # None /\ 2 * p.today >= 3 * p.credit

Triggered(p, signals) ==
  \/ cfg.ic = "flow_reversal" /\ FlowReversed(p, signals)
  \/ cfg.ic = "price_move" /\ PriceMoved(p, signals)
  \/ cfg.ic = "spread_sl" /\ SpreadLoses(p)

IcExpiration(p) ==
  LET exp == IF cfg.icFresh THEN WeeklyExpiration(day, IcMinDte, IcMaxDte) ELSE p.exp
  IN  IF exp = None \/ HolidayBetween(day, exp, cfg.blackout) THEN None ELSE exp

OppositeSpread(p) == EntrySpread(Listed[p.sym], p.spot, Opposite(p.dir))

AddLeg ==
  /\ pc = "condor" /\ at <= Len(positions)
  /\ Here.opp = None /\ Triggered(Here, NoonSignals[feed])
  /\ IcExpiration(Here) # None
  /\ OppositeSpread(Here) # None
  /\ \E raw \in Raws, slip \in Slips :
       LET credit == raw - slip
       IN  /\ credit > 0
           /\ Update([Here EXCEPT !.opp = credit, !.total = Here.credit + credit,
                                !.cash = @ + Here.qty * credit])
           /\ Pay(0, Commission(2, Here.qty))
  /\ at' = at + 1
  /\ UNCHANGED <<watching, clock, pc, closed_positions, scanning>>

\* Not triggered, or no spread, price or credit for the second leg.
NoLeg ==
  /\ pc = "condor" /\ at <= Len(positions)
  /\ at' = at + 1
  /\ UNCHANGED <<watching, clock, pc, positions, closed_positions, money, scanning>>

-----------------------------------------------------------------------------
(* Phase 2: entries. *)

StartScans ==
  /\ \/ pc = "slots"
     \/ pc = "condor" /\ at > Len(positions)
  /\ open_slots' = MaxPositions - Len(positions)
  /\ taken' = {positions[i].sym : i \in DOMAIN positions}
  /\ now' = DayStart
  /\ at' = 1 /\ pc' = "scan"
  /\ UNCHANGED <<watching, clock, positions, closed_positions, money, vix_bps_blocked, actionable>>

\* The nearer of the observations before and after the scan, if it is near enough; the day's
\* close otherwise, or the last one before.
VixAt(time) ==
  LET past == {i \in DOMAIN feed.vix : feed.vix[i].time =< time}
      later == DOMAIN feed.vix \ past
      beside == {i \in past : i = Max(past)} \cup {i \in later : i = Min(later)}
      gap(i) == Max({feed.vix[i].time - time, time - feed.vix[i].time})
      near == {i \in beside : gap(i) =< VixGap /\ \A j \in beside : gap(i) =< gap(j)}
      days == {d \in DOMAIN VixCloses : d =< day}
  IN  IF near # {} THEN Min({feed.vix[i].level : i \in near})
      ELSE IF days = {} THEN 0 ELSE VixCloses[Max(days)]

\* Hysteresis: blocked above one level, let go below another.
Blocked(blocked, vix) ==
  IF cfg.vixBlock = 0 \/ vix <= 0 THEN blocked
  ELSE IF blocked THEN vix >= cfg.vixUnblock ELSE vix > cfg.vixBlock

Scan ==
  /\ pc = "scan" /\ now <= DayEnd /\ open_slots > 0
  /\ vix_bps_blocked' = Blocked(vix_bps_blocked, VixAt(now))
  /\ actionable' = ScanSignals[feed][now]
  /\ at' = 1 /\ pc' = "signals"
  /\ UNCHANGED <<watching, clock, positions, closed_positions, money, now, taken, open_slots>>

Signal == actionable[at]

Wanted(s) ==
  /\ s.sym \notin taken /\ s.spot > 0
  /\ ~(cfg.putOnly /\ s.dir = "bearish")
  /\ ~(s.dir = "bullish" /\ cfg.bias > 0 /\ BearishBeyond(actionable, cfg.bias))
  /\ ~(s.dir = "bullish" /\ vix_bps_blocked)

\* A bullish signal in a bearish market may be sold as a call spread.
DirectionOf(s) ==
  IF s.dir = "bullish" /\ cfg.flip > 0 /\ BearishBeyond(actionable, cfg.flip)
  THEN "bearish" ELSE s.dir

EntryExpiration ==
  LET exp == WeeklyExpiration(day, MinDte, MaxDte)
  IN  IF exp = None \/ HolidayBetween(day, exp, cfg.blackout) THEN None ELSE exp

WorthSelling(credit, width) ==
  /\ credit > 0
  /\ 100 * credit >= cfg.minRatio * width
  /\ cfg.maxRatio < 100 => 100 * credit =< cfg.maxRatio * width

Opened(s, spread, credit) ==
  LET qty == Contracts(balance, spread.width, credit)
  IN  [sym |-> s.sym, dir |-> DirectionOf(s), day |-> day, exp |-> EntryExpiration,
       spot |-> s.spot, short |-> spread.short, long |-> spread.long, width |-> spread.width,
       credit |-> credit, qty |-> qty, rolls |-> 0, rollCost |-> 0, was |-> FALSE,
       peak |-> None, opp |-> None, total |-> credit, today |-> None, exit |-> "open",
       pnl |-> 0, cash |-> qty * credit]

Open ==
  /\ pc = "signals" /\ at <= Len(actionable) /\ open_slots > 0
  /\ Wanted(Signal) /\ EntryExpiration # None
  /\ \E raw \in Raws, slip \in Slips :
       LET spread == EntrySpread(Listed[Signal.sym], Signal.spot, DirectionOf(Signal))
           credit == raw - slip
       IN  /\ spread # None /\ raw > 0 /\ WorthSelling(credit, spread.width)
           /\ LET p == Opened(Signal, spread, credit)
              IN  /\ positions' = Append(positions, p)
                  /\ Pay(0, Commission(2, p.qty))
  /\ taken' = taken \cup {Signal.sym}
  /\ open_slots' = open_slots - 1
  /\ at' = at + 1
  /\ UNCHANGED <<watching, clock, pc, closed_positions, vix_bps_blocked, now, actionable>>

\* The signal is not wanted, or no spread, price or credit is found for it.
Pass ==
  /\ pc = "signals" /\ at <= Len(actionable) /\ open_slots > 0
  /\ at' = at + 1
  /\ UNCHANGED <<watching, clock, pc, positions, closed_positions, money, scanning>>

NextScan ==
  /\ pc = "signals" /\ (at > Len(actionable) \/ open_slots <= 0)
  /\ now' = now + ScanStep
  /\ actionable' = << >> /\ at' = 1 /\ pc' = "scan"
  /\ UNCHANGED <<watching, clock, positions, closed_positions, money, vix_bps_blocked, taken, open_slots>>

EndDay ==
  /\ pc = "scan" /\ (now > DayEnd \/ open_slots <= 0)
  /\ seen' = seen + 1
  /\ now' = DayStart /\ taken' = {} /\ open_slots' = 0
  /\ pc' = "night"
  /\ UNCHANGED <<watching, cfg, day, feed, at, positions, closed_positions, money, vix_bps_blocked, actionable>>

-----------------------------------------------------------------------------
(* The days of the file, in order. *)

StartDay ==
  /\ pc = "night" /\ seen < MaxDays
  /\ day' \in {d \in Days : d > day}
  /\ feed' \in Feeds
  /\ at' = 1 /\ pc' = "exits"
  /\ UNCHANGED <<cfg, watching, seen, positions, closed_positions, money, scanning>>

EndReplay ==
  /\ pc = "night" /\ seen > 0
  /\ pc' = "closing"
  /\ UNCHANGED <<watching, clock, at, positions, closed_positions, money, scanning>>

\* force_close_remaining: no commission, and the second leg stays out of it.
ForceClose ==
  /\ pc = "closing" /\ positions # << >>
  /\ \E price \in Prices \cup Raws :
       LET out == Exit(Head(positions), "end", Max({0, price}) + Slip, None)
       IN  /\ closed_positions' = Append(closed_positions, Trade(out))
           /\ Pay(out.pnl, 0)
  /\ positions' = Tail(positions)
  /\ UNCHANGED <<watching, clock, pc, at, scanning>>

Finish ==
  /\ pc = "closing" /\ positions = << >>
  /\ pc' = "done"
  /\ UNCHANGED <<watching, clock, at, positions, closed_positions, money, scanning>>

Done == pc = "done" /\ UNCHANGED vars

Init ==
  /\ cfg \in Configs
  /\ pc = "night" /\ day = 0 - 1 /\ feed = [rows |-> << >>, vix |-> << >>] /\ seen = 0 /\ at = 1
  /\ bars = 0 /\ opp_spread_val = 0
  /\ positions = << >> /\ closed_positions = << >>
  /\ balance = Capital /\ total_commissions = 0
  /\ vix_bps_blocked = FALSE
  /\ now = DayStart /\ actionable = << >> /\ taken = {} /\ open_slots = 0

Exits == LookAt \/ Bar \/ EndOfBars \/ Roll \/ NoRoll \/ StopOut \/ StaleExit \/ Expire \/ Keep \/ BookExits
Entries == AddLeg \/ NoLeg \/ StartScans \/ Scan \/ Open \/ Pass \/ NextScan
Calendar == StartDay \/ EndDay \/ EndReplay \/ ForceClose \/ Finish \/ Done
Next == Exits \/ Entries \/ Calendar

Spec == Init /\ [][Next]_vars

-----------------------------------------------------------------------------
(* print_results: what the replay says of itself when it is over. *)

\* The lifecycle P&L of some of the trades, by their numbers.
LifecycleOf(trades, some) == SumFunctionOnSet([i \in DOMAIN trades |-> trades[i].lifecycle], some)

Winners(trades) == {i \in DOMAIN trades : trades[i].lifecycle > 0}
Losers(trades) == {i \in DOMAIN trades : trades[i].lifecycle < 0}
Breakeven(trades) == {i \in DOMAIN trades : trades[i].lifecycle = 0}

\* Forced closes are among the trades.
Results(trades) ==
  [trades |-> Len(trades),
   force_closed |-> Cardinality({i \in DOMAIN trades : trades[i].exit = "end"}),
   winners |-> Cardinality(Winners(trades)), losers |-> Cardinality(Losers(trades)),
   breakeven |-> Cardinality(Breakeven(trades)),
   gross_profit |-> LifecycleOf(trades, Winners(trades)),
   gross_loss |-> LifecycleOf(trades, Losers(trades)),
   total_pnl |-> LifecycleOf(trades, DOMAIN trades)]

\* Of the rolled trades, those not won are called lost.
RollResults(trades) ==
  LET rolled == {i \in DOMAIN trades : trades[i].rolls > 0}
  IN  [rolled |-> Cardinality(rolled), winners |-> Cardinality(rolled \cap Winners(trades)),
       losers |-> Cardinality(rolled \ Winners(trades)), pnl |-> LifecycleOf(trades, rolled)]

StaleResults(trades) ==
  [pnl |-> LifecycleOf(trades, {i \in DOMAIN trades : trades[i].exit = "stale"}),
   expired |-> Cardinality({i \in DOMAIN trades : trades[i].exit = "expiration"})]

CondorResults(trades) ==
  LET condors == {i \in DOMAIN trades : trades[i].two}
  IN  [condors |-> Cardinality(condors),
       directional |-> IF cfg.ic = "off" THEN 0 ELSE Len(trades) - Cardinality(condors),
       winners |-> Cardinality(condors \cap Winners(trades)), pnl |-> LifecycleOf(trades, condors)]

\* The profit factor, infinite without a loss, and the net return decide separately.
Verdict(trades) ==
  LET r == Results(trades)
      factor(tenths) == r.gross_loss = 0 \/ 10 * r.gross_profit >= tenths * (0 - r.gross_loss)
  IN  [viable |-> factor(20), borderline |-> factor(15) /\ ~factor(20),
       profitable |-> balance > Capital]

-----------------------------------------------------------------------------
Exitings == {"open", "recapture", "trail", "take_profit", "stop", "stale", "expiration"}

\* Every variable has its type; a trade is sold for a credit and rolled RollMax times at most.
TypeOK ==
  /\ cfg \in Configs /\ seen \in 0..MaxDays
  /\ pc \in {"night", "exits", "bars", "roll", "stops", "condor", "slots", "scan", "signals", "closing", "done"}
  /\ \A i \in DOMAIN positions :
       LET p == positions[i]
       IN  /\ p.credit > 0 /\ p.total > 0 /\ p.width > 0
           /\ p.qty \in 1..MaxContracts /\ p.rolls \in 0..RollMax
           /\ p.exit \in Exitings
  /\ balance \in Int /\ total_commissions \in Nat
  /\ vix_bps_blocked \in BOOLEAN
  /\ open_slots \in 0..MaxPositions

RollCosts == SumFunction([i \in DOMAIN positions |-> positions[i].rollCost])
Lifecycles == SumFunction([i \in DOMAIN closed_positions |-> closed_positions[i].lifecycle])

\* The balance is the capital, the lifecycle P&L of the closed trades and the rolls of the open
\* ones, less the commissions: rolls, exits and commissions are booked at different times
\* (process_day, _execute_roll), and once each.
BalanceIsLedger == balance = Capital + Lifecycles + RollCosts - total_commissions

\* The P&L of a trade that was never rolled is the money it moved, both legs of an iron condor
\* included when it leaves by take-profit or expiration.
TradesBooked ==
  \A i \in DOMAIN closed_positions :
    LET t == closed_positions[i]
    IN  t.rolls = 0 /\ (t.two => t.exit \in {"take_profit", "expiration"}) => t.lifecycle = t.cash

\* At no time two trades of one symbol, or more than MaxPositions: the scans of a day share the
\* slots and the symbols taken, whatever the exits of the morning freed.
OneTradePerSymbol ==
  /\ Len(positions) =< MaxPositions
  /\ \A i, j \in DOMAIN positions : positions[i].sym = positions[j].sym => i = j

\* After the exits of a day nothing is open that expires that day or expired on one without flow,
\* unless entries on the very day of the expiration are asked for.
NoneOutlivesExpiry ==
  pc \notin {"exits", "bars", "roll", "stops"} =>
    \A i \in DOMAIN positions :
      LET p == positions[i]
      IN  p.exp > day \/ (MinDte = 0 /\ p.day = day /\ p.exp = day)

\* With a blackout no trade is carried over a holiday, neither by its entry nor by a roll.
NoHolidayHeld ==
  \A i \in DOMAIN positions :
    IsOpen(positions[i]) => ~HolidayBetween(day, positions[i].exp, cfg.blackout)

\* "Rolling window, no future peeking" (line 704): a trade is opened on a row that has come,
\* and is fresh, and that leans the trade's way unless the market turned it.
OpensOnSignal ==
  [][Len(positions') > Len(positions) =>
       LET p == Last(positions')
       IN  \E i \in DOMAIN feed.rows :
             LET row == feed.rows[i]
             IN  /\ Sym(row) = p.sym /\ row.time \in (now - SignalTtl)..now
                 /\ p.dir = "bullish" => Sentiment(row) = "bullish"]_vars

\* A roll gains time: the trade ends a week from now or later, and later than it did, unless
\* trades with that much time left are rolled, too.
RollsExtend ==
  [][\A i \in DOMAIN positions \cap DOMAIN positions' :
       LET p == positions[i]
           rolled == positions'[i]
       IN  rolled.sym = p.sym /\ rolled.rolls > p.rolls =>
             /\ rolled.exp - day >= RollMinDte
             /\ cfg.rollDte < RollMinDte => rolled.exp > p.exp]_vars

\* When the replay is over, its summary (print_results) splits what the account gained, before
\* commissions, into classes that count every trade once, and calls nothing viable that lost money.
ResultsAddUp ==
  pc = "done" /\ closed_positions # << >> =>
    LET r == Results(closed_positions)
        verdict == Verdict(closed_positions)
        rolls == RollResults(closed_positions)
        stale == StaleResults(closed_positions)
        condors == CondorResults(closed_positions)
    IN  /\ r.winners + r.losers + r.breakeven = r.trades
        /\ Capital + r.gross_profit + r.gross_loss = balance + total_commissions
        /\ r.total_pnl = r.gross_profit + r.gross_loss
        /\ rolls.winners =< r.winners /\ condors.winners =< r.winners
        /\ stale.expired + r.force_closed =< r.trades
        /\ verdict.viable \/ verdict.borderline => r.total_pnl >= 0
        /\ verdict.profitable => r.total_pnl > total_commissions

\* The money of a back-test is booked once, trade by trade and in all.
MoneyIsBooked == BalanceIsLedger /\ TradesBooked /\ ResultsAddUp

\* What may be held, at any point of a day.
HoldingsAllowed == TypeOK /\ OneTradePerSymbol /\ NoneOutlivesExpiry /\ NoHolidayHeld

\* What may be traded, in any step.
TradesAllowed == OpensOnSignal /\ RollsExtend
=============================================================================
