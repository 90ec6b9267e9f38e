----------------------------- MODULE RiskSizing -----------------------------
(***************************************************************************)
(* How many contracts an entry may have: bot/portfolio/risk_budget.py,     *)
(* gap_stress.py, exposure.py, bot/sizing.py and bot/risk_gate.py.         *)
(* Pure operators, no state.                                               *)
(*                                                                         *)
(* Money is an integer per contract; a limit, equity times a percentage,   *)
(* is in the same unit because the percentages are constants in units per  *)
(* unit of equity.  A position is [short, expiry, day, qty, credit]; the   *)
(* wing, hence the long strike, is the same for every spread of a bot.     *)
(***************************************************************************)
EXTENDS Integers, Sequences, FiniteSets, FiniteSetsExt

CONSTANTS
  Wing,             \* s2b_cfg.wing_width
  StopSlip,         \* features.expected_stop_slippage
  CloseSlip,        \* gap_stress.STRESSED_CLOSE_SLIPPAGE
  EntryPct,         \* features.max_entry_stop_risk_pct
  TradePct,         \* features.max_trade_structural_risk_pct
  DayPct,           \* features.max_same_day_stop_risk_pct
  ExpiryPct,        \* features.max_expiry_stop_risk_pct
  StopPct,          \* features.max_total_stop_risk_pct
  StructuralPct,    \* features.max_total_structural_risk_pct
  GapPct,           \* the three gap limits, by scenario
  Stress,           \* the modelled price of a spread by short strike and scenario
  BasePct,          \* base_risk_pct of the legacy sizing
  GatePct,          \* risk_cfg.max_risk_pct
  MaxConcurrent     \* risk_cfg.max_concurrent

Scenarios == 1..3   \* down 1, 1.5 and 2 ATR

ASSUME SizingAssumption ==
  /\ Wing \in Nat \ {0}
  /\ {StopSlip, CloseSlip, EntryPct, TradePct, DayPct, ExpiryPct, StopPct,
      StructuralPct, BasePct, GatePct, MaxConcurrent} \subseteq Nat
  /\ GapPct \in [Scenarios -> Nat]

Smaller(a, b) == IF a =< b THEN a ELSE b
Larger(a, b) == IF a >= b THEN a ELSE b

(* Risk of one contract and of a position.                                 *)

Structural(wing, credit) == wing - credit

PlannedStop(wing, credit) ==
  Smaller(Structural(wing, credit), 2 * credit + StopSlip)

\* What a stop at three credits would still cost, from the mark it has now.
RemainingStop(position, mark) ==
  Larger(0, (3 * position.credit - mark + StopSlip) * position.qty)

(* A cap says how many contracts one gate permits; an abstaining cap none. *)

Cap(name, most, exposure, limit, each) ==
  [name |-> name, abstains |-> FALSE, most |-> Larger(0, most),
   exposure |-> exposure, limit |-> limit, each |-> each]

Abstention(name, exposure, limit) ==
  [name |-> name, abstains |-> TRUE, most |-> 0,
   exposure |-> exposure, limit |-> limit, each |-> 0]

CapFromBudget(name, exposure, limit, each) ==
  Cap(name, IF each =< 0 THEN 0 ELSE Larger(0, limit - exposure) \div each,
      exposure, limit, each)

\* A scenario in which the candidate loses nothing more abstains, unless the
\* book alone is over the limit.
GapCap(name, book, withOne, limit) ==
  LET each == Larger(0, withOne - book)
      left == Larger(0, limit - book)
  IN  IF each > 0 THEN Cap(name, left \div each, book, limit, each)
      ELSE IF book =< limit THEN Abstention(name, book, limit)
      ELSE Cap(name, 0, book, limit, 0)

EntryCeiling(maxEntryQty) ==
  Cap("live_entry_ceiling", maxEntryQty, 0, maxEntryQty, 1)

(* The quantity asked for.                                                 *)

\* A probe of a valid base is at least one contract, never more than the lane's.
ApplyQuality(base, percent, limited, maxQty) ==
  LET scaled == (base * percent) \div 100
      adjusted == IF percent < 100 THEN Larger(1, scaled) ELSE scaled
  IN  IF base =< 0 \/ percent =< 0 THEN 0
      ELSE IF limited THEN Smaller(adjusted, maxQty) ELSE adjusted

SizeQty(equity, wing, credit) ==
  LET stop == PlannedStop(wing, credit)
      structural == Structural(wing, credit)
  IN  IF stop =< 0 \/ structural =< 0 THEN 0
      ELSE Smaller((equity * EntryPct) \div stop,
                   (equity * TradePct) \div structural)

(* The legacy sizing: never less than one contract.                        *)

RegimeAdjusted(percent, vixHigh) == IF vixHigh THEN percent \div 2 ELSE percent

ContractsForRisk(equity, maxLoss, percent) ==
  Larger(1, (equity * percent) \div maxLoss)

(* Exposure of the book.  Books are sets of positions.                     *)

StopOf(book, marks) ==
  SumFunction([p \in book |-> RemainingStop(p, marks[p])])

StructuralOf(book, wing) ==
  SumFunction([p \in book |-> Structural(wing, p.credit) * p.qty])

\* The spreads of the account this bot did not open: at each strikes and
\* expiry, what the broker holds beyond the bot's own quantity.
Quantity(book, short, expiry) ==
  SumFunction([p \in {q \in book : q.short = short /\ q.expiry = expiry} |-> p.qty])

\* Mutant: a key this bot holds is left out as a whole.
ForeignSpreadsWholesale(account, book) ==
  {a \in account : Quantity(book, a.short, a.expiry) = 0}

ForeignSpreads(account, book) ==
  {[p EXCEPT !.qty = @ - Quantity(book, p.short, p.expiry)] :
     p \in {a \in account : a.qty > Quantity(book, a.short, a.expiry)}}

\* What the account's other spreads are taken to risk, without marks: the
\* broker's list has no credit, and then the whole width counts.
ForeignStop(foreign) ==
  SumFunction([p \in foreign |-> (IF p.credit > 0 THEN 2 * p.credit ELSE Wing) * p.qty])

ForeignStructural(foreign) == StructuralOf(foreign, Wing)

BudgetCaps(equity, wing, credit, expiry, day, book, marks, foreign) ==
  LET stop == PlannedStop(wing, credit)
      today == StopOf({p \in book : p.day = day}, marks)
      same == StopOf({p \in book : p.expiry = expiry}, marks)
      total == StopOf(book, marks) + ForeignStop(foreign)
      structural == StructuralOf(book, wing) + ForeignStructural(foreign)
  IN  << CapFromBudget("same_day_stop", today, equity * DayPct, stop),
         CapFromBudget("expiry_stop", same, equity * ExpiryPct, stop),
         CapFromBudget("total_stop", total, equity * StopPct, stop),
         CapFromBudget("total_structural", structural, equity * StructuralPct,
                       Structural(wing, credit)) >>

(* Gap stress.  Debit, the modelled price of a spread after a scenario,     *)
(* stands for the Black-Scholes grid; the closing slippage is added and    *)
(* the sum is capped at the spread's own width.                            *)

Debit(position, s) == Stress[position.short][s]

GapLoss(position, wing, s) ==
  (Smaller(wing, Debit(position, s) + CloseSlip)
     - position.credit) * position.qty

GapLossOf(book, s) == SumFunction([p \in book |-> GapLoss(p, Wing, s)])

GapNames == << "gap_1atr", "gap_1_5atr", "gap_2atr" >>

GapCaps(equity, wing, candidate, others) ==
  [s \in Scenarios |->
     LET book == GapLossOf(others, s)
         one == GapLoss([candidate EXCEPT !.qty = 1], wing, s)
     IN  GapCap(GapNames[s], book, book + one, equity * GapPct[s])]

(* The strictest cap decides; ties go to the first.                        *)

Binding(caps) == {i \in DOMAIN caps : ~caps[i].abstains}

Strictest(caps) ==
  CHOOSE i \in Binding(caps) :
    \A j \in Binding(caps) :
      \/ caps[i].most < caps[j].most
      \/ caps[i].most = caps[j].most /\ i =< j

SizeToLimits(requested, caps) ==
  IF requested =< 0 THEN [qty |-> 0, gate |-> "requested_qty"]
  ELSE IF Binding(caps) = {} THEN [qty |-> requested, gate |-> "none"]
  ELSE [qty |-> Smaller(requested, caps[Strictest(caps)].most),
        gate |-> caps[Strictest(caps)].name]

\* The most contracts that keep the day's realized loss, the stops of the
\* positions opened today and the proposed stop within the day's budget.
DayQty(qty, equity, credit, lost, todayStop) ==
  LET Fits(q) ==
        lost + todayStop + PlannedStop(Wing, credit) * q =< equity * DayPct
  IN  IF \E q \in 1..qty : Fits(q)
      THEN CHOOSE q \in 1..qty : Fits(q) /\ \A r \in (q + 1)..qty : ~Fits(r)
      ELSE 0

\* RiskGate.  build_spread_order settles the structure and the cushion, and
\* account_state reports cash equal to equity, no open risk, no realized and
\* no recent loss: the per-trade and the concurrency gates are the live ones.
GateRefusal(maxLoss, qty, equity, open) ==
  IF maxLoss * qty > equity * GatePct THEN "per-trade risk exceeds cap"
  ELSE IF open >= MaxConcurrent THEN "max concurrent positions reached"
  ELSE "ok"
=============================================================================
