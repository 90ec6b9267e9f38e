---------------------------- MODULE CreditQuality ---------------------------
(***************************************************************************)
(* What a credit is worth: bot/strategy/credit_quality.py, cost_gate.py,   *)
(* execution_price.py and quote_quality.py.  Pure operators.  A spread's   *)
(* wing is fixed, so a credit stands for its ratio to the wing.            *)
(*                                                                         *)
(* A quote is the pair of legs of one expiration as the chain shows it:    *)
(* [short, natural, mid, crossed, safe].  safe sums up the inputs of the   *)
(* low-credit gate that only that gate reads (quote age, cushion, expected *)
(* move or delta).                                                         *)
(***************************************************************************)
EXTENDS Integers, Sequences, FiniteSets, SequencesExt, TLC

CONSTANTS
  AbsoluteFloor, ProbeFloor, FullFloor, FullCeiling,  \* lanes, in credit
  AdaptMin,        \* features.credit_adapt_min_signals
  MaxHistory,      \* the last observations kept per bucket (60)
  RecordMove,      \* CREDIT_RATIO_REEVALUATION_CHANGE
  EntrySlip,       \* features.expected_entry_slippage
  WidthPct,        \* features.max_package_width_ratio, in percent
  RoundTrip,       \* estimated_round_trip_cost
  TakeProfitPct,   \* features.take_profit_percent, in percent
  CostTimes        \* features.min_target_to_cost_ratio

ASSUME CreditAssumption ==
  /\ {AbsoluteFloor, ProbeFloor, FullFloor, FullCeiling, AdaptMin, MaxHistory,
      RecordMove, EntrySlip, WidthPct, RoundTrip, TakeProfitPct, CostTimes}
       \subseteq Nat
  /\ AbsoluteFloor =< ProbeFloor /\ ProbeFloor =< FullFloor
  /\ FullFloor =< FullCeiling
  /\ MaxHistory > 0

NoStrike == 0

(* The order a chain gives, and the prices it is judged at.                *)

\* build_spread_order: an eligible short, its long in the chain, a credit.
HasOrder(quote) == quote.short # NoStrike /\ quote.natural > 0

TooWide(quote) ==
  100 * (quote.mid - quote.natural)
    > WidthPct * (IF quote.mid > 0 THEN quote.mid ELSE 1)

ExecutableCredit(quote) ==
  IF quote.natural >= quote.mid - EntrySlip THEN quote.natural
  ELSE quote.mid - EntrySlip

(* The adaptive threshold, in hundredths of a credit.                      *)

\* The 40th percentile, with linear interpolation between two ranks.
Percentile(ratios, p) ==
  LET sorted == SortSeq(ratios, LAMBDA a, b : a < b)
      at == (Len(sorted) - 1) * p
      low == (at \div 100) + 1
      high == IF low + 1 =< Len(sorted) THEN low + 1 ELSE Len(sorted)
  IN  100 * sorted[low] + (sorted[high] - sorted[low]) * (at % 100)

FullSizeThreshold(prior) ==
  LET percentile == Percentile(prior, 40)
  IN  IF prior = << >> \/ Len(prior) < AdaptMin THEN 100 * FullFloor
      ELSE IF percentile < 100 * FullFloor THEN 100 * FullFloor
      ELSE IF percentile > 100 * FullCeiling THEN 100 * FullCeiling
      ELSE percentile

\* A lane has a size, in percent, and possibly a maximum quantity.
Lane(tier, percent, limited) ==
  [tier |-> tier, percent |-> percent, limited |-> limited, most |-> 1]

Classify(credit, threshold) ==
  IF credit < AbsoluteFloor THEN Lane("reject", 0, TRUE)
  ELSE IF credit < ProbeFloor THEN Lane("low_credit_safety", 25, TRUE)
  ELSE IF 100 * credit < threshold THEN Lane("probe", 40, FALSE)
  ELSE Lane("full", 100, FALSE)

(* Costs.                                                                  *)

\* The net target of one contract, in hundredths.
NetTarget(credit) == credit * TakeProfitPct - RoundTrip

PaysCosts(credit) == credit * TakeProfitPct >= CostTimes * RoundTrip

\* The low-credit lane asks for a better multiple and a tighter package.
LowCreditSafe(quote, credit, riskOff) ==
  /\ 2 * credit * TakeProfitPct >= 9 * RoundTrip
  /\ 100 * (quote.mid - quote.natural)
       =< 20 * (IF quote.mid > 0 THEN quote.mid ELSE 1)
  /\ quote.safe
  /\ ~riskOff

(* Two rules that tell a new candidate from another look at the same one.  *)

Moved(a, b) == a - b >= RecordMove \/ b - a >= RecordMove

\* For the adaptive history: against the last observation recorded.
NewObservation(last, key, credit) ==
  \/ last = << >>
  \/ last[1].key # key
  \/ Moved(credit, last[1].credit)

\* For the opportunity counter: against every candidate seen today.
NewCandidate(seen, key, credit) ==
  \A s \in seen : s.key # key \/ Moved(credit, s.credit)

\* The anchor moves at every sighting; yesterday's keys are dropped.
Sighted(seen, key, credit, day) ==
  {s \in seen : s.key # key /\ s.key.day = day} \cup {[key |-> key, credit |-> credit]}

LastOf(history) ==
  IF Len(history) =< MaxHistory THEN history
  ELSE SubSeq(history, Len(history) - MaxHistory + 1, Len(history))

Bucket(dte) == IF dte =< 5 THEN "4-5" ELSE IF dte =< 8 THEN "6-8"
               ELSE IF dte =< 11 THEN "9-11" ELSE "12+"
=============================================================================
