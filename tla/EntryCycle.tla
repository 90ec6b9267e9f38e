----------------------------- MODULE EntryCycle -----------------------------
(***************************************************************************)
(* run_entry_cycle of bot/app/orchestrator.py, from its first gate to the  *)
(* position it books, with what it calls: the pre-selection of an          *)
(* expiration (expirations.py), the credit lanes and cost gates            *)
(* (CreditQuality), the sizing (RiskSizing), the five-wide shadow          *)
(* (fallback.py), the entry state (entry_state.py) and the record of       *)
(* research signals.  The other phases of a tick are the module            *)
(* Orchestrator; here a close or a new window is one step.                 *)
(*                                                                         *)
(* bot is one of the three deployed programs (run_s2b.py and its           *)
(* wrappers); its feature flags are the operators below.  What a cycle     *)
(* reads is a record in:                                                   *)
(*   market    expiration -> quote        equity    risk_equity()          *)
(*   drift     how far every mark is from its credit                       *)
(*   account   the account's spreads      riskOff, vixHigh   the regime    *)
(***************************************************************************)
EXTENDS RiskSizing, CreditQuality

CONSTANTS
  Bots,            \* the programs started: "monday", "alldays", "live"
  NumDays, NumWindows,   \* bounds: days, windows of fifteen minutes in a day
  EntryDays,       \* days whose weekday is allowed
  Expiries, Fridays,     \* listed expirations; all Fridays, listed or not
  MinDte, MaxExpirations,
  Strikes,         \* short strikes
  MaxOpen, MaxEntries, MinEquity, HaltPct,
  Inputs,          \* what a cycle may read
  Losses,          \* what a close may lose
  MaxCycles        \* bound on the entry cycles of a run

ASSUME EntryAssumption ==
  /\ Bots \subseteq {"monday", "alldays", "live"}
  /\ {NumDays, NumWindows, MinDte, MaxOpen, MaxEntries, HaltPct} \subseteq Nat
  /\ NumDays > 0
  /\ Expiries \subseteq Nat /\ IsFiniteSet(Expiries) /\ Fridays \subseteq Nat
  /\ Stress \in [Strikes -> [Scenarios -> Nat]]
  /\ Losses \subseteq Int

\* Every day, some week far enough has an expiration far enough.
ASSUME CalendarAssumption ==
  \A d \in 1..NumDays : \E friday \in Fridays :
    /\ friday - d >= MinDte
    /\ \E e \in Expiries : e \in friday - 4 .. friday /\ e - d >= MinDte

\* What the feeds return.  reconstruct_spreads gives a spread no entry date,
\* and one quantity per strikes and expiration.
Quotes == [short : Strikes \cup {NoStrike}, natural : Int, mid : Int, half : Int,
           crossed : BOOLEAN, safe : BOOLEAN]

AccountSpreads == [short : Strikes, expiry : Expiries, day : {0}, qty : Nat \ {0},
                   credit : Nat]

Readings == [market : [Expiries -> Quotes], equity : Int, drift : Int,
             account : SUBSET AccountSpreads, riskOff : BOOLEAN, vixHigh : BOOLEAN]

ASSUME InputsAssumption ==
  \A in \in Inputs :
    /\ in \in Readings
    /\ IsFiniteSet(in.account)
    /\ \A a, b \in in.account : a.short = b.short /\ a.expiry = b.expiry => a = b

VARIABLES
  bot,
  day, window,                 \* the clock; window 0 is before ten
  book,                        \* open_positions
  halted,
  entriesToday, lastEntry,     \* entries_today, last_entry_date
  realized, riskDay,           \* realized_today, risk_day
  history, lastSeen,           \* credit_ratio_history, credit_obs_last
  seen,                        \* seen_candidate_keys
  cycles, raw, unique,         \* the three opportunity counters
  signals, lastMarkout,        \* markout_seq, markout_obs_last
  entryState,                  \* current_entry_state
  decision                     \* what the DECISION row of the cycle says

clockVars == << day, window >>
creditVars == << history, lastSeen, seen, raw, unique >>
dayVars == << realized, riskDay >>
bookVars == << book, halted, lastEntry >>
vars == << bot, clockVars, bookVars, entriesToday, dayVars, creditVars, cycles,
           signals, lastMarkout, entryState, decision >>

Buckets == {"4-5", "6-8", "9-11", "12+"}

\* Feature flags of the three programs.
CreditTiers == bot # "monday"
AggregateRiskBudget == bot # "monday"
AlternateExpirations == bot = "alldays"
FiveWideShadow == bot = "alldays"
LowCreditLane == bot = "alldays"
EntryStateTracking == bot = "alldays"
ActualFillAccounting == bot = "alldays"
HasCeiling == bot = "live"
MarkoutTracking == bot # "monday"

(* What the cycle works out from what it reads.                            *)

Mark(in, p) == Larger(0, p.credit + in.drift)

Marks(in) == [p \in book |-> Mark(in, p)]

\* What is listed in the week of a Friday, far enough.
InWeekOf(friday) == {e \in Expiries : e \in friday - 4 .. friday /\ e - day >= MinDte}

\* pick_expiry: the next Friday far enough, or the last day of its week if it is a holiday.
Picked ==
  Max(InWeekOf(Min({friday \in Fridays : friday - day >= MinDte /\ InWeekOf(friday) # {}})))

\* The first MaxExpirations of the listed ones that are far enough.
Candidates ==
  LET far == {e \in Expiries : e - day >= MinDte}
  IN  {e \in far : Cardinality({f \in far : f < e}) < MaxExpirations}

Priced(quote) == IF CreditTiers THEN ExecutableCredit(quote) ELSE quote.natural

LaneAt(expiry, credit) ==
  IF CreditTiers
  THEN Classify(credit, FullSizeThreshold(history[Bucket(expiry - day)]))
  ELSE Lane("full", 100, FALSE)

Ceiling == IF HasCeiling THEN << EntryCeiling(1) >> ELSE << >>

Proposal(short, expiry, credit) ==
  [short |-> short, expiry |-> expiry, day |-> day, qty |-> 1, credit |-> credit]

\* evaluate_expiration: the pre-selection's own copy of the gates.
Evaluate(in, e) ==
  LET quote == in.market[e]
      credit == Priced(quote)
      lane == LaneAt(e, credit)
      base == SizeQty(in.equity, Wing, credit)
      requested == ApplyQuality(base, lane.percent, lane.limited, lane.most)
      foreign == ForeignSpreads(in.account, book)
      caps == BudgetCaps(in.equity, Wing, credit, e, day, book, Marks(in), foreign)
                \o GapCaps(in.equity, Wing, Proposal(quote.short, e, credit),
                           book \cup foreign)
                \o Ceiling
      clears == /\ HasOrder(quote) /\ ~quote.crossed /\ ~TooWide(quote)
                /\ lane.tier # "reject"
                /\ lane.tier = "low_credit_safety" => LowCreditLane
                /\ PaysCosts(credit)
                /\ requested > 0
      qty == IF clears THEN SizeToLimits(requested, caps).qty ELSE 0
  IN  [expiry |-> e, qty |-> qty, credit |-> credit,
       net |-> IF qty > 0 THEN NetTarget(credit) * qty ELSE 0]

\* select_best_candidate: net target, then ratio, then the nearest.
Best(evaluations) ==
  CHOOSE a \in evaluations :
    \A b \in evaluations :
      \/ a.net > b.net
      \/ a.net = b.net /\ a.credit > b.credit
      \/ a.net = b.net /\ a.credit = b.credit /\ a.expiry =< b.expiry

\* Mutant: the best of the blocked ones is taken when nothing is eligible.
EligibleAny(in) == {Evaluate(in, e) : e \in Candidates}

Eligible(in) == {v \in {Evaluate(in, e) : e \in Candidates} : v.qty > 0 /\ v.net > 0}

ExpiryOf(in) ==
  LET eligible == Eligible(in)
  IN  IF AlternateExpirations /\ eligible # {} THEN Best(eligible).expiry
      ELSE Picked

\* The spread the cycle looks at: c in what follows.
Candidate(in) ==
  LET expiry == ExpiryOf(in)
      credit == Priced(in.market[expiry])
  IN  [expiry |-> expiry, quote |-> in.market[expiry], credit |-> credit,
       lane |-> LaneAt(expiry, credit)]

KeyOf(c) == [day |-> day, expiry |-> c.expiry, short |-> c.quote.short,
             window |-> window]

(* The gates, each list in the order the code asks.                        *)

Gate(blocks, reason) == [blocks |-> blocks, reason |-> reason]

FirstReason(gates) ==
  LET blocking == {i \in DOMAIN gates : gates[i].blocks}
  IN  IF blocking = {} THEN "go" ELSE gates[Min(blocking)].reason

EntriesSoFar == IF lastEntry = day THEN entriesToday ELSE 0

EarlyReason(in) ==
  FirstReason(
    << Gate(halted, "halted"),
       Gate(day \notin EntryDays, "wrong_weekday"),
       Gate(window = 0, "off_hours"),
       Gate(Cardinality(book) >= MaxOpen, "max_open"),
       Gate(EntriesSoFar >= MaxEntries, "max_entries"),
       Gate(in.riskOff, "trend_paused"),
       Gate(bot = "live" /\ in.equity < MinEquity, "min_equity") >>)

QuoteReason(c) ==
  IF ~HasOrder(c.quote) THEN "no_order"
  ELSE FirstReason(
    << Gate(CreditTiers /\ c.quote.crossed, "quote_invalid"),
       Gate(CreditTiers /\ TooWide(c.quote), "quote_wide") >>)

\* Mutant: the book is not looked at.
CreditReasonSkipsBook(in, c) ==
  LET safe == LowCreditLane /\ LowCreditSafe(c.quote, c.credit, in.riskOff)
  IN  FirstReason(
        << Gate(c.lane.tier = "reject", "credit_too_low"),
           Gate(c.lane.tier = "low_credit_safety" /\ ~safe, "credit_too_low"),
           Gate(CreditTiers /\ ~PaysCosts(c.credit), "cost_gate") >>)

CreditReason(in, c) ==
  LET safe == LowCreditLane /\ LowCreditSafe(c.quote, c.credit, in.riskOff)
  IN  FirstReason(
        << Gate(c.lane.tier = "reject", "credit_too_low"),
           Gate(c.lane.tier = "low_credit_safety" /\ ~safe, "credit_too_low"),
           Gate(CreditTiers /\ ~PaysCosts(c.credit), "cost_gate"),
           Gate(\E p \in book : p.short = c.quote.short /\ p.expiry = c.expiry,
                "duplicate_strikes") >>)

(* Sizing.  Legacy sizing never asks for less than one contract.           *)

LegacyQty(in, c) ==
  ContractsForRisk(in.equity, Structural(Wing, c.quote.natural),
                   RegimeAdjusted(BasePct, in.vixHigh))

\* Mutant: the gap book is the bot's own.
CapsForgetForeign(in, c, wing, credit) ==
  LET foreign == ForeignSpreads(in.account, book)
  IN  BudgetCaps(in.equity, wing, credit, c.expiry, day, book, Marks(in), foreign)
        \o GapCaps(in.equity, wing, Proposal(c.quote.short, c.expiry, credit),
                   book)
        \o Ceiling

Caps(in, c, wing, credit) ==
  LET foreign == ForeignSpreads(in.account, book)
  IN  BudgetCaps(in.equity, wing, credit, c.expiry, day, book, Marks(in), foreign)
        \o GapCaps(in.equity, wing, Proposal(c.quote.short, c.expiry, credit),
                   book \cup foreign)
        \o Ceiling

LostToday == IF riskDay = day /\ realized < 0 THEN -realized ELSE 0

Daily(in, c, qty) ==
  DayQty(qty, in.equity, c.credit, LostToday,
         StopOf({p \in book : p.day = day}, Marks(in)))

\* What the cycle asks for, what the limits leave of it and under which gate,
\* and the order's quantity: s in what follows.
Sizing(in, c) ==
  LET requested == ApplyQuality(SizeQty(in.equity, Wing, c.credit), c.lane.percent,
                                c.lane.limited, c.lane.most)
      sized == SizeToLimits(requested, Caps(in, c, Wing, c.credit))
      legacy == LegacyQty(in, c)
  IN  IF AggregateRiskBudget
      THEN [requested |-> requested, fits |-> sized.qty, gate |-> sized.gate,
            order |-> Daily(in, c, sized.qty)]
      ELSE [requested |-> legacy, fits |-> legacy, gate |-> "none", order |-> legacy]

TodaysPnl(in) ==
  (IF riskDay = day THEN realized ELSE 0)
    + SumFunction([p \in book |-> (p.credit - Mark(in, p)) * p.qty])

SizeReason(in, c, s) ==
  FirstReason(
    << Gate(s.fits = 0, "risk_budget"),
       Gate(s.order = 0, "daily_risk"),
       Gate(AggregateRiskBudget /\ TodaysPnl(in) =< -(HaltPct * in.equity),
            "day_loss_halt"),
       Gate(GateRefusal(Structural(Wing, c.quote.natural), s.order, in.equity,
                        Cardinality(book)) # "ok", "risk_gate") >>)

\* The five-wide spread that might have fitted where the ten-wide did not.
Shadow(in, c, s) ==
  LET wing == Wing \div 2
      credit == c.quote.half
  IN  IF /\ FiveWideShadow /\ AggregateRiskBudget /\ s.requested > 0
         /\ s.fits = 0 /\ credit > 0
      THEN SizeToLimits(SizeQty(in.equity, wing, credit),
                        Caps(in, c, wing, credit)).qty
      ELSE 0

(* What every cycle records.                                               *)

StateOf(reason, gate) ==
  CASE reason = "trend_paused" -> "risk_off"
    [] reason = "no_order" -> "no_valid_expiration"
    [] reason \in {"quote_invalid", "quote_wide"} -> "no_valid_quotes"
    [] reason \in {"credit_too_low", "cost_gate"} -> "no_qualified_credit"
    [] reason = "risk_budget" ->
         IF gate \in {"gap_1atr", "gap_1_5atr", "gap_2atr"} THEN "no_gap_capacity"
         ELSE "no_risk_capacity"
    [] OTHER -> "active"

\* _log_decision before there is an order: the row and the state, no signal.
Log(row) ==
  /\ decision' = row
  /\ entryState' = IF EntryStateTracking THEN StateOf(row.reason, row.gate)
                   ELSE entryState

\* _record_markout: the same candidate and outcome as the last is skipped.
Signal(c, filled) ==
  LET key == [key |-> KeyOf(c), filled |-> filled]
  IN  IF MarkoutTracking /\ lastMarkout # << key >>
      THEN signals' = signals + 1 /\ lastMarkout' = << key >>
      ELSE UNCHANGED << signals, lastMarkout >>

Row(reason) ==
  [reason |-> reason, expiry |-> 0, credit |-> 0, requested |-> 0, fits |-> 0,
   order |-> 0, gate |-> "none", shadow |-> 0, read |-> << >>]

RowOf(in, c, reason) ==
  [Row(reason) EXCEPT !.expiry = c.expiry, !.credit = c.credit, !.read = << in >>]

SizedRow(in, c, s, reason) ==
  [RowOf(in, c, reason) EXCEPT
     !.requested = s.requested, !.fits = s.fits, !.order = s.order, !.gate = s.gate,
     !.shadow = IF reason = "risk_budget" THEN Shadow(in, c, s) ELSE 0]

StartCycle ==
  /\ cycles < MaxCycles
  /\ cycles' = cycles + 1
  /\ UNCHANGED << bot, clockVars >>

\* Past the quotes a candidate exists: it is counted, and observed.
Observe(c) ==
  LET key == KeyOf(c)
      credit == c.credit
      bucket == Bucket(c.expiry - day)
      recorded == CreditTiers /\ NewObservation(lastSeen[bucket], key, credit)
  IN  /\ raw' = raw + 1
      /\ unique' = IF NewCandidate({s \in seen : s.key.day = day}, key, credit)
                   THEN unique + 1 ELSE unique
      /\ seen' = Sighted(seen, key, credit, day)
      /\ history' = IF recorded
                    THEN [history EXCEPT ![bucket] = LastOf(Append(@, credit))]
                    ELSE history
      /\ lastSeen' = IF recorded
                     THEN [lastSeen EXCEPT ![bucket] =
                             << [key |-> key, credit |-> credit] >>]
                     ELSE lastSeen

(* The steps.                                                              *)

BlockedEarly(in) ==
  /\ EarlyReason(in) # "go"
  /\ StartCycle
  /\ entriesToday' = EntriesSoFar
  /\ Log(Row(EarlyReason(in)))
  /\ UNCHANGED << bookVars, dayVars, creditVars, signals, lastMarkout >>

\* Without an order there is no candidate to follow up.
BlockedByQuotes(in, c) ==
  /\ QuoteReason(c) # "go"
  /\ StartCycle
  /\ entriesToday' = EntriesSoFar
  /\ Log(RowOf(in, c, QuoteReason(c)))
  /\ IF QuoteReason(c) = "no_order" THEN UNCHANGED << signals, lastMarkout >>
     ELSE Signal(c, FALSE)
  /\ UNCHANGED << bookVars, dayVars, creditVars >>

BlockedByCredit(in, c) ==
  /\ QuoteReason(c) = "go" /\ CreditReason(in, c) # "go"
  /\ StartCycle
  /\ entriesToday' = EntriesSoFar
  /\ Observe(c)
  /\ Log(RowOf(in, c, CreditReason(in, c)))
  /\ Signal(c, FALSE)
  /\ UNCHANGED << bookVars, dayVars >>

\* The daily gate drops yesterday's realized result before it reads it.
DayStarts(s) ==
  IF AggregateRiskBudget /\ s.fits > 0 /\ riskDay # day
  THEN realized' = 0 /\ riskDay' = day
  ELSE UNCHANGED dayVars

BlockedBySize(in, c, s) ==
  /\ SizeReason(in, c, s) # "go"
  /\ StartCycle
  /\ entriesToday' = EntriesSoFar
  /\ Observe(c)
  /\ DayStarts(s)
  /\ Log(SizedRow(in, c, s, SizeReason(in, c, s)))
  /\ Signal(c, FALSE)
  /\ UNCHANGED bookVars

(* An order is sent.  The answer is a fill: the broker's status, the       *)
(* covered contracts, whether the legs are equal, and a price.             *)

Fills(c, s) ==
  {f \in [filled : BOOLEAN, qty : 0..s.order, balanced : BOOLEAN,
          price : {c.quote.natural, c.credit}] :
     (f.filled /\ f.balanced) <=> f.qty = s.order}

BookedCredit(c, fill) ==
  IF ActualFillAccounting THEN fill.price ELSE c.quote.natural

Submit(c, s, fill) ==
  /\ StartCycle
  /\ Observe(c)
  /\ DayStarts(s)
  /\ halted' = (halted \/ ~fill.balanced)

\* _record_open.
Record(c, qty, credit) ==
  /\ book' = book \cup {[Proposal(c.quote.short, c.expiry, credit)
                           EXCEPT !.qty = qty]}
  /\ lastEntry' = day
  /\ entriesToday' = EntriesSoFar + 1

NoRecord == entriesToday' = EntriesSoFar /\ UNCHANGED << book, lastEntry >>

\* Status "filled": the order's quantity, or the covered part of unequal legs.
Filled(in, c, s, fill) ==
  /\ fill.filled /\ fill.qty > 0
  /\ Submit(c, s, fill)
  /\ Record(c, fill.qty, BookedCredit(c, fill))
  /\ Log(SizedRow(in, c, s, "filled"))
  /\ Signal(c, TRUE)

FilledOneLeg(in, c, s, fill) ==
  /\ fill.filled /\ fill.qty = 0
  /\ Submit(c, s, fill)
  /\ NoRecord
  /\ Log(SizedRow(in, c, s, "unmatched_legs_zero_covered"))
  /\ Signal(c, FALSE)

\* Any other status with contracts filled; its signal counts as not filled.
FilledInPart(in, c, s, fill) ==
  /\ ~fill.filled /\ fill.qty > 0
  /\ Submit(c, s, fill)
  /\ Record(c, fill.qty, BookedCredit(c, fill))
  /\ Log(SizedRow(in, c, s, "partial_fill"))
  /\ Signal(c, FALSE)

NotFilled(in, c, s, fill) ==
  /\ ~fill.filled /\ fill.qty = 0
  /\ Submit(c, s, fill)
  /\ NoRecord
  /\ Log(SizedRow(in, c, s, "not_filled"))
  /\ Signal(c, FALSE)

Answered(in, c, s) ==
  /\ SizeReason(in, c, s) = "go"
  /\ \E fill \in Fills(c, s) :
       \/ Filled(in, c, s, fill) \/ FilledOneLeg(in, c, s, fill)
       \/ FilledInPart(in, c, s, fill) \/ NotFilled(in, c, s, fill)

\* contracts_for_risk raises for an account or a spread without risk to take,
\* and nothing catches it: the program ends before the cycle leaves a trace.
SizingRaises(in, c) ==
  ~AggregateRiskBudget /\ (in.equity =< 0 \/ Structural(Wing, c.quote.natural) =< 0)

Sized(in, c) ==
  /\ QuoteReason(c) = "go" /\ CreditReason(in, c) = "go"
  /\ ~SizingRaises(in, c)
  /\ \E s \in {Sizing(in, c)} : BlockedBySize(in, c, s) \/ Answered(in, c, s)

Considered(in) ==
  /\ EarlyReason(in) = "go"
  /\ \E c \in {Candidate(in)} :
       BlockedByQuotes(in, c) \/ BlockedByCredit(in, c) \/ Sized(in, c)

Cycle(in) == BlockedEarly(in) \/ Considered(in)

(* Between the cycles.                                                     *)

Idle == UNCHANGED << bot, creditVars, cycles, signals, lastMarkout, entryState >>

Elapse ==
  /\ IF window < NumWindows THEN window' = window + 1 /\ day' = day
     ELSE window' = 0 /\ day' = day + 1
  /\ day' =< NumDays
  /\ decision' = Row("none")
  /\ UNCHANGED << bookVars, entriesToday, dayVars >> /\ Idle

\* _accumulate_realized, on whatever the closed position made or lost.
Close(p, pnl) ==
  /\ book' = book \ {p}
  /\ realized' = (IF riskDay = day THEN realized ELSE 0) + pnl
  /\ riskDay' = day
  /\ decision' = Row("none")
  /\ UNCHANGED << clockVars, halted, lastEntry, entriesToday >> /\ Idle

OperatorClears ==
  /\ halted /\ halted' = FALSE
  /\ decision' = Row("none")
  /\ UNCHANGED << clockVars, book, lastEntry, entriesToday, dayVars >> /\ Idle

Between ==
  \/ Elapse \/ OperatorClears
  \/ \E p \in book, loss \in Losses : Close(p, -loss)

Init ==
  /\ bot \in Bots
  /\ day = 1 /\ window = 0
  /\ book = {} /\ halted = FALSE
  /\ entriesToday = 0 /\ lastEntry = 0
  /\ realized = 0 /\ riskDay = 0
  /\ history = [b \in Buckets |-> << >>] /\ lastSeen = [b \in Buckets |-> << >>]
  /\ seen = {} /\ cycles = 0 /\ raw = 0 /\ unique = 0
  /\ signals = 0 /\ lastMarkout = << >>
  /\ entryState = "none" /\ decision = Row("none")

Next == Between \/ \E in \in Inputs : Cycle(in)

\* Nothing reads the last row or the reported state: two states that differ in
\* them alone have the same future.
Remembered == << bot, clockVars, bookVars, entriesToday, dayVars, creditVars,
                 cycles, signals, lastMarkout >>

Spec == Init /\ [][Next]_vars

-----------------------------------------------------------------------------
(* What must hold.                                                         *)

\* Every variable keeps its type; the quantity booked by a cycle is positive,
\* the kept history is bounded, the day's entries and the book are capped.
TypeOK ==
  /\ bot \in Bots /\ day \in 1..NumDays /\ window \in 0..NumWindows
  /\ book \subseteq [short : Strikes, expiry : Expiries, day : 1..NumDays,
                     qty : Nat \ {0}, credit : Nat \ {0}]
  /\ Cardinality(book) =< MaxOpen /\ halted \in BOOLEAN
  /\ entriesToday \in 0..MaxEntries /\ lastEntry \in 0..NumDays
  /\ realized \in Int /\ riskDay \in 0..NumDays
  /\ \A b \in Buckets : Len(history[b]) =< MaxHistory /\ Len(lastSeen[b]) =< 1
  /\ \A s, t \in seen : s.key = t.key => s = t
  /\ raw \in 0..cycles /\ unique \in 0..raw /\ signals \in 0..cycles

Opens == book' # book /\ cycles' # cycles

\* The account with the new position in it, each key at the larger of what the
\* broker and the bot say, worked out from the books and not from the caps.
Everything(in, mine) ==
  mine \cup
    {[a EXCEPT !.qty = @ - Quantity(mine, a.short, a.expiry)] :
       a \in {f \in in.account : f.qty > Quantity(mine, f.short, f.expiry)}}

\* run_entry_cycle's promise (orchestrator.py:1264-1266): when a cycle of an
\* aggregate-budget bot opens a position, the whole book with the position at
\* the credit it was judged at keeps every one of the limits: the stops of the
\* day with the day's realized loss, of the expiration and in total, the
\* structural risk, the three gap scenarios, and the one-contract ceiling.
\* The legacy bot's trade keeps its per-trade cap although it never asks for
\* less than one contract.
KeepsLimits(in, row, new) ==
  LET judged == [new EXCEPT !.credit = row.credit]
      others == Everything(in, book' \ {new}) \ (book' \ {new})
      stop == PlannedStop(Wing, row.credit) * new.qty
      lost == IF riskDay' = day /\ realized' < 0 THEN -realized' ELSE 0
      sameDay == {p \in book : p.day = day}
      sameExpiry == {p \in book : p.expiry = new.expiry}
      StopsWith(positions) == stop + StopOf(positions, Marks(in))
  IN  IF ~AggregateRiskBudget
      THEN Structural(Wing, new.credit) * new.qty =< GatePct * in.equity
      ELSE /\ lost + StopsWith(sameDay) =< DayPct * in.equity
           /\ StopsWith(sameExpiry) =< ExpiryPct * in.equity
           /\ StopsWith(book) + ForeignStop(others) =< StopPct * in.equity
           /\ StructuralOf(book \cup {judged}, Wing) + StructuralOf(others, Wing)
                =< StructuralPct * in.equity
           /\ \A s \in Scenarios :
                GapLossOf(book \cup {judged} \cup others, s) =< GapPct[s] * in.equity
           /\ HasCeiling => new.qty =< 1

EntryWithinLimits ==
  [][Opens => \A new \in book' \ book :
                KeepsLimits(decision'.read[1], decision', new)]_vars

\* Two open positions never share strikes and expiration: the broker nets
\* their legs, and reconcile would halt on the quantity (orchestrator.py:
\* 1250-1256).
NeverStacked ==
  \A p, q \in book : p.short = q.short /\ p.expiry = q.expiry => p = q

\* The pre-selection runs its own copy of the gates (expirations.py:100-218).
\* When it picked an expiration, the cycle's gates agree: no gate that both
\* run turns the candidate down, and sizing it again fits the same quantity.
PreselectionHolds ==
  [][ /\ AlternateExpirations /\ cycles' # cycles
      /\ decision'.read # << >>
      => LET in == decision'.read[1]
             picked == Evaluate(in, decision'.expiry)
         IN  Eligible(in) # {} =>
               /\ decision'.reason \notin {"no_order", "quote_invalid", "quote_wide",
                                          "cost_gate", "risk_budget"}
               /\ decision'.requested > 0 => decision'.fits = picked.qty ]_vars

\* At each strikes and expiration the bot's own contracts and the foreign ones
\* add up to the larger of the two books: nothing of the account is counted
\* twice, and nothing is left out because this bot is in it too.
ForeignCountedOnce ==
  \A in \in Inputs : \A a \in in.account :
    LET own == Quantity(book, a.short, a.expiry)
        foreign == Quantity(ForeignSpreads(in.account, book), a.short, a.expiry)
    IN  own + foreign = Larger(own, Quantity(in.account, a.short, a.expiry))

\* The bot's own account of the day, its caps and its observations hold
\* together, and its account of the others counts each contract once.
AccountIsSound == TypeOK /\ ForeignCountedOnce
=============================================================================
