----------------------------- MODULE TradeReport -----------------------------
(***************************************************************************)
(* What ops/report.py reads out of the rows of one trade log.  A row is a  *)
(* record with every column; a column that is blank or that the file does  *)
(* not have is None.  Days are numbers; a week is Week days.  The fields   *)
(* n and of are no columns: they number the openings and say which opening *)
(* an exit really belongs to.                                              *)
(***************************************************************************)
EXTENDS Integers, Sequences, FiniteSets, SequencesExt, FiniteSetsExt, Folds

CONSTANTS None, Week

Blank ==
  [event |-> None, day |-> None, key |-> None, status |-> None, qty |-> None,
   pnl |-> None, gross |-> None, net |-> None, value |-> None,
   decision |-> None, asked |-> None, approved |-> None, gate |-> None,
   outcome |-> None, tier |-> None, n |-> None, of |-> None]

Known(x) == IF x = None THEN 0 ELSE x
Total(rows, Value(_)) == FoldLeft(LAMBDA sum, row : sum + Known(Value(row)), 0, rows)

CloseEvents == {"CLOSE", "DEGROSS", "FLOW_DEGROSS"}
PreSignalGates == {"halted", "wrong_weekday", "off_hours", "max_open", "max_entries"}

IsClose(row) == row.event \in CloseEvents
IsDecision(row) == row.event = "DECISION"
IsOpen(row) == row.event = "OPEN"
IsFullOpen(row) == IsOpen(row) /\ row.status = "filled"

\* Mutant: de-gross closes are forgotten.
PnlOfClosesOnly(row) == IF row.event = "CLOSE" THEN row.pnl ELSE None

PnlOf(row) == IF row.net # None THEN row.net ELSE row.pnl
GrossOf(row) == IF row.gross # None THEN row.gross ELSE row.pnl

(***************************************************************************)
(* Windows.                                                                *)
(***************************************************************************)
WeekOf(day) == (day - 1) \div Week

Window(period, asof) ==
  IF period = "weekly" THEN (WeekOf(asof) * Week + 1)..((WeekOf(asof) + 1) * Week) ELSE {asof}

InWindow(rows, window) == SelectSeq(rows, LAMBDA row : row.day \in window)

LatestDay(rows) == IF rows = << >> THEN None ELSE Max({rows[i].day : i \in DOMAIN rows})

(***************************************************************************)
(* Which opening an exit came from: first in, first out, by position key.  *)
(***************************************************************************)
Unmatched == [day |-> None, number |-> None, tier |-> None, n |-> None]

Opened(acc, row) ==
  [queue |-> Append(acc.queue, [key |-> row.key, day |-> row.day, tier |-> acc.tier, n |-> row.n,
                               number |-> Cardinality({i \in DOMAIN acc.opens :
                                                         acc.opens[i] = row.day}) + 1]),
   opens |-> Append(acc.opens, row.day),
   tier |-> None,
   trades |-> acc.trades]

FirstOf(acc, row) == {i \in DOMAIN acc.queue : /\ acc.queue[i].key = row.key
                                               /\ \A j \in 1..i-1 : acc.queue[j].key # row.key}

\* Mutant: the opening stays first in its queue.
ExitedKeeps(acc, row) ==
  LET first == FirstOf(acc, row)
      entry == IF first = {} THEN Unmatched ELSE acc.queue[CHOOSE i \in first : TRUE]
  IN  [acc EXCEPT !.trades =
         Append(@, [day |-> entry.day, number |-> entry.number, tier |-> entry.tier, n |-> entry.n,
                    of |-> row.of, exit |-> row.day, pnl |-> PnlOf(row), gross |-> GrossOf(row)])]

Exited(acc, row) ==
  LET first == FirstOf(acc, row)
      entry == IF first = {} THEN Unmatched ELSE acc.queue[CHOOSE i \in first : TRUE]
      trade == [day |-> entry.day, number |-> entry.number, tier |-> entry.tier, n |-> entry.n,
                of |-> row.of, exit |-> row.day, pnl |-> PnlOf(row), gross |-> GrossOf(row)]
  IN  [acc EXCEPT !.queue = IF first = {} THEN @ ELSE RemoveAt(@, CHOOSE i \in first : TRUE),
                  !.trades = Append(@, trade)]

MatchStep(acc, row) ==
  CASE IsDecision(row) -> IF row.decision = "filled" THEN [acc EXCEPT !.tier = row.tier] ELSE acc
    [] IsFullOpen(row) -> Opened(acc, row)
    [] IsClose(row) -> Exited(acc, row)
    [] OTHER -> acc

MatchTrades(rows) ==
  FoldLeft(MatchStep, [queue |-> << >>, opens |-> << >>, tier |-> None, trades |-> << >>], rows).trades

(***************************************************************************)
(* The blocks of the report.                                               *)
(***************************************************************************)
NetOf(rows) == Total(SelectSeq(rows, IsClose), PnlOf)
GrossTotal(rows) == Total(SelectSeq(rows, IsClose), GrossOf)

Fill(rows) ==
  LET candidates == SelectSeq(SelectSeq(rows, IsDecision),
                              LAMBDA row : row.decision \notin PreSignalGates)
  IN  [candidates |-> Len(candidates),
       filled |-> Len(SelectSeq(rows, IsFullOpen)),
       rejected |-> Len(SelectSeq(candidates, LAMBDA row : row.decision # "filled"))]

FallStep(acc, pnl) ==
  LET cum == acc.cum + pnl
      peak == Max({acc.peak, cum})
  IN  [cum |-> cum, peak |-> peak, fall |-> Max({acc.fall, peak - cum})]

Pnls(rows) ==
  LET known == SelectSeq(rows, LAMBDA row : IsClose(row) /\ PnlOf(row) # None)
  IN  [i \in DOMAIN known |-> PnlOf(known[i])]

\* The rows of a log are in the order of their dates, which is the report's.
Drawdown(rows) == FoldLeft(FallStep, [cum |-> 0, peak |-> 0, fall |-> 0], Pnls(rows)).fall

DayTotal(rows, day) == NetOf(SelectSeq(rows, LAMBDA row : row.day = day))
WorstSession(rows) ==
  LET closed == SelectSeq(rows, LAMBDA row : IsClose(row) /\ PnlOf(row) # None)
  IN  IF closed = << >> THEN None
      ELSE Min({DayTotal(rows, closed[i].day) : i \in DOMAIN closed})

(***************************************************************************)
(* The entry funnel.                                                       *)
(***************************************************************************)
\* Mutant: what the credit gate would have removed is removed twice.
RemovedTwice(rows, isGap) ==
  FoldLeft(LAMBDA sum, row :
             IF IsDecision(row) /\ row.asked # None /\ row.approved # None
             THEN sum + row.asked - row.approved ELSE sum, 0, rows)

\* Contracts that a cap took: gap stress, or any other.
Removed(rows, isGap) ==
  FoldLeft(LAMBDA sum, row :
             IF /\ IsDecision(row) /\ row.asked # None /\ row.approved # None
                /\ row.asked > row.approved
                /\ (row.gate = "gap") = isGap
             THEN sum + row.asked - row.approved ELSE sum, 0, rows)

Contracts(rows) ==
  [requested |-> Total(SelectSeq(rows, IsDecision), LAMBDA row : row.asked),
   approved |-> Total(SelectSeq(rows, IsDecision), LAMBDA row : row.approved),
   submitted |-> Total(SelectSeq(rows, IsOpen), LAMBDA row : row.qty),
   filled |-> Total(SelectSeq(rows, IsFullOpen), LAMBDA row : row.qty),
   byAggregate |-> Removed(rows, FALSE),
   byGap |-> Removed(rows, TRUE)]

Reconciles(rows) ==
  LET c == Contracts(rows) IN c.requested = c.filled + c.byAggregate + c.byGap

Outcomes(rows) ==
  LET count(outcome) == Len(SelectSeq(rows, LAMBDA row : row.outcome = outcome))
  IN  [full |-> count("allowed_full"), reduced |-> count("allowed_reduced"),
       blocked |-> count("blocked_zero_capacity")]

Orders(rows) ==
  LET count(status) == Len(SelectSeq(rows, LAMBDA row : IsOpen(row) /\ row.status = status))
      allowed == Len(SelectSeq(rows, LAMBDA row : row.decision = "filled"))
  IN  [allowed |-> allowed, submitted |-> Len(SelectSeq(rows, IsOpen)), filled |-> count("filled"),
       partly |-> count("partially_filled") + count("partial"),
       unfilled |-> Max({0, allowed - count("filled")})]

Groups(trades, column) == {trades[i][column] : i \in DOMAIN trades}

\* Trades of one tier, entry number, weekday or distance, None being "unclassified" or "unknown".
GroupPerformance(trades, column) ==
  [g \in Groups(trades, column) |->
     LET group == SelectSeq(trades, LAMBDA t : t[column] = g)
     IN  [count |-> Len(group), total |-> Total(group, LAMBDA t : t.pnl),
          wins |-> Len(SelectSeq(group, LAMBDA t : t.pnl # None /\ t.pnl > 0))]]

\* The most contracts opened in one day; all of them have the same strikes and credit here.
SameDayRisk(rows) ==
  LET risked == SelectSeq(rows, IsFullOpen)
      on(day) == Total(SelectSeq(risked, LAMBDA row : row.day = day), LAMBDA row : row.qty)
  IN  IF risked = << >> THEN None ELSE Max({on(risked[i].day) : i \in DOMAIN risked})

Report(rows, period, asof) ==
  LET seen == InWindow(rows, Window(period, asof))
      trades == SelectSeq(MatchTrades(rows), LAMBDA t : t.exit \in Window(period, asof))
  IN  [net |-> NetOf(seen), gross |-> GrossTotal(seen), fill |-> Fill(seen),
       byTier |-> GroupPerformance(trades, "tier"),
       byEntry |-> GroupPerformance(trades, "number"),
       risk |-> SameDayRisk(seen), drawdown |-> Drawdown(seen), worst |-> WorstSession(seen),
       closed |-> Len(SelectSeq(trades, LAMBDA t : t.pnl # None)), trades |-> trades,
       contracts |-> Contracts(seen), reconciles |-> Reconciles(seen),
       outcomes |-> Outcomes(seen), orders |-> Orders(seen)]
=============================================================================
