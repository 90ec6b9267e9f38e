------------------------------- MODULE TradeLog -------------------------------
(***************************************************************************)
(* The trade log of one bot: the rows run_entry_cycle, run_management_     *)
(* cycle, the de-gross cycles and run_reconcile_cycle write                *)
(* (orchestrator.py), the file make_trade_logger puts them into            *)
(* (wiring.py), which is rotated when its columns are not those of the     *)
(* running configuration, and the report read from it (TradeReport).       *)
(*                                                                         *)
(* Money is counted per contract in small integers.                        *)
(***************************************************************************)
EXTENDS TradeReport

CONSTANTS
  Keys,              \* position keys
  MaxQty,            \* contracts asked for
  Credit, Values,    \* credit of an opening, what a close may cost
  OpenFees, CloseFees,
  Accounting,        \* features.actual_fill_accounting
  MaxDays, MaxRows,  \* bounds
  MaxFiles,          \* bound: nothing is written beyond that many files
  MaxRejected        \* bound on the decisions that open nothing

ASSUME LogAssumption ==
  /\ MaxQty \in Nat \ {0} /\ Credit \in Int /\ Values \subseteq Int
  /\ OpenFees \in Nat /\ CloseFees \in Nat /\ Accounting \in BOOLEAN
  /\ MaxDays \in Nat \ {0} /\ MaxRows \in Nat /\ MaxRejected \in Nat /\ MaxFiles \in Nat /\ Week \in Nat \ {0}

VARIABLES
  day,
  logging,           \* features.decision_logging
  book,              \* open positions: contracts, fees not booked yet, opening
  openings,          \* how many there have been
  files,             \* the log files, the current one last
  cash,              \* what the exits were worth, fees of their openings included
  unfilled,          \* contracts approved that were not all bought
  unlogged           \* positions that left without a row

vars == << day, logging, book, openings, files, cash, unfilled, unlogged >>

Tracked == {k \in Keys : book[k] # None}
Columns == IF logging THEN {"cost", "decision"} ELSE {"cost"}

\* _ensure_header_matches: a file with other columns is set aside.
Current ==
  IF files # << >> /\ Last(files).columns = Columns THEN files
  ELSE Append(files, [columns |-> Columns, rows |-> << >>])

Log(rows) ==
  files' = IF rows = << >> THEN files
           ELSE [Current EXCEPT ![Len(Current)].rows = @ \o rows]

RowsSoFar == FoldLeft(LAMBDA sum, file : sum + Len(file.rows), 0, files)
AllRows == FoldLeft(LAMBDA all, file : all \o file.rows, << >>, files)

(***************************************************************************)
(* The entry cycle.                                                        *)
(***************************************************************************)
Decision(row) == IF logging THEN << [row EXCEPT !.event = "DECISION", !.day = day] >> ELSE << >>

Outcome(asked, approved) ==
  IF approved = 0 THEN "blocked_zero_capacity"
  ELSE IF approved < asked THEN "allowed_reduced" ELSE "allowed_full"

\* requested_qty is logged as the quality-adjusted quantity.
Sized(reason, asked, approved, gate) ==
  [Blank EXCEPT !.decision = reason, !.asked = asked, !.approved = approved,
                !.gate = gate, !.outcome = Outcome(asked, approved)]

\* A full candidate asks for MaxQty contracts, a probe for one.
Asks(tier) == IF tier = "full" THEN MaxQty ELSE 1

Sizings ==
  {s \in [asked : 1..MaxQty, approved : 0..MaxQty, gate : {None, "gap", "max_total"},
          tier : {"full", "probe"}] :
     /\ s.asked = Asks(s.tier)
     /\ s.approved =< s.asked /\ (s.gate = None <=> s.approved = s.asked)}

Rejected(reason) ==
  /\ Log(Decision([Blank EXCEPT !.decision = reason]))
  /\ UNCHANGED << day, logging, book, openings, cash, unfilled, unlogged >>

BlockedBySize(s) ==
  /\ s.approved = 0
  /\ Log(Decision(Sized("risk_budget", s.asked, 0, s.gate)))
  /\ UNCHANGED << day, logging, book, openings, cash, unfilled, unlogged >>

\* The day gates and the broker come after the sizing.
NotFilled(s, reason) ==
  /\ s.approved > 0
  /\ Log(Decision([Sized(reason, s.asked, s.approved, s.gate) EXCEPT
                     !.outcome = IF reason = "day_loss_halt" THEN None ELSE @]))
  /\ unfilled' = TRUE
  /\ UNCHANGED << day, logging, book, openings, cash, unlogged >>

Fees(qty) == IF Accounting THEN OpenFees ELSE 0

\* _record_open: the decision first, then the opening.
Opens(k, s, filled, reason, status) ==
  /\ k \notin Tracked
  /\ s.approved > 0
  /\ book' = [book EXCEPT ![k] = [qty |-> filled, fees |-> Fees(filled), n |-> openings + 1]]
  /\ openings' = openings + 1
  /\ Log(Decision([Sized(reason, s.asked, s.approved, s.gate) EXCEPT !.tier = s.tier]) \o
         << [Blank EXCEPT !.event = "OPEN", !.day = day, !.key = k, !.qty = filled,
                          !.status = status, !.n = openings + 1] >>)
  /\ UNCHANGED << day, logging, cash, unlogged >>

Filled(k, s) == Opens(k, s, s.approved, "filled", "filled") /\ UNCHANGED unfilled

PartlyFilled(k, s, filled) ==
  /\ filled < s.approved
  /\ Opens(k, s, filled, "partial_fill", "partial_fill")
  /\ unfilled' = TRUE

(***************************************************************************)
(* The exits.                                                              *)
(***************************************************************************)
FeesShare(position, qty) == (position.fees * qty) \div position.qty

ExitRow(event, k, qty, status, value) ==
  LET gross == (Credit - value) * qty
      net == gross - FeesShare(book[k], qty) - CloseFees
      row == [Blank EXCEPT !.event = event, !.day = day, !.key = k, !.qty = qty,
                           !.status = status, !.value = value, !.of = book[k].n]
  IN  IF value = None THEN row
      ELSE IF Accounting THEN [row EXCEPT !.pnl = net, !.gross = gross, !.net = net]
      ELSE [row EXCEPT !.pnl = gross]

\* What the exit was worth, with the fees of the whole opening at its last one.
Worth(k, value, qty) ==
  (Credit - value) * qty - (IF Accounting THEN CloseFees ELSE 0)
    - (IF qty = book[k].qty THEN Fees(qty) ELSE 0)

CloseInFull(k, event, value) ==
  /\ k \in Tracked
  /\ Log(<< ExitRow(event, k, book[k].qty, "filled", value) >>)
  /\ book' = [book EXCEPT ![k] = None]
  /\ cash' = cash + Worth(k, value, book[k].qty)
  /\ UNCHANGED << day, logging, openings, unfilled, unlogged >>

CloseInPart(k, qty, value) ==
  /\ k \in Tracked /\ qty < book[k].qty
  /\ Log(<< ExitRow("CLOSE", k, qty, "partially_filled", value) >>)
  /\ book' = [book EXCEPT ![k].qty = @ - qty, ![k].fees = @ - FeesShare(book[k], qty)]
  /\ cash' = cash + Worth(k, value, qty)
  /\ UNCHANGED << day, logging, openings, unfilled, unlogged >>

\* A failed close writes a row with the whole quantity and no P&L.
CloseFails(k) ==
  /\ k \in Tracked
  /\ Log(<< ExitRow("CLOSE", k, book[k].qty, "timeout", None) >>)
  /\ UNCHANGED << day, logging, book, openings, cash, unfilled, unlogged >>

\* Gone at the broker: booked at the mark, net of the opening's fees only.
ReconciledAway(k, mark) ==
  /\ k \in Tracked
  /\ LET pnl == (Credit - mark) * book[k].qty - book[k].fees
     IN  Log(<< [Blank EXCEPT !.event = "CLOSE", !.day = day, !.key = k, !.qty = book[k].qty,
                              !.status = "reconciled_away", !.value = mark, !.pnl = pnl,
                              !.of = book[k].n] >>)
  /\ cash' = cash + (Credit - mark) * book[k].qty - Fees(book[k].qty)
  /\ book' = [book EXCEPT ![k] = None]
  /\ UNCHANGED << day, logging, openings, unfilled, unlogged >>

LeavesUnmarked(k) ==
  /\ k \in Tracked
  /\ book' = [book EXCEPT ![k] = None]
  /\ unlogged' = TRUE
  /\ UNCHANGED << day, logging, openings, files, cash, unfilled >>

(***************************************************************************)
NextDay ==
  /\ day < MaxDays
  /\ day' = day + 1
  /\ UNCHANGED << logging, book, openings, files, cash, unfilled, unlogged >>

\* The process is started again with the other configuration.
Redeploy ==
  /\ logging' = ~logging
  /\ UNCHANGED << day, book, openings, files, cash, unfilled, unlogged >>

Init ==
  /\ day = 1
  /\ logging \in BOOLEAN
  /\ book = [k \in Keys |-> None]
  /\ openings = 0
  /\ files = << >>
  /\ cash = 0
  /\ unfilled = FALSE
  /\ unlogged = FALSE

Rejections ==
  Len(SelectSeq(AllRows, LAMBDA row : IsDecision(row) /\ row.decision # "filled"))
Room(n) == RowsSoFar + n =< MaxRows /\ Len(Current) =< MaxFiles

Next ==
  \/ /\ Room(1) /\ Rejections < MaxRejected
     /\ \/ \E reason \in {"off_hours", "cost_gate"} : Rejected(reason)
        \/ \E s \in Sizings : BlockedBySize(s)
        \/ \E s \in Sizings, reason \in {"day_loss_halt", "timeout"} : NotFilled(s, reason)
  \/ /\ Room(2)
     /\ \E k \in Keys, s \in Sizings :
          \/ Filled(k, s)
          \/ \E filled \in 1..MaxQty : PartlyFilled(k, s, filled)
  \/ /\ Room(1)
     /\ \E k \in Keys :
          \/ \E event \in CloseEvents, value \in Values : CloseInFull(k, event, value)
          \/ \E qty \in 1..MaxQty, value \in Values : CloseInPart(k, qty, value)
          \/ CloseFails(k)
          \/ \E mark \in Values : ReconciledAway(k, mark)
  \/ \E k \in Keys : LeavesUnmarked(k)
  \/ NextDay
  \/ Redeploy

Spec == Init /\ [][Next]_vars

-----------------------------------------------------------------------------
TypeOK ==
  /\ day \in 1..MaxDays /\ logging \in BOOLEAN
  /\ \A k \in Tracked : /\ book[k].qty \in 1..MaxQty /\ book[k].fees \in 0..OpenFees
                        /\ book[k].n \in 1..openings
  /\ \A i \in DOMAIN files : /\ files[i].columns \subseteq {"cost", "decision"}
                             /\ \A j \in DOMAIN files[i].rows :
                                  DOMAIN files[i].rows[j] = DOMAIN Blank
  /\ cash \in Int /\ unfilled \in BOOLEAN /\ unlogged \in BOOLEAN

LatestFile == IF files = << >> THEN << >> ELSE Last(files).rows

(* The P&L the logs report is the money: over partial closes, which share the
   opening's fees among them, de-gross closes, reconciled-away positions and
   files that were set aside, nothing is lost or counted twice. *)
NetIsCash == Tracked = {} /\ ~unlogged => NetOf(AllRows) = cash

(* "FIFO-pair every CLOSE-like row to the OPEN that created it": an exit is
   never put down to another opening of the same strikes, unless a position
   left without a row. *)
NeverMispaired ==
  ~unlogged => \A i \in DOMAIN MatchTrades(LatestFile) :
                 LET t == MatchTrades(LatestFile)[i] IN t.n \in {None, t.of}

(* The drawdown of the report is the deepest fall of the cumulated P&L from
   any earlier point, the start included. *)
DeepestFall ==
  LET pnls == Pnls(LatestFile)
      cum == [i \in 0..Len(pnls) |-> FoldLeft(+, 0, SubSeq(pnls, 1, i))]
  IN  Drawdown(LatestFile) = Max({cum[i] - cum[j] : <<i, j>> \in
                                    {<<a, b>> \in (0..Len(pnls)) \X (0..Len(pnls)) : a =< b}})

(* The daily reports of a week add up to the weekly one, and its risk is that
   of its worst day. *)
DaysMakeTheWeek ==
  LET daily == [e \in 1..MaxDays |-> Report(LatestFile, "daily", e)]
  IN  \A d \in 1..MaxDays :
        LET week == Report(LatestFile, "weekly", d)
            days == {e \in 1..MaxDays : WeekOf(e) = WeekOf(d)}
            risks == {daily[e].risk : e \in days} \ {None}
        IN  /\ week.net = FoldFunctionOnSet(LAMBDA report, acc : report.net + acc, 0, daily, days)
            /\ week.risk = IF risks = {} THEN None ELSE Max(risks)

(* However the trades of a week are grouped, the groups add up to its P&L:
   an exit whose opening the log does not have is a trade of its own. *)
GroupsMakeTheTotal ==
  LatestFile # << >> =>
    LET report == Report(LatestFile, "weekly", LatestDay(LatestFile))
        sum(groups) == FoldFunction(LAMBDA group, acc : group.total + acc, 0, groups)
    IN  sum(report.byTier) = report.net /\ sum(report.byEntry) = report.net

(* Fills are a share of the candidates: in one file each full opening has its
   decision, because a log without decisions is never continued with them. *)
FillRateIsShare ==
  LET fill == Fill(LatestFile) IN fill.candidates > 0 => fill.filled =< fill.candidates

(* "if requested contracts do not equal filled plus everything removed along
   the way, a stage is lying": they are equal while no approved contract
   stays unbought. *)
FunnelReconciles ==
  ~unfilled /\ files # << >> /\ "decision" \in Last(files).columns => Reconciles(LatestFile)

(* The figures of a report fit together: pairs, falls, days and groups. *)
ReportAddsUp == NeverMispaired /\ DeepestFall /\ DaysMakeTheWeek /\ GroupsMakeTheTotal

(* The funnel of a report counts each contract once, at a stage it reached. *)
FunnelIsSound == TypeOK /\ FillRateIsShare /\ FunnelReconciles
=============================================================================
