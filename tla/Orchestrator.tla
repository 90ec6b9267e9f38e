----------------------------- MODULE Orchestrator -----------------------------
(***************************************************************************)
(* One S2b bot: the tick loop of bot/app/orchestrator.py driven by         *)
(* wiring.runner, its persisted BotState, the broker account it trades and *)
(* the append-only trade log it writes.                                    *)
(*                                                                         *)
(* A tick runs  reconcile -> management -> de-gross -> flow de-gross ->    *)
(* entry -> save.  Every broker call is a step of its own, so broker       *)
(* fills, co-occupants of the account and crashes interleave between any   *)
(* two of them.  Prices are abstracted to the decisions they cause         *)
(* (ExitMoves, the gates an entry may fail) and to the P&L of one exit     *)
(* row (Pnls); an order is one step with an outcome of OrderOutcomes, and   *)
(* OrderSubmit and PriceLadder model how the code arrives at it.           *)
(***************************************************************************)
EXTENDS OrderOutcomes, FiniteSets

CONSTANTS
  Keys,          \* position keys (ticker, short, long, expiry) the bot may trade
  MaxQty,        \* largest quantity sizing ever asks for
  MaxOpen,       \* deps.max_open
  MaxEntries,    \* deps.max_entries_per_day
  Shared,        \* deps.shared_account
  TrendGate,     \* deps.trend_gate_enabled
  Degross,       \* deps.degross_on_risk_off
  FlowDegross,   \* deps.degross_on_flow_flip
  SameDayOnly,   \* deps.flow_degross_same_day_only
  AggregateRisk, \* deps.features.aggregate_risk_budget
  DayLossLimit,  \* daily_pnl_halt_pct * risk equity, in the unit of Pnls
  ExitMoves,     \* what decide_exit may answer in this instance
  Pnls,          \* the P&L one exit row may carry
  Trends, Flows, \* regime.trend_regime and regime.flow_bias values
  NumDays,       \* bound: trading days
  Faults,        \* the adverse outcomes this instance allows
  MaxFaults      \* bound: how many budgeted faults happen in a behaviour

FaultKinds == {"unfilled", "partial", "late", "overfill", "error", "unreadable", "legs",
               "equity", "emptyread", "staleread", "readfail", "noregime", "external",
               "crash", "operator"}

ASSUME SizesAssumption ==
  /\ IsFiniteSet(Keys)
  /\ MaxQty \in Nat \ {0}
  /\ MaxOpen \in Nat \ {0}
  /\ MaxEntries \in Nat \ {0}
  /\ NumDays \in Nat \ {0}
  /\ MaxFaults \in Nat
  /\ DayLossLimit \in Nat
  /\ Pnls \subseteq Int
ASSUME SwitchesAssumption ==
  /\ {Shared, TrendGate, Degross, FlowDegross, SameDayOnly, AggregateRisk} \subseteq BOOLEAN
  /\ ExitMoves \subseteq {"HOLD", "TAKE_PROFIT", "STOP"}
  /\ Trends \subseteq {"risk_on", "risk_off", "unknown"}
  /\ Flows \subseteq {"bullish", "bearish", "neutral"}
  /\ Faults \subseteq FaultKinds

VARIABLES
  (*************************************************************************)
  (* BotState, and the file it is saved to                                 *)
  (*************************************************************************)
  book,          \* open_positions: contracts tracked per key, 0 = not tracked
  entryDay,      \* entry_date of the tracked position
  halt,          \* halt_reason; "none" (the empty string) exactly when halted is False
  streak,        \* missing_streak (in memory only)
  lastEntryDay, entriesToday,
  realized, riskDay,
  prevFlow,
  disk,          \* what save_state last wrote
  (*************************************************************************)
  (* Locals of the running tick                                            *)
  (*************************************************************************)
  pc, regime, recOk, drift, todo, results, hardFailed,
  (*************************************************************************)
  (* The world: calendar, broker account, orders the bot stopped watching  *)
  (*************************************************************************)
  today, held, naked, workClose, workOpen, lastRead, budget,
  (*************************************************************************)
  (* Observability: the durable trade log, and reads that omitted a key    *)
  (*************************************************************************)
  logOpen,       \* OPEN-row contracts minus contracts with a P&L-bearing exit
                 \* row or an UNBOOKED escalation
  pnlToday,      \* sum of the pnl cells of rows dated today
  opensToday,    \* OPEN rows dated today
  unseen         \* consecutive reads that omitted this tracked position (capped)

botVars   == <<book, entryDay, halt, streak, lastEntryDay, entriesToday,
               realized, riskDay, prevFlow>>
tickVars  == <<regime, recOk, drift, results, hardFailed>>
orderVars == <<workClose, workOpen>>
worldVars == <<today, held, naked, workClose, workOpen, lastRead>>
logVars   == <<logOpen, pnlToday, opensToday>>
vars == <<botVars, disk, pc, tickVars, todo, worldVars, budget, logVars, unseen>>

-----------------------------------------------------------------------------
(* Vocabulary *)

MissingRemoveThreshold == 2
ReconcileOwned == {"failed close", "reconcile drift"}
HaltReasons == {"none", "unmatched legs"} \cup ReconcileOwned

Phases == {"idle", "reconcile", "rebook", "monitor", "account",
           "degross", "flow", "entry", "save"}

Days == 0..NumDays                      \* 0: no date recorded yet
Statuses == {"filled", "canceled"}
Actions == {"HOLD", "TAKE_PROFIT", "STOP", "ERROR"}   \* STOP stands for TIME_EXIT too
NoResult == [action |-> "HOLD", reported |-> 0, status |-> "canceled"]
NoRegime == [live |-> FALSE, trend |-> "unknown", flow |-> "neutral"]
FaultRegime == [live |-> TRUE, trend |-> "unknown", flow |-> "neutral"]
Regimes == {NoRegime, FaultRegime} \cup [live: {TRUE}, trend: Trends, flow: Flows]

Tracked == {k \in Keys : book[k] > 0}
HeldBack(day, value, now) == IF day = now THEN value ELSE 0

(* entries_today and realized_today once their day has been compared with today *)
EntriesNow == HeldBack(lastEntryDay, entriesToday, today)
RealizedNow == HeldBack(riskDay, realized, today)

Saved == [book |-> book, entryDay |-> entryDay, halt |-> halt,
          lastEntryDay |-> lastEntryDay, entriesToday |-> entriesToday,
          realized |-> realized, riskDay |-> riskDay, prevFlow |-> prevFlow]

(* A fault of a budgeted kind, or the normal outcome "none". *)
Spend(kind) ==
  IF kind = "none" THEN UNCHANGED budget
  ELSE /\ kind \in Faults
       /\ budget > 0
       /\ budget' = budget - 1

(* reconstruct_spreads pairs a short with a long of EQUAL quantity: a key with
   unmatched legs does not show up in the read at all. *)
BrokerView == [k \in Keys |-> IF naked[k] = 0 THEN held[k] ELSE 0]

(* _accumulate_realized, together with the pnl cell of the row being logged *)
AccumulateRealized(pnl) ==
  /\ realized' = RealizedNow + pnl
  /\ riskDay' = today
  /\ pnlToday' = pnlToday + pnl

(* qty contracts of k leave the book with a log row that accounts for them *)
LeaveBook(k, qty) ==
  /\ book' = [book EXCEPT ![k] = @ - qty]
  /\ logOpen' = [logOpen EXCEPT ![k] = @ - qty]

-----------------------------------------------------------------------------
(* What closing the whole tracked quantity may come to *)
CloseOutcomes(k) == CloseOutcomesOf(book[k], held[k])

SendClose(k, o) ==
  /\ Spend(o.kind)
  /\ held' = [held EXCEPT ![k] = @ - o.fill]
  /\ workClose' = [workClose EXCEPT ![k] = @ + o.works]
  /\ UNCHANGED <<today, naked, workOpen, lastRead>>

-----------------------------------------------------------------------------
(* tick: the regime is computed up front.  A fault leaves None, or, when the
   provider of wiring.build_deps swallows it, the default RegimeState. *)
StartTick ==
  /\ pc = "idle"
  /\ \/ \E t \in Trends, f \in Flows : regime' = [live |-> TRUE, trend |-> t, flow |-> f]
     \/ "noregime" \in Faults /\ regime' \in {NoRegime, FaultRegime}
  /\ pc' = "reconcile"
  /\ UNCHANGED <<botVars, disk, recOk, drift, results, hardFailed, todo, worldVars, budget,
                 logVars, unseen>>

(* Mutant: a failed read ends the tick, stops included. *)
ReconcileFailsEndsTick ==
  /\ pc = "reconcile"
  /\ "readfail" \in Faults
  /\ pc' = "save"
  /\ UNCHANGED <<botVars, disk, todo, tickVars, worldVars, budget, logVars, unseen>>

(* run_reconcile_cycle, the except branch: management still runs, entry does not. *)
ReconcileFails ==
  /\ pc = "reconcile"
  /\ "readfail" \in Faults
  /\ pc' = "monitor"
  /\ todo' = Tracked
  /\ recOk' = FALSE
  /\ UNCHANGED <<botVars, disk, regime, drift, results, hardFailed, worldVars, budget,
                 logVars, unseen>>

Missing(seen) == {k \in Tracked : seen[k] = 0}
Untracked(seen) == IF Shared THEN {} ELSE {k \in Keys \ Tracked : seen[k] > 0}
QtyMismatch(seen) ==
  {k \in Tracked : seen[k] > 0 /\ IF Shared THEN seen[k] < book[k] ELSE seen[k] # book[k]}

(* Mutant: the streak does not add up over reads. *)
NextStreakForgets(seen) ==
  [k \in Keys |-> IF k \in Missing(seen) THEN 1 ELSE IF k \in Tracked THEN 0 ELSE streak[k]]

NextStreak(seen) ==
  [k \in Keys |-> IF k \in Missing(seen) THEN streak[k] + 1
                  ELSE IF k \in Tracked THEN 0 ELSE streak[k]]

(* Mutant: the threshold off by one. *)
RemovedAtOnce(seen) == {k \in Missing(seen) : NextStreak(seen)[k] >= MissingRemoveThreshold - 1}
RemovedBy(seen) == {k \in Missing(seen) : NextStreak(seen)[k] >= MissingRemoveThreshold}

(* Read the account, compare, debounce the missing and pick those to remove. *)
ReconcileReads(seen, equityGap) ==
  /\ pc = "reconcile"
  /\ streak' = [k \in Keys |-> IF k \in RemovedBy(seen) THEN 0 ELSE NextStreak(seen)[k]]
  /\ unseen' = [k \in Keys |-> IF k \in Missing(seen) THEN Lesser(unseen[k] + 1, MissingRemoveThreshold) ELSE 0]
  /\ todo' = RemovedBy(seen)
  /\ drift' = (Untracked(seen) # {} \/ QtyMismatch(seen) # {} \/ equityGap)
  /\ halt' = IF RemovedBy(seen) # {} /\ halt \in ReconcileOwned THEN "none" ELSE halt
  /\ lastRead' = IF "staleread" \in Faults THEN seen ELSE lastRead
  /\ recOk' = TRUE
  /\ pc' = "rebook"
  /\ UNCHANGED <<book, entryDay, lastEntryDay, entriesToday, realized, riskDay, prevFlow, disk,
                 regime, results, hardFailed, today, held, naked, orderVars, logVars>>

(* The equity is read twice, for the bot's and for the broker's side of the
   comparison; a move of more than the tolerance in between reads as a gap. *)
ReconcileRead ==
  \/ ReconcileReads(BrokerView, FALSE) /\ UNCHANGED budget
  \/ ReconcileReads(BrokerView, TRUE) /\ Spend("equity")
  \/ ReconcileReads([k \in Keys |-> 0], FALSE) /\ Spend("emptyread")
  \/ ReconcileReads(lastRead, FALSE) /\ Spend("staleread")

BookAtMark == \E p \in Pnls : AccumulateRealized(p)

(* Mutant: a position that cannot be marked is dropped without the escalation. *)
BookReconciledAwaySilently(k) ==
  /\ pc = "rebook"
  /\ k \in todo
  /\ book' = [book EXCEPT ![k] = 0]
  /\ \/ BookAtMark /\ logOpen' = [logOpen EXCEPT ![k] = @ - book[k]]
     \/ UNCHANGED <<logOpen, realized, riskDay, pnlToday>>
  /\ todo' = todo \ {k}
  /\ UNCHANGED <<entryDay, halt, streak, lastEntryDay, entriesToday, prevFlow, disk, pc,
                 tickVars, worldVars, budget, opensToday, unseen>>

(* A removed position is booked at its mark, or escalated when it cannot be marked. *)
BookReconciledAway(k) ==
  /\ pc = "rebook"
  /\ k \in todo
  /\ LeaveBook(k, book[k])
  /\ BookAtMark \/ UNCHANGED <<realized, riskDay, pnlToday>>
  /\ todo' = todo \ {k}
  /\ UNCHANGED <<entryDay, halt, streak, lastEntryDay, entriesToday, prevFlow, disk, pc,
                 tickVars, worldVars, budget, opensToday, unseen>>

(* Mutants: any reason is relabelled; a clean read lifts nothing. *)
HaltRelabelled ==
  IF drift THEN "reconcile drift" ELSE IF halt = "reconcile drift" THEN "none" ELSE halt
HaltNeverLifted == IF drift /\ halt = "none" THEN "reconcile drift" ELSE halt

(* The tail of run_reconcile_cycle: drift halts, and a clean read lifts a drift halt. *)
HaltAfterReconcile ==
  IF drift
    THEN IF halt = "none" \/ halt \in ReconcileOwned THEN "reconcile drift" ELSE halt
    ELSE IF halt = "reconcile drift" THEN "none" ELSE halt

FinishReconcile ==
  /\ pc = "rebook"
  /\ todo = {}
  /\ halt' = HaltAfterReconcile
  /\ pc' = "monitor"
  /\ todo' = Tracked
  /\ UNCHANGED <<book, entryDay, streak, lastEntryDay, entriesToday, realized, riskDay, prevFlow,
                 disk, tickVars, worldVars, budget, logVars, unseen>>

-----------------------------------------------------------------------------
(* monitor_positions, one position: mark it, decide, send the close. *)
MonitorPosition(k) ==
  /\ pc = "monitor"
  /\ k \in todo
  /\ \/ /\ "HOLD" \in ExitMoves
        /\ UNCHANGED <<results, worldVars, budget>>
     \/ \E a \in ExitMoves \ {"HOLD"}, o \in CloseOutcomes(k) :
          /\ SendClose(k, o)
          /\ results' = [results EXCEPT ![k] =
               [action |-> IF o.kind = "error" THEN "ERROR" ELSE a,
                reported |-> o.reported, status |-> o.status]]
  /\ todo' = todo \ {k}
  /\ UNCHANGED <<botVars, disk, pc, regime, recOk, drift, hardFailed, logVars, unseen>>

FinishMonitor ==
  /\ pc = "monitor"
  /\ todo = {}
  /\ pc' = "account"
  /\ todo' = {k \in Keys : results[k] # NoResult}
  /\ UNCHANGED <<botVars, disk, tickVars, worldVars, budget, logVars, unseen>>

(* Mutant: any fill counts as the whole close. *)
AnyFillCloses(k) == results[k].status = "filled" \/ results[k].reported > 0

FullClose(k) == results[k].status = "filled" \/ results[k].reported >= book[k]

(* The loop of run_management_cycle over the exit results. *)
AccountFull(k) ==
  /\ FullClose(k)
  /\ LeaveBook(k, book[k])
  /\ \E p \in Pnls : AccumulateRealized(p)
  /\ UNCHANGED hardFailed

AccountPartial(k) ==
  /\ ~FullClose(k)
  /\ results[k].reported > 0
  /\ LeaveBook(k, results[k].reported)
  /\ \E p \in Pnls : AccumulateRealized(p)
  /\ UNCHANGED hardFailed

(* Mutant: a close that raised does not count as a failed one. *)
RaisedIsNoFailure(k) ==
  /\ ~FullClose(k)
  /\ results[k].reported = 0
  /\ hardFailed' = (hardFailed \/ results[k].action = "STOP")
  /\ UNCHANGED <<book, logOpen, realized, riskDay, pnlToday>>

AccountNothing(k) ==
  /\ ~FullClose(k)
  /\ results[k].reported = 0
  /\ hardFailed' = (hardFailed \/ results[k].action # "TAKE_PROFIT")
  /\ UNCHANGED <<book, logOpen, realized, riskDay, pnlToday>>

AccountResult(k) ==
  /\ pc = "account"
  /\ k \in todo
  /\ AccountFull(k) \/ AccountPartial(k) \/ AccountNothing(k)
  /\ todo' = todo \ {k}
  /\ UNCHANGED <<entryDay, halt, streak, lastEntryDay, entriesToday, prevFlow, disk, pc,
                 regime, recOk, drift, results, worldVars, budget, opensToday, unseen>>

DegrossFires == Degross /\ regime.live /\ regime.trend = "risk_off"

FinishManagement ==
  /\ pc = "account"
  /\ todo = {}
  /\ halt' = IF hardFailed THEN "failed close" ELSE halt
  /\ pc' = "degross"
  /\ todo' = IF DegrossFires THEN Tracked ELSE {}
  /\ UNCHANGED <<book, entryDay, streak, lastEntryDay, entriesToday, realized, riskDay, prevFlow,
                 disk, tickVars, worldVars, budget, logVars, unseen>>

-----------------------------------------------------------------------------
(* One discretionary close: only the status "filled" is accounted for. *)
DiscretionaryClose(k) ==
  \E o \in CloseOutcomes(k) :
    /\ SendClose(k, o)
    /\ IF o.status = "filled"
         THEN /\ LeaveBook(k, book[k])
              /\ \E p \in Pnls : AccumulateRealized(p)
         ELSE UNCHANGED <<book, logOpen, realized, riskDay, pnlToday>>

(* Mutant: the same-day rule of the flow de-gross the wrong way round. *)
DegrossOvernightOnly(k) ==
  /\ pc = "degross"
  /\ k \in todo
  /\ IF entryDay[k] # today
       THEN DiscretionaryClose(k)
       ELSE UNCHANGED <<book, logOpen, realized, riskDay, pnlToday, worldVars, budget>>
  /\ todo' = todo \ {k}
  /\ UNCHANGED <<entryDay, halt, streak, lastEntryDay, entriesToday, prevFlow, disk, pc,
                 tickVars, opensToday, unseen>>

(* run_degross_cycle, one position *)
DegrossPosition(k) ==
  /\ pc = "degross"
  /\ k \in todo
  /\ DiscretionaryClose(k)
  /\ todo' = todo \ {k}
  /\ UNCHANGED <<entryDay, halt, streak, lastEntryDay, entriesToday, prevFlow, disk, pc,
                 tickVars, opensToday, unseen>>

FlowFlips ==
  FlowDegross /\ regime.live /\ prevFlow = "bullish" /\ regime.flow = "bearish"

FinishDegross ==
  /\ pc = "degross"
  /\ todo = {}
  /\ pc' = "flow"
  /\ todo' = IF FlowFlips THEN {k \in Tracked : SameDayOnly => entryDay[k] = today} ELSE {}
  /\ UNCHANGED <<botVars, disk, tickVars, worldVars, budget, logVars, unseen>>

(* run_flow_degross_cycle, one position: a profitable one is left alone. *)
FlowDegrossPosition(k) ==
  /\ pc = "flow"
  /\ k \in todo
  /\ \/ DiscretionaryClose(k)
     \/ UNCHANGED <<book, logOpen, realized, riskDay, pnlToday, worldVars, budget>>
  /\ todo' = todo \ {k}
  /\ UNCHANGED <<entryDay, halt, streak, lastEntryDay, entriesToday, prevFlow, disk, pc,
                 tickVars, opensToday, unseen>>

FinishFlow ==
  /\ pc = "flow"
  /\ todo = {}
  /\ pc' = IF recOk THEN "entry" ELSE "save"
  /\ UNCHANGED <<botVars, disk, tickVars, todo, worldVars, budget, logVars, unseen>>

-----------------------------------------------------------------------------
(***************************************************************************)
(* run_entry_cycle.  EntryGatesOpen are the gates on the bot's own state;  *)
(* the others (calendar, quotes, credit, cost, sizing, RiskGate) are data  *)
(* and may always decline.                                                 *)
(***************************************************************************)
(* Mutant: max_open off by one. *)
OneTooManyOpen ==
  /\ halt = "none"
  /\ Cardinality(Tracked) <= MaxOpen
  /\ EntriesNow < MaxEntries
  /\ ~(TrendGate /\ regime.live /\ regime.trend = "risk_off")

EntryGatesOpen ==
  /\ halt = "none"
  /\ Cardinality(Tracked) < MaxOpen
  /\ EntriesNow < MaxEntries
  /\ ~(TrendGate /\ regime.live /\ regime.trend = "risk_off")

(* With no open position there is nothing unrealized to set against the loss. *)
DayLossGateOpen ==
  AggregateRisk /\ Tracked = {} => RealizedNow > -DayLossLimit

RollRiskDay == realized' = RealizedNow /\ riskDay' = today

DeclineEntry ==
  /\ pc = "entry"
  /\ entriesToday' = EntriesNow
  /\ \/ UNCHANGED <<realized, riskDay>>
     \/ AggregateRisk /\ EntryGatesOpen /\ RollRiskDay
  /\ pc' = "save"
  /\ UNCHANGED <<book, entryDay, halt, streak, lastEntryDay, prevFlow, disk, tickVars, todo,
                 worldVars, budget, logVars, unseen>>

BrokerFillsEntry(k, o) ==
  /\ Spend(o.kind)
  /\ held' = [held EXCEPT ![k] = @ + o.matched]
  /\ naked' = [naked EXCEPT ![k] = @ + o.excess]
  /\ workOpen' = [workOpen EXCEPT ![k] = @ + o.works]
  /\ UNCHANGED <<today, workClose, lastRead>>

(* _record_open: the position joins the book and its OPEN row is logged. *)
RecordOpen(k, qty) ==
  /\ book' = [book EXCEPT ![k] = qty]
  /\ entryDay' = [entryDay EXCEPT ![k] = today]
  /\ lastEntryDay' = today
  /\ entriesToday' = EntriesNow + 1
  /\ logOpen' = [logOpen EXCEPT ![k] = @ + qty]
  /\ opensToday' = opensToday + 1
  /\ unseen' = [unseen EXCEPT ![k] = 0]

OpenEntry(k, o) ==
  /\ pc = "entry"
  /\ EntryGatesOpen
  /\ k \notin Tracked                   \* duplicate_strikes
  /\ DayLossGateOpen
  /\ BrokerFillsEntry(k, o)
  /\ halt' = IF o.balanced THEN halt ELSE "unmatched legs"
  /\ IF o.booked > 0
       THEN RecordOpen(k, o.booked)
       ELSE /\ entriesToday' = EntriesNow
            /\ UNCHANGED <<book, entryDay, lastEntryDay, logOpen, opensToday, unseen>>
  /\ IF AggregateRisk THEN RollRiskDay ELSE UNCHANGED <<realized, riskDay>>
  /\ pc' = "save"
  /\ UNCHANGED <<streak, prevFlow, disk, tickVars, todo, pnlToday>>

Entry == \E k \in Keys : \E q \in 1..MaxQty : \E o \in OpenOutcomesOf(q) : OpenEntry(k, o)

(* The end of tick remembers the flow bias; runner then saves the state. *)
SaveState ==
  /\ pc = "save"
  /\ prevFlow' = IF regime.live THEN regime.flow ELSE prevFlow
  /\ disk' = [Saved EXCEPT !.prevFlow = prevFlow']
  /\ pc' = "idle"
  /\ regime' = NoRegime
  /\ recOk' = FALSE
  /\ drift' = FALSE
  /\ results' = [k \in Keys |-> NoResult]
  /\ hardFailed' = FALSE
  /\ UNCHANGED <<book, entryDay, halt, streak, lastEntryDay, entriesToday, realized, riskDay,
                 todo, worldVars, budget, logVars, unseen>>

-----------------------------------------------------------------------------
(* A new process resumes from the last saved file: load_state, fresh locals. *)
Restart ==
  /\ book' = disk.book
  /\ entryDay' = disk.entryDay
  /\ halt' = disk.halt
  /\ lastEntryDay' = disk.lastEntryDay
  /\ entriesToday' = disk.entriesToday
  /\ realized' = disk.realized
  /\ riskDay' = disk.riskDay
  /\ prevFlow' = disk.prevFlow
  /\ streak' = [k \in Keys |-> 0]
  /\ unseen' = [k \in Keys |-> 0]
  /\ pc' = "idle"
  /\ regime' = NoRegime
  /\ recOk' = FALSE
  /\ drift' = FALSE
  /\ todo' = {}
  /\ results' = [k \in Keys |-> NoResult]
  /\ hardFailed' = FALSE

(* The process dies: killed, or an exception of the unguarded entry path. *)
Crash ==
  /\ Spend("crash")
  /\ Restart
  /\ UNCHANGED <<disk, worldVars, logVars>>

(* It dies while the entry order is being polled: the broker has filled some of
   it, and what is left of the order stays live. *)
CrashDuringEntry(k) ==
  /\ pc = "entry"
  /\ EntryGatesOpen
  /\ k \notin Tracked
  /\ DayLossGateOpen
  /\ Spend("crash")
  /\ \E q \in 1..MaxQty : \E f \in 0..q :
        /\ held' = [held EXCEPT ![k] = @ + f]
        /\ workOpen' = [workOpen EXCEPT ![k] = @ + (q - f)]
  /\ Restart
  /\ UNCHANGED <<disk, today, naked, workClose, lastRead, logVars>>

(* An order the bot stopped watching fills; at most what the account holds can be closed. *)
LateFill(k) ==
  /\ \/ /\ workClose[k] > 0
        /\ held[k] > 0
        /\ workClose' = [workClose EXCEPT ![k] = @ - 1]
        /\ held' = [held EXCEPT ![k] = @ - 1]
        /\ UNCHANGED workOpen
     \/ /\ workOpen[k] > 0
        /\ workOpen' = [workOpen EXCEPT ![k] = @ - 1]
        /\ held' = [held EXCEPT ![k] = @ + 1]
        /\ UNCHANGED workClose
  /\ UNCHANGED <<botVars, disk, pc, tickVars, todo, today, naked, lastRead, budget, logVars,
                 unseen>>

(* Someone else on the account closes one of our spreads. *)
ExternalClose(k) ==
  /\ Spend("external")
  /\ held[k] > 0
  /\ \E n \in 1..held[k] : held' = [held EXCEPT ![k] = @ - n]
  /\ UNCHANGED <<botVars, disk, pc, tickVars, todo, today, naked, orderVars, lastRead, logVars,
                 unseen>>

(* BotState.clear_halt, called by the operator between ticks *)
ClearHalt ==
  /\ pc = "idle"
  /\ halt # "none"
  /\ Spend("operator")
  /\ halt' = "none"
  /\ UNCHANGED <<book, entryDay, streak, lastEntryDay, entriesToday, realized, riskDay, prevFlow,
                 disk, pc, tickVars, todo, worldVars, logVars, unseen>>

(* The next trading day: every order is a day order, so nothing stays live. *)
NewDay ==
  /\ pc = "idle"
  /\ today < NumDays
  /\ today' = today + 1
  /\ workClose' = [k \in Keys |-> 0]
  /\ workOpen' = [k \in Keys |-> 0]
  /\ pnlToday' = 0
  /\ opensToday' = 0
  /\ UNCHANGED <<botVars, disk, pc, tickVars, todo, held, naked, lastRead, budget, logOpen, unseen>>

-----------------------------------------------------------------------------
Init ==
  /\ book = [k \in Keys |-> 0]
  /\ entryDay = [k \in Keys |-> 0]
  /\ halt = "none"
  /\ streak = [k \in Keys |-> 0]
  /\ lastEntryDay = 0 /\ entriesToday = 0
  /\ realized = 0 /\ riskDay = 0
  /\ prevFlow = "none"
  /\ disk = Saved
  /\ pc = "idle" /\ regime = NoRegime /\ recOk = FALSE /\ drift = FALSE
  /\ todo = {} /\ results = [k \in Keys |-> NoResult] /\ hardFailed = FALSE
  /\ today = 1
  /\ held = [k \in Keys |-> 0] /\ naked = [k \in Keys |-> 0]
  /\ workClose = [k \in Keys |-> 0] /\ workOpen = [k \in Keys |-> 0]
  /\ lastRead = [k \in Keys |-> 0]
  /\ budget = MaxFaults
  /\ logOpen = [k \in Keys |-> 0] /\ pnlToday = 0 /\ opensToday = 0
  /\ unseen = [k \in Keys |-> 0]

(* The bot's own steps: what the runner loop keeps executing. *)
BotStep ==
  \/ StartTick \/ ReconcileFails \/ ReconcileRead \/ FinishReconcile
  \/ \E k \in Keys : BookReconciledAway(k)
  \/ \E k \in Keys : MonitorPosition(k)
  \/ FinishMonitor
  \/ \E k \in Keys : AccountResult(k)
  \/ FinishManagement
  \/ \E k \in Keys : DegrossPosition(k)
  \/ FinishDegross
  \/ \E k \in Keys : FlowDegrossPosition(k)
  \/ FinishFlow
  \/ DeclineEntry \/ Entry
  \/ SaveState

WorldStep ==
  \/ Crash
  \/ \E k \in Keys : CrashDuringEntry(k)
  \/ \E k \in Keys : LateFill(k)
  \/ \E k \in Keys : ExternalClose(k)
  \/ ClearHalt
  \/ NewDay

Next == BotStep \/ WorldStep

Spec == Init /\ [][Next]_vars

(* systemd restarts the runner and the runner never stops ticking. *)
FairSpec == Spec /\ WF_vars(BotStep)
=============================================================================
