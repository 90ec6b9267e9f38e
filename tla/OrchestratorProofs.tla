--------------------------- MODULE OrchestratorProofs ---------------------------
(***************************************************************************)
(* Theorems about the tick loop, for every set of position keys, every     *)
(* limit and every mix of faults the assumptions of Orchestrator allow:    *)
(* type correctness, the inductive invariants behind the safety properties *)
(* and the theorems they give, and the refinement of TradeLedger.          *)
(***************************************************************************)
EXTENDS OrchestratorProperties, TLAPS

-----------------------------------------------------------------------------
(* What a close or an entry order may come to stays within what was asked. *)
LEMMA CloseOutcomeBounds ==
  ASSUME TypeOK, NEW k \in Keys, NEW o \in CloseOutcomes(k)
  PROVE  /\ o.fill \in 0..held[k]
         /\ o.reported \in 0..book[k]
         /\ o.status \in Statuses
         /\ o.works \in Nat
<1>1. book[k] \in Nat /\ held[k] \in Nat
  BY SizesAssumption DEF TypeOK, BotTypeOK, WorldTypeOK
<1>2. \E f \in 0..book[k], r \in 0..book[k], w \in 0..book[k] :
        /\ f <= held[k]
        /\ \/ o = CloseOutcome("none", f, f, "filled", 0)
           \/ o = CloseOutcome("partial", f, f, "canceled", 0)
           \/ o = CloseOutcome("late", f, r, "canceled", w)
           \/ o = CloseOutcome("unreadable", f, 0, "canceled", 0)
           \/ o = CloseOutcome("unreadable", f, 0, "filled", 0)
           \/ o = CloseOutcome("error", f, 0, "canceled", w)
           \/ o = CloseOutcome("none", 0, 0, "canceled", 0)
           \/ o = CloseOutcome("unfilled", 0, 0, "canceled", 0)
  BY <1>1 DEF CloseOutcomes, CloseOutcomesOf
<1> QED
  BY <1>1, <1>2 DEF CloseOutcome, Statuses

LEMMA OpenOutcomeBounds ==
  ASSUME NEW q \in 1..MaxQty, NEW o \in OpenOutcomesOf(q)
  PROVE  /\ o.booked \in 0..q
         /\ o.matched \in Nat
         /\ o.excess \in Int
         /\ o.works \in Nat
  BY SizesAssumption
     DEF OpenOutcomesOf, SettledEntries, LateEntries, OverfilledEntries, UnreadableEntries,
         UnpairedEntries, OpenOutcome, Lesser

LEMMA TypeInit == Init => TypeOK
<1> SUFFICES ASSUME Init PROVE TypeOK
  OBVIOUS
<1> USE SizesAssumption DEF Init
<1>1. BotTypeOK
  BY DEF BotTypeOK, HaltReasons, Days, MissingRemoveThreshold
<1>2. disk \in SavedType
  BY DEF SavedType, Saved, HaltReasons, Days
<1>3. TickTypeOK
  <2>1. NoResult \in [action: Actions, reported: 0..MaxQty, status: Statuses]
    BY DEF NoResult, Actions, Statuses
  <2>2. recOk \in BOOLEAN /\ drift \in BOOLEAN /\ hardFailed \in BOOLEAN
    OBVIOUS
  <2>3. pc \in Phases /\ regime \in Regimes
    BY DEF Phases, Regimes
  <2> QED
    BY <2>1, <2>2, <2>3 DEF TickTypeOK
<1>4. WorldTypeOK
  BY DEF WorldTypeOK
<1>5. LogTypeOK
  BY DEF LogTypeOK, MissingRemoveThreshold
<1> QED
  BY <1>1, <1>2, <1>3, <1>4, <1>5 DEF TypeOK

-----------------------------------------------------------------------------
(* What the helpers shared by several actions keep typed. *)
LEMMA NowTypes ==
  ASSUME TypeOK
  PROVE  EntriesNow \in 0..MaxEntries /\ RealizedNow \in Int
  BY SizesAssumption DEF TypeOK, BotTypeOK, EntriesNow, RealizedNow, HeldBack

LEMMA SpendType ==
  ASSUME TypeOK, NEW kind, Spend(kind)
  PROVE  budget' \in 0..MaxFaults
  BY SizesAssumption DEF TypeOK, WorldTypeOK, Spend

LEMMA SendCloseType ==
  ASSUME TypeOK, NEW k \in Keys, NEW o \in CloseOutcomes(k), SendClose(k, o)
  PROVE  WorldTypeOK'
<1>1. o.fill \in 0..held[k] /\ o.works \in Nat
  BY CloseOutcomeBounds
<1>2. budget' \in 0..MaxFaults
  BY SpendType DEF SendClose
<1>3. held' \in [Keys -> Nat] /\ workClose' \in [Keys -> Nat]
  BY <1>1 DEF TypeOK, WorldTypeOK, SendClose
<1> QED
  BY <1>2, <1>3 DEF TypeOK, WorldTypeOK, SendClose

LEMMA LeaveBookType ==
  ASSUME TypeOK, NEW k \in Keys, NEW qty \in 0..book[k], LeaveBook(k, qty)
  PROVE  book' \in [Keys -> 0..MaxQty] /\ logOpen' \in [Keys -> Int]
  BY SizesAssumption DEF TypeOK, BotTypeOK, LogTypeOK, LeaveBook

LEMMA AccumulateType ==
  ASSUME TypeOK, NEW p \in Pnls, AccumulateRealized(p)
  PROVE  realized' \in Int /\ riskDay' \in Days /\ pnlToday' \in Int
  BY NowTypes, SizesAssumption
     DEF TypeOK, WorldTypeOK, LogTypeOK, AccumulateRealized, Days

LEMMA DiscretionaryCloseType ==
  ASSUME TypeOK, NEW k \in Keys, DiscretionaryClose(k)
  PROVE  /\ WorldTypeOK'
         /\ book' \in [Keys -> 0..MaxQty] /\ logOpen' \in [Keys -> Int]
         /\ realized' \in Int /\ riskDay' \in Days /\ pnlToday' \in Int
<1>1. PICK o \in CloseOutcomes(k) :
        /\ SendClose(k, o)
        /\ IF o.status = "filled"
             THEN /\ LeaveBook(k, book[k])
                  /\ \E p \in Pnls : AccumulateRealized(p)
             ELSE UNCHANGED <<book, logOpen, realized, riskDay, pnlToday>>
  BY DEF DiscretionaryClose
<1>2. WorldTypeOK'
  BY <1>1, SendCloseType
<1>3. CASE o.status = "filled"
  <2>1. book[k] \in 0..book[k]
    BY SizesAssumption DEF TypeOK, BotTypeOK
  <2> QED
    BY <1>1, <1>2, <1>3, <2>1, LeaveBookType, AccumulateType
<1>4. CASE o.status # "filled"
  BY <1>1, <1>2, <1>4 DEF TypeOK, BotTypeOK, LogTypeOK
<1> QED
  BY <1>3, <1>4

LEMMA RestartType ==
  ASSUME TypeOK, Restart
  PROVE  BotTypeOK' /\ TickTypeOK' /\ unseen' \in [Keys -> 0..MissingRemoveThreshold]
<1>1. BotTypeOK'
  BY DEF TypeOK, BotTypeOK, SavedType, Restart, MissingRemoveThreshold
<1>2. TickTypeOK'
  <2>1. NoResult \in [action: Actions, reported: 0..MaxQty, status: Statuses]
    BY SizesAssumption DEF NoResult, Actions, Statuses
  <2>2. recOk' \in BOOLEAN /\ drift' \in BOOLEAN /\ hardFailed' \in BOOLEAN
    BY DEF Restart
  <2>3. pc' \in Phases /\ regime' \in Regimes
    BY DEF Restart, Phases, Regimes
  <2> QED
    BY <2>1, <2>2, <2>3 DEF TickTypeOK, Restart
<1> QED
  BY <1>1, <1>2 DEF Restart, MissingRemoveThreshold

-----------------------------------------------------------------------------
(* Type correctness, phase by phase. *)
LEMMA StartTypes ==
  ASSUME TypeOK, StartTick \/ ReconcileFails
  PROVE  TypeOK'
<1>1. ASSUME StartTick PROVE TickTypeOK'
  <2>1. regime' \in Regimes
    <3>1. CASE regime' \in {NoRegime, FaultRegime}
      BY <3>1 DEF Regimes
    <3>2. ASSUME NEW t \in Trends, NEW f \in Flows,
                 regime' = [live |-> TRUE, trend |-> t, flow |-> f]
          PROVE  regime' \in Regimes
      BY <3>2 DEF Regimes
    <3> QED
      BY <1>1, <3>1, <3>2 DEF StartTick
  <2>2. pc' \in Phases
    BY <1>1 DEF StartTick, Phases
  <2> QED
    BY <1>1, <2>1, <2>2 DEF TypeOK, TickTypeOK, StartTick
<1>2. ASSUME ReconcileFails PROVE TickTypeOK'
  <2>1. pc' \in Phases /\ todo' \in SUBSET Keys /\ recOk' \in BOOLEAN
    BY <1>2 DEF ReconcileFails, Phases, Tracked
  <2> QED
    BY <1>2, <2>1 DEF TypeOK, TickTypeOK, ReconcileFails
<1>3. TickTypeOK'
  BY <1>1, <1>2
<1> QED
  BY <1>3 DEF TypeOK, BotTypeOK, WorldTypeOK, LogTypeOK, StartTick, ReconcileFails,
              botVars, worldVars, logVars

LEMMA ReconcileReadsTypes ==
  ASSUME TypeOK, NEW seen \in [Keys -> Nat], NEW gap \in BOOLEAN, ReconcileReads(seen, gap),
         budget' \in 0..MaxFaults
  PROVE  TypeOK'
<1>1. streak' \in [Keys -> 0..(MissingRemoveThreshold - 1)]
  BY DEF TypeOK, BotTypeOK, ReconcileReads, RemovedBy, NextStreak, MissingRemoveThreshold
<1>2. halt' \in HaltReasons
  BY DEF TypeOK, BotTypeOK, ReconcileReads, HaltReasons
<1>3. BotTypeOK'
  BY <1>1, <1>2 DEF TypeOK, BotTypeOK, ReconcileReads
<1>4. drift' \in BOOLEAN /\ recOk' \in BOOLEAN /\ hardFailed' \in BOOLEAN
  BY DEF TypeOK, TickTypeOK, ReconcileReads
<1>5. pc' \in Phases /\ todo' \in SUBSET Keys
  BY DEF ReconcileReads, Phases, RemovedBy, Missing, Tracked
<1>6. TickTypeOK'
  BY <1>4, <1>5 DEF TypeOK, TickTypeOK, ReconcileReads
<1>7. WorldTypeOK'
  BY DEF TypeOK, WorldTypeOK, ReconcileReads, orderVars
<1>8. unseen' \in [Keys -> 0..MissingRemoveThreshold]
  BY DEF TypeOK, LogTypeOK, ReconcileReads, Lesser, MissingRemoveThreshold
<1> QED
  BY <1>3, <1>6, <1>7, <1>8 DEF TypeOK, LogTypeOK, ReconcileReads, logVars

LEMMA ReconcileReadTypes ==
  ASSUME TypeOK, ReconcileRead
  PROVE  TypeOK'
<1>1. BrokerView \in [Keys -> Nat]
  BY DEF TypeOK, WorldTypeOK, BrokerView
<1>2. CASE ReconcileReads(BrokerView, FALSE) /\ UNCHANGED budget
  BY <1>1, <1>2, ReconcileReadsTypes DEF TypeOK, WorldTypeOK
<1>3. CASE ReconcileReads(BrokerView, TRUE) /\ Spend("equity")
  BY <1>1, <1>3, SpendType, ReconcileReadsTypes
<1>4. CASE ReconcileReads([k \in Keys |-> 0], FALSE) /\ Spend("emptyread")
  BY <1>4, SpendType, ReconcileReadsTypes
<1>5. CASE ReconcileReads(lastRead, FALSE) /\ Spend("staleread")
  BY <1>5, SpendType, ReconcileReadsTypes DEF TypeOK, WorldTypeOK
<1> QED
  BY <1>2, <1>3, <1>4, <1>5 DEF ReconcileRead

LEMMA BookReconciledAwayTypes ==
  ASSUME TypeOK, NEW k \in Keys, BookReconciledAway(k)
  PROVE  TypeOK'
<1>1. book[k] \in 0..book[k]
  BY SizesAssumption DEF TypeOK, BotTypeOK
<1>2. book' \in [Keys -> 0..MaxQty] /\ logOpen' \in [Keys -> Int]
  BY <1>1, LeaveBookType DEF BookReconciledAway
<1>3. realized' \in Int /\ riskDay' \in Days /\ pnlToday' \in Int
  BY AccumulateType
     DEF TypeOK, BotTypeOK, LogTypeOK, BookReconciledAway, BookAtMark
<1>4. BotTypeOK' /\ LogTypeOK'
  BY <1>2, <1>3 DEF TypeOK, BotTypeOK, LogTypeOK, BookReconciledAway
<1>5. TickTypeOK' /\ WorldTypeOK'
  BY DEF TypeOK, TickTypeOK, WorldTypeOK, BookReconciledAway, tickVars, worldVars
<1> QED
  BY <1>4, <1>5 DEF TypeOK, BookReconciledAway

LEMMA FinishReconcileTypes ==
  ASSUME TypeOK, FinishReconcile
  PROVE  TypeOK'
<1>1. halt' \in HaltReasons
  BY DEF TypeOK, BotTypeOK, FinishReconcile, HaltAfterReconcile, HaltReasons, ReconcileOwned
<1>2. BotTypeOK'
  BY <1>1 DEF TypeOK, BotTypeOK, FinishReconcile
<1>3. TickTypeOK'
  BY DEF TypeOK, TickTypeOK, FinishReconcile, Phases, Tracked, tickVars
<1> QED
  BY <1>2, <1>3 DEF TypeOK, WorldTypeOK, LogTypeOK, FinishReconcile, worldVars, logVars

LEMMA MonitorPositionTypes ==
  ASSUME TypeOK, NEW k \in Keys, MonitorPosition(k)
  PROVE  TypeOK'
<1>1. WorldTypeOK' /\ results' \in [Keys -> [action: Actions, reported: 0..MaxQty, status: Statuses]]
  <2>1. CASE UNCHANGED <<results, worldVars, budget>>
    BY <2>1 DEF TypeOK, TickTypeOK, WorldTypeOK, worldVars
  <2>2. ASSUME NEW a \in ExitMoves \ {"HOLD"}, NEW o \in CloseOutcomes(k), SendClose(k, o),
               results' = [results EXCEPT ![k] =
                 [action |-> IF o.kind = "error" THEN "ERROR" ELSE a,
                  reported |-> o.reported, status |-> o.status]]
        PROVE  WorldTypeOK' /\ results' \in [Keys -> [action: Actions, reported: 0..MaxQty, status: Statuses]]
    <3>1. o.reported \in 0..MaxQty /\ o.status \in Statuses
      BY CloseOutcomeBounds, SizesAssumption DEF TypeOK, BotTypeOK
    <3>2. a \in Actions
      BY SwitchesAssumption DEF Actions
    <3>3. WorldTypeOK'
      BY <2>2, SendCloseType
    <3> QED
      BY <2>2, <3>1, <3>2, <3>3 DEF TypeOK, TickTypeOK, Actions
  <2> QED
    BY <2>1, <2>2 DEF MonitorPosition
<1>2. TickTypeOK'
  BY <1>1 DEF TypeOK, TickTypeOK, MonitorPosition
<1> QED
  BY <1>1, <1>2 DEF TypeOK, BotTypeOK, LogTypeOK, MonitorPosition, botVars, logVars

LEMMA FinishMonitorTypes ==
  ASSUME TypeOK, FinishMonitor \/ FinishDegross \/ FinishFlow
  PROVE  TypeOK'
<1>1. TickTypeOK'
  BY DEF TypeOK, TickTypeOK, FinishMonitor, FinishDegross, FinishFlow, Phases, Tracked, tickVars
<1> QED
  BY <1>1 DEF TypeOK, BotTypeOK, WorldTypeOK, LogTypeOK, FinishMonitor, FinishDegross, FinishFlow,
              botVars, worldVars, logVars

LEMMA AccountResultTypes ==
  ASSUME TypeOK, NEW k \in Keys, AccountResult(k)
  PROVE  TypeOK'
<1> USE SizesAssumption
<1>1. /\ book' \in [Keys -> 0..MaxQty] /\ logOpen' \in [Keys -> Int]
      /\ realized' \in Int /\ riskDay' \in Days /\ pnlToday' \in Int
  <2>1. CASE AccountFull(k)
    <3>1. book[k] \in 0..book[k]
      BY DEF TypeOK, BotTypeOK
    <3> QED
      BY <2>1, <3>1, LeaveBookType, AccumulateType DEF AccountFull
  <2>2. CASE AccountPartial(k)
    <3>1. results[k].reported \in 0..book[k]
      BY <2>2 DEF TypeOK, BotTypeOK, TickTypeOK, AccountPartial, FullClose
    <3> QED
      BY <2>2, <3>1, LeaveBookType, AccumulateType DEF AccountPartial
  <2>3. CASE AccountNothing(k)
    BY <2>3 DEF TypeOK, BotTypeOK, LogTypeOK, AccountNothing
  <2> QED
    BY <2>1, <2>2, <2>3 DEF AccountResult
<1>2. hardFailed' \in BOOLEAN
  BY DEF TypeOK, TickTypeOK, AccountResult, AccountFull, AccountPartial, AccountNothing
<1>3. BotTypeOK' /\ LogTypeOK'
  BY <1>1 DEF TypeOK, BotTypeOK, LogTypeOK, AccountResult
<1>4. TickTypeOK' /\ WorldTypeOK'
  BY <1>2 DEF TypeOK, TickTypeOK, WorldTypeOK, AccountResult, worldVars
<1> QED
  BY <1>3, <1>4 DEF TypeOK, AccountResult

LEMMA FinishManagementTypes ==
  ASSUME TypeOK, FinishManagement
  PROVE  TypeOK'
<1>1. BotTypeOK'
  BY DEF TypeOK, BotTypeOK, FinishManagement, HaltReasons, ReconcileOwned
<1>2. TickTypeOK'
  BY DEF TypeOK, TickTypeOK, FinishManagement, Phases, Tracked, tickVars
<1> QED
  BY <1>1, <1>2 DEF TypeOK, WorldTypeOK, LogTypeOK, FinishManagement, worldVars, logVars

LEMMA DiscretionaryTypes ==
  ASSUME TypeOK, NEW k \in Keys, DegrossPosition(k) \/ FlowDegrossPosition(k)
  PROVE  TypeOK'
<1>1. /\ WorldTypeOK'
      /\ book' \in [Keys -> 0..MaxQty] /\ logOpen' \in [Keys -> Int]
      /\ realized' \in Int /\ riskDay' \in Days /\ pnlToday' \in Int
  <2>1. CASE DiscretionaryClose(k)
    BY <2>1, DiscretionaryCloseType
  <2>2. CASE UNCHANGED <<book, logOpen, realized, riskDay, pnlToday, worldVars, budget>>
    BY <2>2 DEF TypeOK, BotTypeOK, LogTypeOK, WorldTypeOK, worldVars
  <2> QED
    BY <2>1, <2>2 DEF DegrossPosition, FlowDegrossPosition
<1>2. BotTypeOK' /\ LogTypeOK'
  BY <1>1 DEF TypeOK, BotTypeOK, LogTypeOK, DegrossPosition, FlowDegrossPosition
<1>3. TickTypeOK'
  BY DEF TypeOK, TickTypeOK, DegrossPosition, FlowDegrossPosition, tickVars
<1> QED
  BY <1>1, <1>2, <1>3 DEF TypeOK, DegrossPosition, FlowDegrossPosition

LEMMA DeclineEntryTypes ==
  ASSUME TypeOK, DeclineEntry
  PROVE  TypeOK'
<1>1. EntriesNow \in 0..MaxEntries /\ RealizedNow \in Int
  BY NowTypes
<1>2. BotTypeOK'
  BY <1>1, SizesAssumption
     DEF TypeOK, BotTypeOK, WorldTypeOK, DeclineEntry, RollRiskDay, Days
<1>3. TickTypeOK'
  BY DEF TypeOK, TickTypeOK, DeclineEntry, Phases, tickVars
<1> QED
  BY <1>2, <1>3 DEF TypeOK, WorldTypeOK, LogTypeOK, DeclineEntry, worldVars, logVars

LEMMA OpenEntryTypes ==
  ASSUME TypeOK, NEW k \in Keys, NEW q \in 1..MaxQty, NEW o \in OpenOutcomesOf(q), OpenEntry(k, o)
  PROVE  TypeOK'
<1> USE SizesAssumption
<1>1. /\ o.booked \in 0..MaxQty /\ o.matched \in Nat /\ o.excess \in Int /\ o.works \in Nat
  BY OpenOutcomeBounds
<1>2. EntriesNow \in 0..MaxEntries /\ RealizedNow \in Int /\ EntriesNow < MaxEntries
  BY NowTypes DEF OpenEntry, EntryGatesOpen
<1>3. WorldTypeOK'
  <2>1. budget' \in 0..MaxFaults
    BY SpendType DEF OpenEntry, BrokerFillsEntry
  <2>2. /\ held' = [held EXCEPT ![k] = @ + o.matched]
        /\ naked' = [naked EXCEPT ![k] = @ + o.excess]
        /\ workOpen' = [workOpen EXCEPT ![k] = @ + o.works]
    BY DEF OpenEntry, BrokerFillsEntry
  <2>3. held \in [Keys -> Nat] /\ naked \in [Keys -> Int] /\ workOpen \in [Keys -> Nat]
    BY DEF TypeOK, WorldTypeOK
  <2>4. held' \in [Keys -> Nat] /\ naked' \in [Keys -> Int] /\ workOpen' \in [Keys -> Nat]
    BY <1>1, <2>2, <2>3
  <2> QED
    BY <2>1, <2>2, <2>3, <2>4 DEF TypeOK, WorldTypeOK, OpenEntry, BrokerFillsEntry
<1>4. /\ book' \in [Keys -> 0..MaxQty] /\ entryDay' \in [Keys -> Days]
      /\ lastEntryDay' \in Days /\ entriesToday' \in 0..MaxEntries
      /\ LogTypeOK'
  <2>1. CASE o.booked > 0
    <3>1. /\ book' = [book EXCEPT ![k] = o.booked]
          /\ entryDay' = [entryDay EXCEPT ![k] = today]
          /\ lastEntryDay' = today /\ entriesToday' = EntriesNow + 1
          /\ logOpen' = [logOpen EXCEPT ![k] = @ + o.booked]
          /\ opensToday' = opensToday + 1 /\ unseen' = [unseen EXCEPT ![k] = 0]
          /\ pnlToday' = pnlToday
      BY <2>1 DEF OpenEntry, RecordOpen
    <3>2. LogTypeOK'
      BY <3>1, <1>1 DEF TypeOK, LogTypeOK, MissingRemoveThreshold
    <3> QED
      BY <3>1, <3>2, <1>1, <1>2 DEF TypeOK, BotTypeOK, WorldTypeOK, Days
  <2>2. CASE ~(o.booked > 0)
    BY <2>2, <1>2 DEF TypeOK, BotTypeOK, LogTypeOK, OpenEntry
  <2> QED
    BY <2>1, <2>2
<1>5. realized' \in Int /\ riskDay' \in Days /\ halt' \in HaltReasons
  <2>1. realized' \in Int /\ riskDay' \in Days
    <3>1. CASE RollRiskDay
      BY <3>1, <1>2 DEF TypeOK, WorldTypeOK, RollRiskDay, Days
    <3>2. CASE UNCHANGED <<realized, riskDay>>
      BY <3>2 DEF TypeOK, BotTypeOK
    <3> QED
      BY <3>1, <3>2 DEF OpenEntry
  <2>2. halt' = halt \/ halt' = "unmatched legs"
    BY DEF OpenEntry
  <2> QED
    BY <2>1, <2>2 DEF TypeOK, BotTypeOK, HaltReasons
<1>6. BotTypeOK'
  BY <1>4, <1>5 DEF TypeOK, BotTypeOK, OpenEntry
<1>7. TickTypeOK'
  BY DEF TypeOK, TickTypeOK, OpenEntry, Phases, tickVars
<1> QED
  BY <1>3, <1>4, <1>6, <1>7 DEF TypeOK, OpenEntry

LEMMA SaveStateTypes ==
  ASSUME TypeOK, SaveState
  PROVE  TypeOK'
<1>1. prevFlow' \in Flows \cup {"none", "neutral"}
  <2>1. regime \in Regimes
    BY DEF TypeOK, TickTypeOK
  <2>2. regime.flow \in Flows \cup {"none", "neutral"}
    <3>1. CASE regime \in {NoRegime, FaultRegime}
      BY <3>1 DEF NoRegime, FaultRegime
    <3>2. CASE regime \in [live: {TRUE}, trend: Trends, flow: Flows]
      BY <3>2
    <3> QED
      BY <2>1, <3>1, <3>2 DEF Regimes
  <2> QED
    BY <2>2 DEF TypeOK, BotTypeOK, SaveState
<1>2. BotTypeOK'
  BY <1>1 DEF TypeOK, BotTypeOK, SaveState
<1>3. disk' \in SavedType
  BY <1>1 DEF TypeOK, BotTypeOK, SaveState, Saved, SavedType
<1>4. TickTypeOK'
  <2>1. NoResult \in [action: Actions, reported: 0..MaxQty, status: Statuses]
    BY SizesAssumption DEF NoResult, Actions, Statuses
  <2>2. recOk' \in BOOLEAN /\ drift' \in BOOLEAN /\ hardFailed' \in BOOLEAN
    BY DEF SaveState
  <2>3. pc' \in Phases /\ regime' \in Regimes
    BY DEF SaveState, Phases, Regimes
  <2> QED
    BY <2>1, <2>2, <2>3 DEF TypeOK, TickTypeOK, SaveState
<1> QED
  BY <1>2, <1>3, <1>4 DEF TypeOK, WorldTypeOK, LogTypeOK, SaveState, worldVars, logVars

LEMMA CrashTypes ==
  ASSUME TypeOK, Crash \/ \E k \in Keys : CrashDuringEntry(k)
  PROVE  TypeOK'
<1>1. CASE Crash
  <2>1. budget' \in 0..MaxFaults
    BY <1>1, SpendType DEF Crash
  <2> QED
    BY <1>1, <2>1, RestartType
       DEF TypeOK, WorldTypeOK, LogTypeOK, Crash, worldVars, logVars
<1>2. ASSUME NEW k \in Keys, CrashDuringEntry(k) PROVE TypeOK'
  <2>1. budget' \in 0..MaxFaults
    BY <1>2, SpendType DEF CrashDuringEntry
  <2>2. held' \in [Keys -> Nat]
    BY <1>2, SizesAssumption DEF TypeOK, WorldTypeOK, CrashDuringEntry
  <2> QED
    BY <1>2, <2>1, <2>2, RestartType
       DEF TypeOK, WorldTypeOK, LogTypeOK, CrashDuringEntry, logVars
<1> QED
  BY <1>1, <1>2

LEMMA BrokerStepTypes ==
  ASSUME TypeOK, NEW k \in Keys, LateFill(k) \/ ExternalClose(k)
  PROVE  TypeOK'
<1>1. WorldTypeOK'
  <2>1. CASE LateFill(k)
    BY <2>1 DEF TypeOK, WorldTypeOK, LateFill
  <2>2. CASE ExternalClose(k)
    <3>1. budget' \in 0..MaxFaults
      BY <2>2, SpendType DEF ExternalClose
    <3> QED
      BY <2>2, <3>1 DEF TypeOK, WorldTypeOK, ExternalClose, orderVars
  <2> QED
    BY <2>1, <2>2
<1> QED
  BY <1>1 DEF TypeOK, BotTypeOK, TickTypeOK, LogTypeOK, LateFill, ExternalClose,
              botVars, tickVars, logVars

LEMMA OperatorStepTypes ==
  ASSUME TypeOK, ClearHalt \/ NewDay
  PROVE  TypeOK'
<1>1. CASE ClearHalt
  <2>1. budget' \in 0..MaxFaults
    BY <1>1, SpendType DEF ClearHalt
  <2> QED
    BY <1>1, <2>1 DEF TypeOK, BotTypeOK, TickTypeOK, WorldTypeOK, LogTypeOK, ClearHalt,
                      HaltReasons, tickVars, worldVars, logVars
<1>2. CASE NewDay
  BY <1>2, SizesAssumption
     DEF TypeOK, BotTypeOK, TickTypeOK, WorldTypeOK, LogTypeOK, NewDay, botVars, tickVars
<1> QED
  BY <1>1, <1>2

LEMMA TypeNext == TypeOK /\ [Next]_vars => TypeOK'
<1> SUFFICES ASSUME TypeOK, [Next]_vars PROVE TypeOK'
  OBVIOUS
<1>1. CASE BotStep
  BY <1>1, StartTypes, ReconcileReadTypes, BookReconciledAwayTypes, FinishReconcileTypes,
     MonitorPositionTypes, FinishMonitorTypes, AccountResultTypes, FinishManagementTypes,
     DiscretionaryTypes, DeclineEntryTypes, OpenEntryTypes, SaveStateTypes
     DEF BotStep, Entry
<1>2. CASE WorldStep
  BY <1>2, CrashTypes, BrokerStepTypes, OperatorStepTypes DEF WorldStep
<1>3. CASE UNCHANGED vars
  BY <1>3 DEF TypeOK, BotTypeOK, TickTypeOK, WorldTypeOK, LogTypeOK, vars, botVars, tickVars,
              worldVars, logVars
<1> QED
  BY <1>1, <1>2, <1>3 DEF Next

(* Every variable keeps its shape for every instance: in particular the missing
   streak stays below the removal threshold and entries_today below its cap. *)
THEOREM TypeCorrect == Spec => []TypeOK
  BY TypeInit, TypeNext, PTL DEF Spec

-----------------------------------------------------------------------------
(* Whatever a phase still has to visit is a tracked position. *)
TodoTracked ==
  /\ pc \in {"rebook", "monitor", "account", "degross", "flow"} => todo \subseteq Tracked
  /\ pc = "monitor" => \A k \in Keys : results[k] # NoResult => k \in Tracked

(* Where the trouble a tick has met is remembered until the entry decision. *)
TroubleRemembered ==
  /\ pc \in {"idle", "reconcile"} => ~drift
  /\ pc # "rebook" /\ drift => halt # "none"
  /\ pc \in {"idle", "reconcile", "rebook"} => \A k \in Keys : results[k] = NoResult
  /\ pc = "account" => \A k \in Keys : StuckClose(k) /\ k \notin todo => hardFailed
  /\ pc \in {"degross", "flow", "entry"} => \A k \in Keys : StuckClose(k) => halt # "none"

TickInv == TypeOK /\ TodoTracked /\ TroubleRemembered

-----------------------------------------------------------------------------
LEMMA TickInvInit == Init => TickInv
<1> SUFFICES ASSUME Init PROVE TickInv
  OBVIOUS
<1>1. TodoTracked
  BY DEF Init, TodoTracked
<1>2. TroubleRemembered
  BY DEF Init, TroubleRemembered
<1> QED
  BY <1>1, <1>2, TypeInit DEF TickInv

(* Steps that leave the tick's own variables alone keep the invariant. *)
LEMMA TickInvStutter ==
  ASSUME TickInv, UNCHANGED <<pc, todo, book, drift, halt, results, hardFailed>>
  PROVE  TodoTracked' /\ TroubleRemembered'
  BY DEF TickInv, TodoTracked, TroubleRemembered, Tracked, StuckClose

LEMMA StuckCloseResult ==
  ASSUME NEW k \in Keys, StuckClose(k)
  PROVE  results[k] # NoResult
  BY DEF StuckClose, NoResult

LEMMA TodoTrackedNext == TickInv /\ [Next]_vars => TodoTracked'
<1> SUFFICES ASSUME TickInv, [Next]_vars PROVE TodoTracked'
  OBVIOUS
<1> USE DEF TickInv, TodoTracked
<1>1. CASE StartTick
  BY <1>1 DEF StartTick
<1>2. CASE ReconcileFails
  BY <1>2 DEF ReconcileFails, TroubleRemembered, botVars, Tracked
<1>3. CASE ReconcileRead
  BY <1>3 DEF ReconcileRead, ReconcileReads, RemovedBy, Missing, Tracked
<1>4. ASSUME NEW k \in Keys, BookReconciledAway(k) PROVE TodoTracked'
  BY <1>4 DEF BookReconciledAway, LeaveBook, Tracked, TypeOK, BotTypeOK
<1>5. CASE FinishReconcile
  BY <1>5 DEF FinishReconcile, TroubleRemembered, Tracked, tickVars
<1>6. ASSUME NEW k \in Keys, MonitorPosition(k) PROVE TodoTracked'
  <2>1. pc = "monitor" /\ pc' = "monitor" /\ k \in todo /\ todo' = todo \ {k} /\ Tracked' = Tracked
    BY <1>6 DEF MonitorPosition, botVars, Tracked
  <2>2. \A j \in Keys : j # k => results'[j] = results[j]
    BY <1>6 DEF MonitorPosition, TypeOK, TickTypeOK
  <2> QED
    BY <2>1, <2>2
<1>7. CASE FinishMonitor
  BY <1>7 DEF FinishMonitor, botVars, tickVars, Tracked
<1>8. ASSUME NEW k \in Keys, AccountResult(k) PROVE TodoTracked'
  BY <1>8 DEF AccountResult, AccountFull, AccountPartial, AccountNothing, LeaveBook, Tracked,
              TypeOK, BotTypeOK
<1>9. CASE FinishManagement
  BY <1>9 DEF FinishManagement, Tracked
<1>10. ASSUME NEW k \in Keys, DegrossPosition(k) \/ FlowDegrossPosition(k) PROVE TodoTracked'
  BY <1>10 DEF DegrossPosition, FlowDegrossPosition, DiscretionaryClose, LeaveBook, Tracked,
               TypeOK, BotTypeOK
<1>11. CASE FinishDegross
  BY <1>11 DEF FinishDegross, botVars, Tracked
<1>12. CASE FinishFlow \/ DeclineEntry \/ SaveState
  BY <1>12 DEF FinishFlow, DeclineEntry, SaveState
<1>13. CASE Entry
  BY <1>13 DEF Entry, OpenEntry
<1>14. CASE WorldStep
  <2>1. CASE Crash \/ \E k \in Keys : CrashDuringEntry(k)
    BY <2>1 DEF Crash, CrashDuringEntry, Restart
  <2>2. CASE \E k \in Keys : LateFill(k) \/ ExternalClose(k)
    BY <2>2, TickInvStutter DEF LateFill, ExternalClose, botVars, tickVars
  <2>3. CASE ClearHalt \/ NewDay
    BY <2>3 DEF ClearHalt, NewDay
  <2> QED
    BY <1>14, <2>1, <2>2, <2>3 DEF WorldStep
<1>15. CASE UNCHANGED vars
  BY <1>15, TickInvStutter DEF vars, botVars, tickVars
<1> QED
  BY <1>1, <1>2, <1>3, <1>4, <1>5, <1>6, <1>7, <1>8, <1>9, <1>10, <1>11, <1>12, <1>13, <1>14,
     <1>15 DEF Next, BotStep

LEMMA TroubleNext == TickInv /\ [Next]_vars => TroubleRemembered'
<1> SUFFICES ASSUME TickInv, [Next]_vars PROVE TroubleRemembered'
  OBVIOUS
<1> USE DEF TickInv, TroubleRemembered
<1>1. CASE StartTick
  BY <1>1 DEF StartTick, botVars
<1>2. CASE ReconcileFails
  BY <1>2 DEF ReconcileFails, botVars
<1>3. CASE ReconcileRead
  BY <1>3 DEF ReconcileRead, ReconcileReads
<1>4. ASSUME NEW k \in Keys, BookReconciledAway(k) PROVE TroubleRemembered'
  BY <1>4 DEF BookReconciledAway, tickVars
<1>5. CASE FinishReconcile
  BY <1>5 DEF FinishReconcile, HaltAfterReconcile, tickVars
<1>6. ASSUME NEW k \in Keys, MonitorPosition(k) PROVE TroubleRemembered'
  BY <1>6 DEF MonitorPosition, botVars
<1>7. CASE FinishMonitor
  BY <1>7 DEF FinishMonitor, botVars, tickVars, StuckClose, NoResult
<1>8. ASSUME NEW k \in Keys, AccountResult(k) PROVE TroubleRemembered'
  <2>1. pc = "account" /\ pc' = "account" /\ UNCHANGED <<halt, drift, results>> /\ todo' = todo \ {k}
    BY <1>8 DEF AccountResult
  <2>2. book[k] \in Nat /\ book[k] > 0
    BY <1>8, SizesAssumption DEF AccountResult, TodoTracked, Tracked, TypeOK, BotTypeOK
  <2>3. CASE AccountNothing(k)
    <3>1. hardFailed' = (hardFailed \/ results[k].action # "TAKE_PROFIT")
      BY <2>3 DEF AccountNothing
    <3> QED
      BY <2>1, <3>1 DEF StuckClose
  <2>4. CASE AccountFull(k) \/ AccountPartial(k)
    <3>1. ~StuckClose(k)
      BY <2>2, <2>4 DEF AccountFull, AccountPartial, FullClose, StuckClose
    <3>2. hardFailed' = hardFailed
      BY <2>4 DEF AccountFull, AccountPartial
    <3> QED
      BY <2>1, <3>1, <3>2 DEF StuckClose
  <2> QED
    BY <1>8, <2>3, <2>4 DEF AccountResult
<1>9. CASE FinishManagement
  BY <1>9 DEF FinishManagement, tickVars, StuckClose
<1>10. ASSUME NEW k \in Keys, DegrossPosition(k) \/ FlowDegrossPosition(k) PROVE TroubleRemembered'
  <2>1. /\ pc \in {"degross", "flow"} /\ pc' = pc
        /\ UNCHANGED <<halt, drift, results>>
    BY <1>10 DEF DegrossPosition, FlowDegrossPosition, tickVars
  <2> QED
    BY <2>1 DEF StuckClose
<1>11. CASE FinishDegross \/ FinishFlow
  <2>1. /\ pc \in {"degross", "flow"} /\ pc' \in {"flow", "entry", "save"}
        /\ UNCHANGED <<halt, drift, results>>
    BY <1>11 DEF FinishDegross, FinishFlow, botVars, tickVars
  <2> QED
    BY <2>1 DEF StuckClose
<1>12. CASE DeclineEntry
  BY <1>12 DEF DeclineEntry, tickVars
<1>13. CASE Entry
  <2>1. PICK k \in Keys, q \in 1..MaxQty : \E o \in OpenOutcomesOf(q) : OpenEntry(k, o)
    BY <1>13 DEF Entry
  <2>2. /\ pc = "entry" /\ pc' = "save" /\ UNCHANGED drift
        /\ halt' = halt \/ halt' = "unmatched legs"
    BY <2>1 DEF OpenEntry, tickVars
  <2> QED
    BY <2>2
<1>14. CASE SaveState
  BY <1>14 DEF SaveState
<1>15. CASE WorldStep
  <2>1. CASE Crash \/ \E k \in Keys : CrashDuringEntry(k)
    BY <2>1 DEF Crash, CrashDuringEntry, Restart
  <2>2. CASE \E k \in Keys : LateFill(k) \/ ExternalClose(k)
    BY <2>2, TickInvStutter DEF LateFill, ExternalClose, botVars, tickVars
  <2>3. CASE ClearHalt
    BY <2>3 DEF ClearHalt, tickVars
  <2>4. CASE NewDay
    BY <2>4, TickInvStutter DEF NewDay, botVars, tickVars
  <2> QED
    BY <1>15, <2>1, <2>2, <2>3, <2>4 DEF WorldStep
<1>16. CASE UNCHANGED vars
  BY <1>16, TickInvStutter DEF vars, botVars, tickVars
<1> QED
  BY <1>1, <1>2, <1>3, <1>4, <1>5, <1>6, <1>7, <1>8, <1>9, <1>10, <1>11, <1>12, <1>13, <1>14,
     <1>15, <1>16 DEF Next, BotStep

THEOREM TickInvariant == Spec => []TickInv
<1>1. TickInv /\ [Next]_vars => TickInv'
  BY TypeNext, TodoTrackedNext, TroubleNext DEF TickInv
<1> QED
  BY TickInvInit, <1>1, PTL DEF Spec

(* An entry decision is never reached unhalted in a tick whose reconcile saw
   drift or whose must-exit close filled nothing, whatever the broker, the
   account's other users, crashes and the operator do. *)
THEOREM TroubleIsBlocking == Spec => []TroubleBlocksEntry
<1>1. TickInv => TroubleBlocksEntry
  BY DEF TickInv, TroubleRemembered, TroubleBlocksEntry
<1> QED
  BY TickInvariant, <1>1, PTL

-----------------------------------------------------------------------------
(* Books against the log, for a process that is not restarted. *)
NeverCrashes == "crash" \notin Faults

BooksInv ==
  /\ LedgerConserved
  /\ RealizedMatchesLog /\ riskDay <= today
  /\ EntriesCapped /\ lastEntryDay <= today

bookVars == <<book, logOpen, realized, riskDay, pnlToday, opensToday, entriesToday,
              lastEntryDay, today>>

LEMMA BooksStutter ==
  ASSUME BooksInv, UNCHANGED bookVars
  PROVE  BooksInv'
  BY DEF BooksInv, bookVars, LedgerConserved, RealizedMatchesLog, EntriesCapped, RealizedNow,
         EntriesNow, HeldBack

(* Contracts leave book and log together; the P&L of the row reaches both sums. *)
LEMMA BooksExit ==
  ASSUME TypeOK, BooksInv, NEW k \in Keys, NEW qty, NEW p \in Pnls,
         LeaveBook(k, qty), AccumulateRealized(p),
         UNCHANGED <<opensToday, entriesToday, lastEntryDay, today>>
  PROVE  BooksInv'
<1>1. logOpen' = book'
  BY DEF BooksInv, LedgerConserved, LeaveBook
<1>2. pnlToday' = RealizedNow'
  BY DEF BooksInv, RealizedMatchesLog, RealizedNow, HeldBack, AccumulateRealized
<1>3. riskDay' <= today'
  BY SizesAssumption DEF TypeOK, WorldTypeOK, AccumulateRealized
<1> QED
  BY <1>1, <1>2, <1>3
     DEF BooksInv, LedgerConserved, RealizedMatchesLog, EntriesCapped, EntriesNow, HeldBack

LEMMA BooksDiscretionary ==
  ASSUME TypeOK, BooksInv, NEW k \in Keys, DiscretionaryClose(k),
         UNCHANGED <<opensToday, entriesToday, lastEntryDay>>
  PROVE  BooksInv'
<1>1. PICK o \in CloseOutcomes(k) :
        /\ SendClose(k, o)
        /\ IF o.status = "filled"
             THEN /\ LeaveBook(k, book[k])
                  /\ \E p \in Pnls : AccumulateRealized(p)
             ELSE UNCHANGED <<book, logOpen, realized, riskDay, pnlToday>>
  BY DEF DiscretionaryClose
<1>2. today' = today
  BY <1>1 DEF SendClose
<1>3. CASE o.status = "filled"
  BY <1>1, <1>2, <1>3, BooksExit
<1>4. CASE o.status # "filled"
  BY <1>1, <1>2, <1>4, BooksStutter DEF bookVars
<1> QED
  BY <1>3, <1>4

LEMMA BooksInit == Init => BooksInv
  BY SizesAssumption
     DEF Init, BooksInv, LedgerConserved, RealizedMatchesLog, EntriesCapped, RealizedNow,
         EntriesNow, HeldBack

LEMMA BooksOpenEntry ==
  ASSUME TypeOK, BooksInv, NEW k \in Keys, NEW q \in 1..MaxQty, NEW o \in OpenOutcomesOf(q),
         OpenEntry(k, o)
  PROVE  BooksInv'
<1>1. today' = today /\ pnlToday' = pnlToday
  BY DEF OpenEntry, BrokerFillsEntry
<1>2. riskDay' <= today' /\ pnlToday' = RealizedNow'
  <2>1. CASE RollRiskDay
    BY <1>1, <2>1, SizesAssumption
       DEF TypeOK, WorldTypeOK, BooksInv, RealizedMatchesLog, RealizedNow, HeldBack, RollRiskDay
  <2>2. CASE UNCHANGED <<realized, riskDay>>
    BY <1>1, <2>2 DEF BooksInv, RealizedMatchesLog, RealizedNow, HeldBack
  <2> QED
    BY <2>1, <2>2 DEF OpenEntry
<1>3. EntriesNow \in 0..MaxEntries /\ EntriesNow < MaxEntries
  BY NowTypes DEF OpenEntry, EntryGatesOpen
<1>4. CASE o.booked > 0
  <2>1. RecordOpen(k, o.booked)
    BY <1>4 DEF OpenEntry
  <2>2. book[k] = 0
    <3>1. k \notin Tracked /\ book[k] \in 0..MaxQty
      BY DEF OpenEntry, TypeOK, BotTypeOK
    <3> QED
      BY <3>1, SizesAssumption DEF Tracked
  <2>3. o.booked \in Nat
    BY OpenOutcomeBounds
  <2>4. logOpen' = book'
    <3>1. logOpen = book /\ logOpen[k] + o.booked = o.booked
      BY <2>2, <2>3 DEF BooksInv, LedgerConserved
    <3>2. /\ book' = [book EXCEPT ![k] = o.booked]
          /\ logOpen' = [logOpen EXCEPT ![k] = logOpen[k] + o.booked]
      BY <2>1 DEF RecordOpen
    <3> QED
      BY <3>1, <3>2
  <2>5. opensToday' = EntriesNow' /\ opensToday' <= MaxEntries /\ lastEntryDay' <= today'
    BY <1>1, <1>3, <2>1, SizesAssumption
       DEF RecordOpen, BooksInv, EntriesCapped, EntriesNow, HeldBack, TypeOK, WorldTypeOK
  <2> QED
    BY <1>2, <2>4, <2>5 DEF BooksInv, LedgerConserved, RealizedMatchesLog, EntriesCapped
<1>5. CASE ~(o.booked > 0)
  <2>1. /\ entriesToday' = EntriesNow
        /\ UNCHANGED <<book, lastEntryDay, logOpen, opensToday>>
    BY <1>5 DEF OpenEntry
  <2> QED
    BY <1>1, <1>2, <2>1
       DEF BooksInv, LedgerConserved, RealizedMatchesLog, EntriesCapped, EntriesNow, HeldBack
<1> QED
  BY <1>4, <1>5

LEMMA BooksNext ==
  ASSUME NeverCrashes
  PROVE  TypeOK /\ BooksInv /\ [Next]_vars => BooksInv'
<1> SUFFICES ASSUME TypeOK, BooksInv, [Next]_vars PROVE BooksInv'
  OBVIOUS
<1>1. CASE StartTick \/ ReconcileFails \/ FinishMonitor \/ FinishDegross \/ FinishFlow
  BY <1>1, BooksStutter DEF StartTick, ReconcileFails, FinishMonitor, FinishDegross, FinishFlow,
     bookVars, botVars, worldVars, logVars
<1>2. CASE ReconcileRead
  BY <1>2, BooksStutter DEF ReconcileRead, ReconcileReads, bookVars, logVars
<1>3. ASSUME NEW k \in Keys, BookReconciledAway(k) PROVE BooksInv'
  <2>1. LeaveBook(k, book[k]) /\ UNCHANGED <<opensToday, entriesToday, lastEntryDay, today>>
    BY <1>3 DEF BookReconciledAway, worldVars
  <2>2. CASE BookAtMark
    BY <2>1, <2>2, BooksExit DEF BookAtMark
  <2>3. CASE UNCHANGED <<realized, riskDay, pnlToday>>
    BY <2>1, <2>3
       DEF BooksInv, LedgerConserved, LeaveBook, RealizedMatchesLog, EntriesCapped, RealizedNow,
           EntriesNow, HeldBack
  <2> QED
    BY <1>3, <2>2, <2>3 DEF BookReconciledAway
<1>4. CASE FinishReconcile \/ FinishManagement
  BY <1>4, BooksStutter DEF FinishReconcile, FinishManagement, bookVars, worldVars, logVars
<1>5. ASSUME NEW k \in Keys, MonitorPosition(k) PROVE BooksInv'
  BY <1>5, BooksStutter DEF MonitorPosition, SendClose, bookVars, botVars, worldVars, logVars
<1>6. ASSUME NEW k \in Keys, AccountResult(k) PROVE BooksInv'
  <2>1. UNCHANGED <<opensToday, entriesToday, lastEntryDay, today>>
    BY <1>6 DEF AccountResult, worldVars
  <2>2. CASE AccountFull(k) \/ AccountPartial(k)
    BY <2>1, <2>2, BooksExit DEF AccountFull, AccountPartial
  <2>3. CASE AccountNothing(k)
    BY <2>1, <2>3, BooksStutter DEF AccountNothing, bookVars
  <2> QED
    BY <1>6, <2>2, <2>3 DEF AccountResult
<1>7. ASSUME NEW k \in Keys, DegrossPosition(k) PROVE BooksInv'
  BY <1>7, BooksDiscretionary DEF DegrossPosition
<1>8. ASSUME NEW k \in Keys, FlowDegrossPosition(k) PROVE BooksInv'
  BY <1>8, BooksDiscretionary, BooksStutter DEF FlowDegrossPosition, bookVars, worldVars
<1>9. CASE DeclineEntry
  <2>1. entriesToday' = EntriesNow /\ RealizedNow' = RealizedNow /\ riskDay' <= today'
    BY <1>9, SizesAssumption
       DEF DeclineEntry, RollRiskDay, RealizedNow, HeldBack, worldVars, BooksInv, TypeOK, WorldTypeOK
  <2> QED
    BY <1>9, <2>1
       DEF DeclineEntry, worldVars, logVars, BooksInv, LedgerConserved, RealizedMatchesLog,
           EntriesCapped, EntriesNow, HeldBack
<1>10. CASE Entry
  BY <1>10, BooksOpenEntry DEF Entry
<1>11. CASE SaveState
  BY <1>11, BooksStutter DEF SaveState, bookVars, worldVars, logVars
<1>12. CASE WorldStep
  <2>1. ~Crash /\ \A k \in Keys : ~CrashDuringEntry(k)
    BY DEF NeverCrashes, Crash, CrashDuringEntry, Spend
  <2>2. CASE \E k \in Keys : LateFill(k) \/ ExternalClose(k)
    BY <2>2, BooksStutter DEF LateFill, ExternalClose, bookVars, botVars, logVars
  <2>3. CASE ClearHalt
    BY <2>3, BooksStutter DEF ClearHalt, bookVars, worldVars, logVars
  <2>4. CASE NewDay
    BY <2>4, SizesAssumption
       DEF NewDay, botVars, BooksInv, LedgerConserved, RealizedMatchesLog, EntriesCapped,
           RealizedNow, EntriesNow, HeldBack, TypeOK, BotTypeOK, WorldTypeOK, Days
  <2> QED
    BY <1>12, <2>1, <2>2, <2>3, <2>4 DEF WorldStep
<1>13. CASE UNCHANGED vars
  BY <1>13, BooksStutter DEF vars, bookVars, botVars, worldVars, logVars
<1> QED
  BY <1>1, <1>2, <1>3, <1>4, <1>5, <1>6, <1>7, <1>8, <1>9, <1>10, <1>11, <1>12, <1>13
     DEF Next, BotStep

(* Without a restart, the log, the positions, the P&L the daily-loss gate reads
   and the entry counter tell the same story in every reachable state. *)
THEOREM BooksAgree ==
  ASSUME NeverCrashes
  PROVE  Spec => []BooksMatchLog
<1>1. Init => BooksInv
  BY BooksInit
<1>2. TypeOK /\ BooksInv /\ [Next]_vars => BooksInv'
  BY BooksNext
<1>3. BooksInv => BooksMatchLog
  BY DEF BooksInv, BooksMatchLog
<1> QED
  BY <1>1, <1>2, <1>3, TypeCorrect, PTL DEF Spec

-----------------------------------------------------------------------------
(* With a flat book and the logged loss of the day at its limit, nothing opens,
   however the loss came about, in every instance that is not restarted. *)
THEOREM LossLimitHolds ==
  ASSUME NeverCrashes
  PROVE  Spec => DayLossRespected
<1> DEFINE Respected == AggregateRisk /\ Tracked = {} /\ pc = "entry" /\ Opens => pnlToday > -DayLossLimit
<1>1. TypeOK /\ BooksInv /\ [Next]_vars => [Respected]_vars
  <2> SUFFICES ASSUME BooksInv, Next, AggregateRisk, Tracked = {}, pc = "entry", Opens
               PROVE  pnlToday > -DayLossLimit
    OBVIOUS
  <2>1. book' # book
    BY DEF Opens
  <2>2. CASE BotStep
    <3>1. Entry
      BY <2>1, <2>2
         DEF BotStep, StartTick, ReconcileFails, ReconcileRead, ReconcileReads, FinishReconcile,
             BookReconciledAway, MonitorPosition, FinishMonitor, AccountResult, FinishManagement,
             DegrossPosition, FinishDegross, FlowDegrossPosition, FinishFlow, DeclineEntry, SaveState
    <3>2. DayLossGateOpen
      BY <3>1 DEF Entry, OpenEntry
    <3> QED
      BY <3>2 DEF DayLossGateOpen, BooksInv, RealizedMatchesLog
  <2>3. CASE WorldStep
    BY <2>1, <2>3
       DEF WorldStep, Crash, CrashDuringEntry, Spend, NeverCrashes, LateFill, ExternalClose,
           ClearHalt, NewDay, botVars
  <2> QED
    BY <2>2, <2>3 DEF Next
<1>2. Init => BooksInv
  BY BooksInit
<1>3. TypeOK /\ BooksInv /\ [Next]_vars => BooksInv'
  BY BooksNext
<1> QED
  BY <1>1, <1>2, <1>3, TypeCorrect, PTL DEF Spec, DayLossRespected

-----------------------------------------------------------------------------
(* Where no exit is a must-exit, no close of one can fail. *)
NoMustExits == "STOP" \notin ExitMoves /\ "error" \notin Faults

OnlyTakesProfit ==
  /\ ~hardFailed
  /\ \A k \in Keys : results[k] # NoResult => results[k].action = "TAKE_PROFIT"
  /\ pc = "account" => \A k \in todo : results[k] # NoResult

LEMMA CloseKinds ==
  ASSUME NoMustExits, NEW k \in Keys, NEW o \in CloseOutcomes(k), SendClose(k, o)
  PROVE  o.kind # "error"
  BY DEF NoMustExits, SendClose, Spend

LEMMA OnlyTakesProfitNext ==
  ASSUME NoMustExits
  PROVE  TypeOK /\ OnlyTakesProfit /\ [Next]_vars => OnlyTakesProfit'
<1> SUFFICES ASSUME TypeOK, OnlyTakesProfit, [Next]_vars PROVE OnlyTakesProfit'
  OBVIOUS
<1> USE DEF OnlyTakesProfit
<1>1. ASSUME UNCHANGED <<hardFailed, results>>, pc' # "account" PROVE OnlyTakesProfit'
  BY <1>1
<1>2. CASE StartTick \/ ReconcileFails \/ ReconcileRead \/ FinishReconcile
  BY <1>1, <1>2 DEF StartTick, ReconcileFails, ReconcileRead, ReconcileReads, FinishReconcile, tickVars
<1>3. ASSUME NEW k \in Keys, BookReconciledAway(k) PROVE OnlyTakesProfit'
  BY <1>1, <1>3 DEF BookReconciledAway, tickVars
<1>4. ASSUME NEW k \in Keys, MonitorPosition(k) PROVE OnlyTakesProfit'
  <2>1. pc' = "monitor" /\ UNCHANGED hardFailed
    BY <1>4 DEF MonitorPosition
  <2>2. CASE UNCHANGED results
    BY <2>1, <2>2, <1>1
  <2>3. ASSUME NEW a \in ExitMoves \ {"HOLD"}, NEW o \in CloseOutcomes(k), SendClose(k, o),
               results' = [results EXCEPT ![k] = [action |-> IF o.kind = "error" THEN "ERROR" ELSE a,
                                                  reported |-> o.reported, status |-> o.status]]
        PROVE  OnlyTakesProfit'
    <3>1. o.kind # "error" /\ a = "TAKE_PROFIT"
      BY <2>3, CloseKinds, SwitchesAssumption DEF NoMustExits
    <3>2. results'[k].action = "TAKE_PROFIT"
      BY <2>3, <3>1 DEF TypeOK, TickTypeOK
    <3>3. \A j \in Keys \ {k} : results'[j] = results[j]
      BY <2>3 DEF TypeOK, TickTypeOK
    <3> QED
      BY <2>1, <3>2, <3>3
  <2> QED
    BY <1>4, <2>2, <2>3 DEF MonitorPosition
<1>5. CASE FinishMonitor
  BY <1>5 DEF FinishMonitor, tickVars
<1>6. ASSUME NEW k \in Keys, AccountResult(k) PROVE OnlyTakesProfit'
  <2>1. /\ pc = "account" /\ k \in todo /\ todo' = todo \ {k}
        /\ UNCHANGED <<pc, results>>
    BY <1>6 DEF AccountResult
  <2>2. results[k].action = "TAKE_PROFIT"
    BY <2>1
  <2>3. ~hardFailed'
    BY <1>6, <2>2 DEF AccountResult, AccountFull, AccountPartial, AccountNothing
  <2> QED
    BY <2>1, <2>3
<1>7. CASE FinishManagement \/ FinishDegross \/ FinishFlow
  BY <1>1, <1>7 DEF FinishManagement, FinishDegross, FinishFlow, tickVars
<1>8. ASSUME NEW k \in Keys, DegrossPosition(k) \/ FlowDegrossPosition(k) PROVE OnlyTakesProfit'
  BY <1>1, <1>8 DEF DegrossPosition, FlowDegrossPosition, tickVars
<1>9. CASE DeclineEntry \/ Entry
  BY <1>1, <1>9 DEF DeclineEntry, Entry, OpenEntry, tickVars
<1>10. CASE SaveState
  BY <1>10 DEF SaveState
<1>11. CASE Crash \/ \E k \in Keys : CrashDuringEntry(k)
  BY <1>11 DEF Crash, CrashDuringEntry, Restart
<1>12. CASE (\E k \in Keys : LateFill(k) \/ ExternalClose(k)) \/ ClearHalt \/ NewDay
  BY <1>12 DEF LateFill, ExternalClose, ClearHalt, NewDay, tickVars
<1>13. CASE UNCHANGED vars
  BY <1>13 DEF vars, tickVars
<1> QED
  BY <1>2, <1>3, <1>4, <1>5, <1>6, <1>7, <1>8, <1>9, <1>10, <1>11, <1>12, <1>13
     DEF Next, BotStep, WorldStep

(* While no must-exit can fail, an unmatched-legs halt is lifted by the operator
   or forgotten by a restart, and by nothing a tick does: not by the clean read
   that lifts drift halts, nor by a position reconciled away. *)
THEOREM UnmatchedLegsStick ==
  ASSUME NoMustExits
  PROVE  Spec => UnmatchedLegsSticky
<1> DEFINE Sticks == halt = "unmatched legs" /\ halt' # halt => ClearHalt \/ RestartsFromDisk
<1>1. Init => OnlyTakesProfit
  BY DEF Init, OnlyTakesProfit
<1>2. TypeOK /\ OnlyTakesProfit /\ [Next]_vars => OnlyTakesProfit'
  BY OnlyTakesProfitNext
<1>3. OnlyTakesProfit /\ [Next]_vars => [Sticks]_vars
  <2> SUFFICES ASSUME OnlyTakesProfit, Next, halt = "unmatched legs", halt' # halt
               PROVE  ClearHalt \/ RestartsFromDisk
    OBVIOUS
  <2>1. CASE WorldStep
    BY <2>1 DEF WorldStep, Crash, CrashDuringEntry, Restart, RestartsFromDisk, LateFill,
                ExternalClose, NewDay, botVars
  <2>2. ASSUME BotStep PROVE FALSE
    <3>1. ~FinishManagement
      BY DEF FinishManagement, OnlyTakesProfit
    <3>2. ~FinishReconcile /\ ~ReconcileRead
      BY DEF FinishReconcile, HaltAfterReconcile, ReconcileRead, ReconcileReads, ReconcileOwned
    <3>3. ~Entry
      BY DEF Entry, OpenEntry, EntryGatesOpen
    <3> QED
      BY <2>2, <3>1, <3>2, <3>3
         DEF BotStep, StartTick, ReconcileFails, BookReconciledAway, MonitorPosition, FinishMonitor,
             AccountResult, DegrossPosition, FinishDegross, FlowDegrossPosition, FinishFlow,
             DeclineEntry, SaveState, botVars
  <2> QED
    BY <2>1, <2>2 DEF Next
<1> QED
  BY <1>1, <1>2, <1>3, TypeCorrect, PTL DEF Spec, UnmatchedLegsSticky

-----------------------------------------------------------------------------
(* A broker that reports every fill, to a bot that is alone on the account and
   not restarted; the de-gross cycles only account for whole fills. *)
TruthfulBroker ==
  /\ Faults \subseteq {"unfilled", "partial", "readfail", "noregime", "equity", "operator"}
  /\ Degross \/ FlowDegross => "partial" \notin Faults

(* Closed at the broker, and still to be accounted for in this tick *)
Owed(k) == pc = "monitor" \/ (pc = "account" /\ k \in todo)

BrokerInv ==
  /\ \A k \in Keys : naked[k] = 0 /\ workClose[k] = 0 /\ workOpen[k] = 0
  /\ \A k \in Keys : book[k] = held[k] + (IF Owed(k) THEN results[k].reported ELSE 0)
  /\ \A k \in Keys : Owed(k) /\ results[k].status = "filled" => held[k] = 0
  /\ pc = "monitor" => \A k \in todo : results[k] = NoResult
  /\ pc = "rebook" => todo = {}
  /\ pc = "degross" /\ todo # {} => Degross
  /\ pc = "flow" /\ todo # {} => FlowDegross

LEMMA TruthfulClose ==
  ASSUME TruthfulBroker, TypeOK, NEW k \in Keys, NEW o \in CloseOutcomes(k), SendClose(k, o)
  PROVE  /\ o.reported = o.fill /\ o.works = 0
         /\ o.status = "filled" => o.fill = book[k]
         /\ (Degross \/ FlowDegross) /\ o.status # "filled" => o.fill = 0
<1>1. book[k] \in Nat /\ held[k] \in Nat
  BY SizesAssumption DEF TypeOK, BotTypeOK, WorldTypeOK
<1>2. \/ o = CloseOutcome("none", book[k], book[k], "filled", 0)
      \/ o = CloseOutcome("none", 0, 0, "canceled", 0)
      \/ o = CloseOutcome("unfilled", 0, 0, "canceled", 0)
      \/ \E f \in 0..book[k] : o = CloseOutcome("partial", f, f, "canceled", 0)
      \/ o.kind \in {"late", "unreadable", "error"}
  BY <1>1 DEF CloseOutcomes, CloseOutcomesOf, CloseOutcome
<1>3. o.kind \notin {"late", "unreadable", "error"}
  BY DEF SendClose, Spend, TruthfulBroker
<1>4. o.kind = "partial" => ~(Degross \/ FlowDegross)
  BY DEF SendClose, Spend, TruthfulBroker
<1> QED
  BY <1>2, <1>3, <1>4 DEF CloseOutcome

LEMMA TruthfulEntry ==
  ASSUME TruthfulBroker, NEW q \in 1..MaxQty, NEW o \in OpenOutcomesOf(q), Spend(o.kind)
  PROVE  o.booked = o.matched /\ o.excess = 0 /\ o.works = 0
<1>1. o.kind \in {"none", "partial"}
  <2>1. o.kind \notin {"late", "overfill", "unreadable", "legs"}
    BY DEF Spend, TruthfulBroker
  <2>2. o.kind \in {"none", "partial", "late", "overfill", "unreadable", "legs"}
    BY DEF OpenOutcomesOf, SettledEntries, LateEntries, OverfilledEntries, UnreadableEntries,
           UnpairedEntries, OpenOutcome
  <2> QED
    BY <2>1, <2>2
<1>2. o \in SettledEntries(q)
  BY <1>1 DEF OpenOutcomesOf, LateEntries, OverfilledEntries, UnreadableEntries, UnpairedEntries,
              OpenOutcome
<1> QED
  BY <1>2 DEF SettledEntries, OpenOutcome

(* Steps that touch neither side keep them equal. *)
LEMMA BrokerStutter ==
  ASSUME BrokerInv, UNCHANGED <<book, held, naked, workClose, workOpen>>,
         \A k \in Keys : ~Owed(k) /\ ~Owed(k)', pc' \notin {"monitor", "rebook"},
         pc' = "degross" /\ todo' # {} => Degross, pc' = "flow" /\ todo' # {} => FlowDegross
  PROVE  BrokerInv'
  BY DEF BrokerInv

LEMMA BrokerDiscretionary ==
  ASSUME TruthfulBroker, TypeOK, BrokerInv, NEW k \in Keys, DiscretionaryClose(k),
         pc \in {"degross", "flow"}, pc' = pc, k \in todo, todo' \subseteq todo
  PROVE  BrokerInv'
<1>1. PICK o \in CloseOutcomes(k) :
        /\ SendClose(k, o)
        /\ IF o.status = "filled" THEN LeaveBook(k, book[k]) ELSE UNCHANGED book
  BY DEF DiscretionaryClose
<1>2. /\ o.works = 0
      /\ o.status = "filled" => o.fill = book[k]
      /\ o.status # "filled" => o.fill = 0
  <2>1. Degross \/ FlowDegross
    BY DEF BrokerInv
  <2> QED
    BY <1>1, <2>1, TruthfulClose
<1>3. /\ held' = [held EXCEPT ![k] = @ - o.fill]
      /\ workClose' = [workClose EXCEPT ![k] = @ + o.works]
      /\ UNCHANGED <<naked, workOpen>>
  BY <1>1 DEF SendClose
<1>4. \A j \in Keys : ~Owed(j) /\ ~Owed(j)'
  BY DEF Owed
<1>5. \A j \in Keys : book'[j] = held'[j] /\ held'[j] \in Int
  <2>1. \A j \in Keys : book[j] = held[j] /\ held[j] \in Nat
    BY <1>4 DEF BrokerInv, TypeOK, WorldTypeOK
  <2>2. CASE o.status = "filled"
    BY <1>1, <1>2, <1>3, <2>1, <2>2 DEF LeaveBook, TypeOK, BotTypeOK, WorldTypeOK
  <2>3. CASE o.status # "filled"
    BY <1>1, <1>2, <1>3, <2>1, <2>3 DEF TypeOK, WorldTypeOK
  <2> QED
    BY <2>2, <2>3
<1>6. \A j \in Keys : workClose'[j] = 0
  BY <1>2, <1>3 DEF BrokerInv, TypeOK, WorldTypeOK
<1> QED
  BY <1>3, <1>5, <1>6 DEF BrokerInv, Owed

LEMMA BrokerMonitors ==
  ASSUME TruthfulBroker, TypeOK, BrokerInv, NEW k \in Keys, MonitorPosition(k)
  PROVE  BrokerInv'
<1>1. /\ pc = "monitor" /\ pc' = "monitor" /\ k \in todo /\ todo' = todo \ {k}
      /\ UNCHANGED book
  BY DEF MonitorPosition, botVars
<1>2. /\ \A j \in Keys : Owed(j) /\ Owed(j)'
      /\ \A j \in Keys : book[j] = held[j] + results[j].reported /\ held[j] \in Nat
      /\ results[k] = NoResult
  BY <1>1 DEF BrokerInv, Owed, TypeOK, WorldTypeOK
<1>3. CASE UNCHANGED <<results, worldVars>>
  BY <1>1, <1>3 DEF BrokerInv, Owed, worldVars, orderVars
<1>4. ASSUME NEW a, NEW o \in CloseOutcomes(k), SendClose(k, o),
             results' = [results EXCEPT ![k] = [action |-> a, reported |-> o.reported,
                                                status |-> o.status]]
      PROVE  BrokerInv'
  <2>1. o.reported = o.fill /\ o.works = 0 /\ (o.status = "filled" => o.fill = book[k])
    BY <1>4, TruthfulClose
  <2>2. /\ held' = [held EXCEPT ![k] = @ - o.fill]
        /\ workClose' = [workClose EXCEPT ![k] = @ + o.works]
        /\ UNCHANGED <<naked, workOpen>>
    BY <1>4 DEF SendClose
  <2>3. /\ results'[k].reported = o.fill /\ results'[k].status = o.status
        /\ \A j \in Keys \ {k} : results'[j] = results[j]
    BY <1>4, <2>1 DEF TypeOK, TickTypeOK
  <2>4. /\ held'[k] = held[k] - o.fill /\ book[k] = held[k] /\ o.fill \in Nat
        /\ \A j \in Keys \ {k} : held'[j] = held[j]
    BY <1>2, <1>4, <2>2, CloseOutcomeBounds DEF TypeOK, WorldTypeOK, NoResult
  <2>5. \A j \in Keys : workClose'[j] = 0
    BY <2>1, <2>2 DEF BrokerInv, TypeOK, WorldTypeOK
  <2>6. \A j \in Keys : /\ book'[j] = held'[j] + results'[j].reported
                        /\ results'[j].status = "filled" => held'[j] = 0
    <3>1. \A j \in Keys \ {k} : results[j].status = "filled" => held[j] = 0
      BY <1>2 DEF BrokerInv
    <3>2. CASE o.status = "filled"
      BY <1>1, <1>2, <2>1, <2>3, <2>4, <3>1, <3>2
    <3>3. CASE o.status # "filled"
      BY <1>1, <1>2, <2>1, <2>3, <2>4, <3>1, <3>3
    <3> QED
      BY <3>2, <3>3
  <2>7. \A j \in Keys : book'[j] = held'[j] + (IF Owed(j)' THEN results'[j].reported ELSE 0)
    BY <1>1, <2>6 DEF Owed
  <2>8. \A j \in todo' : results'[j] = NoResult
    BY <1>1, <2>3 DEF BrokerInv, TypeOK, TickTypeOK
  <2>9. \A j \in Keys : naked'[j] = 0 /\ workClose'[j] = 0 /\ workOpen'[j] = 0
    BY <2>2, <2>5 DEF BrokerInv
  <2> QED
    BY <1>1, <2>6, <2>7, <2>8, <2>9 DEF BrokerInv
<1> QED
  BY <1>3, <1>4 DEF MonitorPosition

LEMMA BrokerAccounts ==
  ASSUME TypeOK, BrokerInv, TodoTracked, NEW k \in Keys, AccountResult(k)
  PROVE  BrokerInv'
<1>1. /\ pc = "account" /\ pc' = "account" /\ k \in todo /\ todo' = todo \ {k}
      /\ UNCHANGED <<results, held, naked, workClose, workOpen>>
  BY DEF AccountResult, worldVars, orderVars
<1>2. /\ book[k] = held[k] + results[k].reported /\ held[k] \in Nat /\ results[k].reported \in Nat
      /\ results[k].status = "filled" => held[k] = 0
  BY <1>1, SizesAssumption DEF BrokerInv, Owed, TypeOK, WorldTypeOK, TickTypeOK
<1>3. book'[k] = held[k] /\ \A j \in Keys \ {k} : book'[j] = book[j]
  <2>1. CASE AccountFull(k)
    BY <1>2, <2>1 DEF AccountFull, FullClose, LeaveBook, TypeOK, BotTypeOK
  <2>2. CASE AccountPartial(k)
    BY <1>2, <2>2 DEF AccountPartial, LeaveBook, TypeOK, BotTypeOK
  <2>3. CASE AccountNothing(k)
    BY <1>2, <2>3 DEF AccountNothing
  <2> QED
    BY <2>1, <2>2, <2>3 DEF AccountResult
<1>4. ~Owed(k)' /\ \A j \in Keys \ {k} : Owed(j)' <=> Owed(j)
  BY <1>1 DEF Owed
<1>5. \A j \in Keys : book'[j] = held'[j] + (IF Owed(j)' THEN results'[j].reported ELSE 0)
  BY <1>1, <1>2, <1>3 DEF BrokerInv, Owed
<1> QED
  BY <1>1, <1>5 DEF BrokerInv, Owed

LEMMA BrokerEntry ==
  ASSUME TruthfulBroker, TypeOK, BrokerInv, NEW k \in Keys, NEW q \in 1..MaxQty,
         NEW o \in OpenOutcomesOf(q), OpenEntry(k, o)
  PROVE  BrokerInv'
<1>1. o.booked = o.matched /\ o.excess = 0 /\ o.works = 0 /\ o.booked \in Nat
  BY TruthfulEntry, OpenOutcomeBounds DEF OpenEntry, BrokerFillsEntry
<1>2. /\ held' = [held EXCEPT ![k] = @ + o.matched]
      /\ naked' = [naked EXCEPT ![k] = @ + o.excess]
      /\ workOpen' = [workOpen EXCEPT ![k] = @ + o.works]
      /\ UNCHANGED workClose /\ pc = "entry" /\ pc' = "save"
  BY DEF OpenEntry, BrokerFillsEntry
<1>3. \A j \in Keys : naked'[j] = 0 /\ workClose'[j] = 0 /\ workOpen'[j] = 0
  BY <1>1, <1>2 DEF BrokerInv, TypeOK, WorldTypeOK
<1>4. \A j \in Keys : book[j] = held[j] /\ held[j] \in Nat
  BY <1>2 DEF BrokerInv, Owed, TypeOK, WorldTypeOK
<1>5. book[k] = 0
  <2>1. k \notin Tracked
    BY DEF OpenEntry
  <2> QED
    BY <1>4, <2>1 DEF Tracked
<1>6. \A j \in Keys : book'[j] = held'[j] /\ held'[j] \in Int
  <2>1. CASE o.booked > 0
    <3>1. book' = [book EXCEPT ![k] = o.booked]
      BY <2>1 DEF OpenEntry, RecordOpen
    <3> QED
      BY <1>1, <1>2, <1>4, <1>5, <3>1 DEF TypeOK, BotTypeOK, WorldTypeOK
  <2>2. CASE ~(o.booked > 0)
    <3>1. book' = book
      BY <2>2 DEF OpenEntry
    <3> QED
      BY <1>1, <1>2, <1>4, <2>2, <3>1 DEF TypeOK, WorldTypeOK
  <2> QED
    BY <2>1, <2>2
<1> QED
  BY <1>2, <1>3, <1>6 DEF BrokerInv, Owed

LEMMA BrokerInvNext ==
  ASSUME TruthfulBroker
  PROVE  TickInv /\ BrokerInv /\ [Next]_vars => BrokerInv'
<1> SUFFICES ASSUME TickInv, BrokerInv, [Next]_vars PROVE BrokerInv'
  OBVIOUS
<1>1. TypeOK /\ TodoTracked /\ TroubleRemembered
  BY DEF TickInv
<1> DEFINE same == UNCHANGED <<book, held, naked, workClose, workOpen>>
<1>2. CASE StartTick
  BY <1>2, BrokerStutter DEF StartTick, botVars, worldVars, orderVars, Owed
(* no position goes missing from a true read, so none is reconciled away *)
<1>3. CASE ReconcileRead
  <2>1. ReconcileReads(BrokerView, FALSE) \/ ReconcileReads(BrokerView, TRUE)
    BY <1>3 DEF ReconcileRead, Spend, TruthfulBroker
  <2>2. \A k \in Keys : BrokerView[k] = book[k]
    <3>1. pc = "reconcile"
      BY <2>1 DEF ReconcileReads
    <3>2. \A k \in Keys : book[k] = held[k] /\ naked[k] = 0
      BY <1>1, <3>1 DEF BrokerInv, Owed, TypeOK, WorldTypeOK
    <3> QED
      BY <3>2 DEF BrokerView
  <2>3. Missing(BrokerView) = {}
    BY <2>2 DEF Missing, Tracked
  <2>4. /\ pc = "reconcile" /\ pc' = "rebook" /\ todo' = {}
        /\ same
    BY <2>1, <2>3 DEF ReconcileReads, RemovedBy, orderVars
  <2> QED
    BY <2>4 DEF BrokerInv, Owed
<1>4. ASSUME NEW k \in Keys, BookReconciledAway(k) PROVE BrokerInv'
  BY <1>4 DEF BookReconciledAway, BrokerInv
<1>5. CASE ReconcileFails \/ FinishReconcile
  <2>1. /\ pc \in {"reconcile", "rebook"} /\ pc' = "monitor" /\ UNCHANGED results
        /\ same /\ todo' \subseteq Keys
    BY <1>5 DEF ReconcileFails, FinishReconcile, botVars, tickVars, worldVars, orderVars, Tracked
  <2>2. \A k \in Keys : results[k] = NoResult
    BY <1>1, <2>1 DEF TroubleRemembered
  <2>3. \A k \in Keys : book[k] = held[k] /\ held[k] \in Nat
    BY <1>1, <2>1 DEF BrokerInv, Owed, TypeOK, WorldTypeOK
  <2>4. \A k \in Keys : results'[k].reported = 0 /\ results'[k].status # "filled"
    BY <2>1, <2>2 DEF NoResult
  <2> QED
    BY <2>1, <2>2, <2>3, <2>4 DEF BrokerInv, Owed
<1>6. ASSUME NEW k \in Keys, MonitorPosition(k) PROVE BrokerInv'
  BY <1>1, <1>6, BrokerMonitors
<1>7. CASE FinishMonitor
  <2>1. /\ pc = "monitor" /\ pc' = "account" /\ UNCHANGED results /\ same
        /\ todo' = {k \in Keys : results[k] # NoResult}
    BY <1>7 DEF FinishMonitor, botVars, tickVars, worldVars, orderVars
  <2>2. \A k \in Keys : book[k] = held[k] + results[k].reported /\ held[k] \in Nat
    BY <1>1, <2>1 DEF BrokerInv, Owed, TypeOK, WorldTypeOK
  <2>3. \A k \in Keys \ todo' : book'[k] = held'[k] /\ held'[k] \in Nat
    BY <2>1, <2>2 DEF NoResult
  <2>4. \A k \in Keys : book'[k] = held'[k] + (IF Owed(k)' THEN results'[k].reported ELSE 0)
    BY <2>1, <2>2, <2>3 DEF Owed
  <2> QED
    BY <2>1, <2>4 DEF BrokerInv, Owed
<1>8. ASSUME NEW k \in Keys, AccountResult(k) PROVE BrokerInv'
  BY <1>1, <1>8, BrokerAccounts
<1>9. CASE FinishManagement
  BY <1>9, BrokerStutter DEF FinishManagement, DegrossFires, worldVars, orderVars, Owed
<1>10. ASSUME NEW k \in Keys, DegrossPosition(k) PROVE BrokerInv'
  BY <1>1, <1>10, BrokerDiscretionary DEF DegrossPosition
<1>11. ASSUME NEW k \in Keys, FlowDegrossPosition(k) PROVE BrokerInv'
  <2>1. CASE DiscretionaryClose(k)
    BY <1>1, <1>11, <2>1, BrokerDiscretionary DEF FlowDegrossPosition
  <2>2. CASE UNCHANGED <<book, worldVars>>
    BY <1>11, <2>2 DEF FlowDegrossPosition, BrokerInv, Owed, worldVars, orderVars
  <2> QED
    BY <1>11, <2>1, <2>2 DEF FlowDegrossPosition
<1>12. CASE FinishDegross \/ FinishFlow \/ DeclineEntry \/ SaveState
  BY <1>12, BrokerStutter DEF FinishDegross, FlowFlips, FinishFlow, DeclineEntry, SaveState, botVars,
     worldVars, orderVars, Owed
<1>13. CASE Entry
  BY <1>1, <1>13, BrokerEntry DEF Entry
<1>14. CASE WorldStep
  <2>1. /\ ~Crash
        /\ \A k \in Keys : ~CrashDuringEntry(k) /\ ~ExternalClose(k) /\ ~LateFill(k)
    BY DEF TruthfulBroker, Crash, CrashDuringEntry, ExternalClose, LateFill, Spend, BrokerInv
  <2>2. CASE ClearHalt
    BY <2>2, BrokerStutter DEF ClearHalt, worldVars, orderVars, Owed
  <2>3. CASE NewDay
    BY <2>3 DEF NewDay, botVars, tickVars, BrokerInv, Owed
  <2> QED
    BY <1>14, <2>1, <2>2, <2>3 DEF WorldStep
<1>15. CASE UNCHANGED vars
  BY <1>15 DEF vars, botVars, tickVars, worldVars, orderVars, BrokerInv, Owed
<1> QED
  BY <1>2, <1>3, <1>4, <1>5, <1>6, <1>7, <1>8, <1>9, <1>10, <1>11, <1>12, <1>13, <1>14,
     <1>15 DEF Next, BotStep

(* Between ticks the positions tracked are the positions held, contract for
   contract, for any sizes and any number of positions, through failed reads,
   partial and refused fills and operator interventions: what run_management_cycle
   and _record_open book is what executed. *)
THEOREM TrackedIsHeld ==
  ASSUME TruthfulBroker
  PROVE  Spec => []TrackedMatchesBroker
<1>1. Init => BrokerInv
  BY DEF Init, BrokerInv, Owed
<1>2. TickInv /\ BrokerInv /\ [Next]_vars => BrokerInv'
  BY BrokerInvNext
<1>3. TickInv /\ BrokerInv => TrackedMatchesBroker
  <2> SUFFICES ASSUME TypeOK, BrokerInv, pc = "idle" PROVE book = held
    BY DEF TickInv, TrackedMatchesBroker
  <2>1. book \in [Keys -> Nat] /\ held \in [Keys -> Nat]
    BY SizesAssumption DEF TypeOK, BotTypeOK, WorldTypeOK
  <2>2. \A k \in Keys : book[k] = held[k]
    BY <2>1 DEF BrokerInv, Owed
  <2> QED
    BY <2>1, <2>2
<1> QED
  BY <1>1, <1>2, <1>3, TickInvariant, PTL DEF Spec

-----------------------------------------------------------------------------
(* A bot that is not restarted, whose entries are read truthfully and whose
   account is read wrongly at most once. *)
OneBadRead ==
  /\ Faults \cap {"staleread", "late", "overfill", "unreadable", "legs", "crash"} = {}
  /\ "emptyread" \in Faults => MaxFaults <= 1

(* A missing streak that no fault accounts for: the account really has lost the
   position, and nothing in the tick so far takes it off the book. *)
ReallyMissing(k) ==
  book[k] > 0 /\ held[k] = 0 /\ results[k].reported = 0 /\ results[k].status # "filled"

(* streak outlives the position it was counted for (monitor and de-gross closes
   leave it behind), so a removal has to be traced to the reads behind it. *)
RemovalInv ==
  /\ \A k \in Keys : naked[k] = 0 /\ workOpen[k] = 0
  /\ pc = "rebook" => \A k \in todo : held[k] = 0 /\ streak[k] = 0
  /\ \A k \in Keys : streak[k] > 0 /\ budget = MaxFaults => ReallyMissing(k)

LEMMA SettledEntry ==
  ASSUME OneBadRead, NEW q \in 1..MaxQty, NEW o \in OpenOutcomesOf(q), Spend(o.kind)
  PROVE  o.excess = 0 /\ o.works = 0
<1>1. o.kind \notin {"late", "overfill", "unreadable", "legs"}
  BY DEF Spend, OneBadRead
<1>2. o \in SettledEntries(q)
  BY <1>1 DEF OpenOutcomesOf, LateEntries, OverfilledEntries, UnreadableEntries, UnpairedEntries,
              OpenOutcome
<1> QED
  BY <1>2 DEF SettledEntries, OpenOutcome

(* An order to close what the account does not hold reports nothing. *)
LEMMA NothingToClose ==
  ASSUME TypeOK, NEW k \in Keys, NEW o \in CloseOutcomes(k), book[k] > 0, held[k] = 0
  PROVE  o.fill = 0 /\ o.reported = 0 /\ o.status # "filled"
<1>1. book[k] \in Nat
  BY SizesAssumption DEF TypeOK, BotTypeOK
<1>2. \/ o = CloseOutcome("none", book[k], book[k], "filled", 0) /\ book[k] <= held[k]
      \/ o = CloseOutcome("none", 0, 0, "canceled", 0)
      \/ o = CloseOutcome("unfilled", 0, 0, "canceled", 0)
      \/ \E f \in 0..book[k] : f <= held[k] /\ o = CloseOutcome("partial", f, f, "canceled", 0)
      \/ \E f, r, w \in 0..book[k] : f <= held[k] /\ r <= f /\ o = CloseOutcome("late", f, r, "canceled", w)
      \/ \E f \in 0..book[k] : f <= held[k] /\ o = CloseOutcome("unreadable", f, 0, "canceled", 0)
      \/ o = CloseOutcome("unreadable", book[k], 0, "filled", 0) /\ book[k] <= held[k]
      \/ \E f, w \in 0..book[k] : f <= held[k] /\ o = CloseOutcome("error", f, 0, "canceled", w)
  BY <1>1 DEF CloseOutcomes, CloseOutcomesOf
<1> QED
  BY <1>1, <1>2 DEF CloseOutcome

(* A step that spends nothing of the budget, closes only by an order, and opens
   only what is not tracked keeps the trace of a missing streak. *)
LEMMA RemovalKept ==
  ASSUME TypeOK, RemovalInv, pc # "rebook", pc' # "rebook", UNCHANGED <<streak, naked, workOpen>>,
         budget' <= budget, budget' \in Int,
         \A k \in Keys : budget' = budget /\ ReallyMissing(k) => ReallyMissing(k)'
  PROVE  RemovalInv'
<1>1. budget \in 0..MaxFaults /\ MaxFaults \in Nat
  BY SizesAssumption DEF TypeOK, WorldTypeOK
<1> QED
  BY <1>1 DEF RemovalInv

LEMMA SpendFalls ==
  ASSUME TypeOK, NEW kind, Spend(kind)
  PROVE  budget' <= budget /\ budget' \in Int
  BY SizesAssumption DEF Spend, TypeOK, WorldTypeOK

LEMMA RemovalMonitors ==
  ASSUME TypeOK, RemovalInv, NEW k \in Keys, MonitorPosition(k)
  PROVE  RemovalInv'
<1>1. pc = "monitor" /\ pc' = "monitor" /\ UNCHANGED <<book, streak>>
  BY DEF MonitorPosition, botVars
<1>2. CASE UNCHANGED <<results, worldVars, budget>>
  <2>1. UNCHANGED <<naked, workOpen, held, budget, results>> /\ budget \in 0..MaxFaults
    BY <1>2 DEF worldVars, TypeOK, WorldTypeOK
  <2>2. budget' <= budget /\ budget' \in Int
    BY <2>1, SizesAssumption
  <2> QED
    BY <1>1, <2>1, <2>2, RemovalKept DEF ReallyMissing
<1>3. ASSUME NEW a, NEW o \in CloseOutcomes(k), SendClose(k, o),
             results' = [results EXCEPT ![k] = [action |-> a, reported |-> o.reported,
                                                status |-> o.status]]
      PROVE  RemovalInv'
  <2>1. /\ held' = [held EXCEPT ![k] = @ - o.fill]
        /\ UNCHANGED <<naked, workOpen>>
        /\ budget' <= budget /\ budget' \in Int
    BY <1>3, SpendFalls DEF SendClose
  <2>2. ASSUME NEW j \in Keys, ReallyMissing(j) PROVE ReallyMissing(j)'
    <3>1. CASE j = k
      <4>1. o.fill = 0 /\ o.reported = 0 /\ o.status # "filled"
        BY <2>2, <3>1, <1>3, NothingToClose DEF ReallyMissing
      <4>2. results'[k].reported = 0 /\ results'[k].status # "filled" /\ held'[k] = held[k] - 0
        BY <1>3, <2>1, <4>1 DEF TypeOK, TickTypeOK, WorldTypeOK
      <4> QED
        BY <1>1, <2>2, <3>1, <4>2 DEF ReallyMissing
    <3>2. CASE j # k
      BY <1>1, <1>3, <2>1, <2>2, <3>2 DEF ReallyMissing, TypeOK, TickTypeOK, WorldTypeOK
    <3> QED
      BY <3>1, <3>2
  <2> QED
    BY <1>1, <2>1, <2>2, RemovalKept
<1> QED
  BY <1>2, <1>3 DEF MonitorPosition

LEMMA RemovalDiscretionary ==
  ASSUME TypeOK, RemovalInv, NEW k \in Keys, DiscretionaryClose(k), pc \in {"degross", "flow"},
         pc' = pc, UNCHANGED <<streak, results>>
  PROVE  RemovalInv'
<1>1. PICK o \in CloseOutcomes(k) :
        /\ SendClose(k, o)
        /\ IF o.status = "filled" THEN LeaveBook(k, book[k]) ELSE UNCHANGED book
  BY DEF DiscretionaryClose
<1>2. /\ held' = [held EXCEPT ![k] = @ - o.fill]
      /\ UNCHANGED <<naked, workOpen>>
      /\ budget' <= budget /\ budget' \in Int
  BY <1>1, SpendFalls DEF SendClose
<1>3. ASSUME NEW j \in Keys, ReallyMissing(j) PROVE ReallyMissing(j)'
  <2>1. CASE j = k
    <3>1. o.fill = 0 /\ o.status # "filled"
      BY <1>3, <2>1, NothingToClose DEF ReallyMissing
    <3>2. UNCHANGED book /\ held'[k] = held[k] - 0
      BY <1>1, <1>2, <3>1 DEF TypeOK, WorldTypeOK
    <3> QED
      BY <1>3, <2>1, <3>2 DEF ReallyMissing
  <2>2. CASE j # k
    <3>1. book'[j] = book[j] /\ held'[j] = held[j]
      BY <1>1, <1>2, <2>2 DEF LeaveBook, TypeOK, BotTypeOK, WorldTypeOK
    <3> QED
      BY <1>3, <3>1 DEF ReallyMissing
  <2> QED
    BY <2>1, <2>2
<1> QED
  BY <1>2, <1>3, RemovalKept

LEMMA RemovalAccounts ==
  ASSUME TypeOK, RemovalInv, NEW k \in Keys, AccountResult(k)
  PROVE  RemovalInv'
<1>1. /\ pc = "account" /\ pc' = "account"
      /\ UNCHANGED <<streak, results, held, naked, workOpen, budget>>
  BY DEF AccountResult, worldVars, orderVars
<1>2. budget' <= budget /\ budget' \in Int
  BY <1>1, SizesAssumption DEF TypeOK, WorldTypeOK
<1>3. ASSUME NEW j \in Keys, ReallyMissing(j) PROVE ReallyMissing(j)'
  <2>1. book \in [Keys -> Int]
    BY SizesAssumption DEF TypeOK, BotTypeOK
  <2>2. CASE j = k
    <3>1. ~FullClose(k) /\ ~AccountPartial(k)
      BY <1>3, <2>1, <2>2 DEF ReallyMissing, FullClose, AccountPartial
    <3>2. UNCHANGED book
      BY <3>1 DEF AccountResult, AccountFull, AccountNothing
    <3> QED
      BY <1>1, <1>3, <3>2 DEF ReallyMissing
  <2>3. CASE j # k
    <3>1. book'[j] = book[j]
      BY <2>1, <2>3 DEF AccountResult, AccountFull, AccountPartial, AccountNothing, LeaveBook
    <3> QED
      BY <1>1, <1>3, <3>1 DEF ReallyMissing
  <2> QED
    BY <2>2, <2>3
<1> QED
  BY <1>1, <1>2, <1>3, RemovalKept

(* The heart of it: a read that removes a position tells the truth about it, or
   is the one bad read, and then the read before it told the truth. *)
LEMMA RemovalReads ==
  ASSUME OneBadRead, TickInv, RemovalInv, ReconcileRead
  PROVE  RemovalInv'
<1>1. TypeOK /\ TroubleRemembered /\ budget \in 0..MaxFaults /\ MaxFaults \in Nat
  BY SizesAssumption DEF TickInv, TypeOK, WorldTypeOK
<1>2. \/ \E gap \in BOOLEAN : ReconcileReads(BrokerView, gap) /\ budget' <= budget
      \/ /\ ReconcileReads([k \in Keys |-> 0], FALSE)
         /\ budget = 1 /\ MaxFaults = 1 /\ budget' = 0
  <2>1. \/ ReconcileReads(BrokerView, FALSE) /\ UNCHANGED budget
        \/ ReconcileReads(BrokerView, TRUE) /\ Spend("equity")
        \/ ReconcileReads([k \in Keys |-> 0], FALSE) /\ Spend("emptyread")
    BY DEF ReconcileRead, Spend, OneBadRead
  <2>2. Spend("emptyread") => budget = 1 /\ MaxFaults = 1 /\ budget' = 0
    BY <1>1 DEF Spend, OneBadRead
  <2>3. UNCHANGED budget \/ Spend("equity") => budget' <= budget
    BY <1>1 DEF Spend
  <2> QED
    BY <2>1, <2>2, <2>3
<1>3. PICK seen :
        /\ \E gap \in BOOLEAN : ReconcileReads(seen, gap)
        /\ \/ seen = BrokerView /\ budget' <= budget
           \/ seen = [k \in Keys |-> 0] /\ budget = 1 /\ MaxFaults = 1 /\ budget' = 0
  BY <1>2
<1>4. /\ streak' = [k \in Keys |-> IF k \in RemovedBy(seen) THEN 0 ELSE NextStreak(seen)[k]]
      /\ todo' = RemovedBy(seen) /\ pc = "reconcile" /\ pc' = "rebook"
      /\ UNCHANGED <<book, held, naked, workOpen, results>>
  BY <1>3 DEF ReconcileReads, orderVars
<1>5. /\ streak \in [Keys -> 0..1] /\ book \in [Keys -> Int]
      /\ \A k \in Keys : held[k] \in Nat /\ naked[k] = 0
      /\ \A k \in Keys : results[k] = NoResult
  BY <1>1, <1>4, SizesAssumption
     DEF TypeOK, BotTypeOK, WorldTypeOK, MissingRemoveThreshold, RemovalInv, TroubleRemembered
<1>6. seen = BrokerView => \A k \in Missing(seen) : book[k] > 0 /\ held[k] = 0
  BY <1>5 DEF BrokerView, Missing, Tracked
<1>7. RemovedBy(seen) \subseteq {k \in Missing(seen) : streak[k] = 1} /\ Missing(seen) \subseteq Keys
  BY <1>5 DEF RemovedBy, NextStreak, MissingRemoveThreshold, Missing, Tracked
<1>8. ASSUME NEW k \in RemovedBy(seen) PROVE held'[k] = 0 /\ streak'[k] = 0
  <2>1. CASE seen = BrokerView
    BY <1>4, <1>6, <1>7, <1>8, <2>1
  <2>2. CASE budget = 1 /\ MaxFaults = 1
    BY <1>4, <1>7, <1>8, <2>2 DEF RemovalInv, ReallyMissing
  <2> QED
    BY <1>3, <2>1, <2>2
<1>9. ASSUME NEW k \in Keys, streak'[k] > 0, budget' = MaxFaults PROVE ReallyMissing(k)'
  <2>1. seen = BrokerView /\ budget' <= budget
    BY <1>3, <1>9
  <2>2. k \in Missing(seen) \/ (streak[k] > 0 /\ k \notin Tracked)
    <3> SUFFICES ASSUME k \notin Missing(seen) PROVE streak[k] > 0 /\ k \notin Tracked
      OBVIOUS
    <3>1. k \notin RemovedBy(seen) /\ NextStreak(seen)[k] > 0
      BY <1>4, <1>9
    <3>2. NextStreak(seen)[k] = IF k \in Tracked THEN 0 ELSE streak[k]
      BY DEF NextStreak
    <3> QED
      BY <3>1, <3>2
  <2>3. budget = MaxFaults
    BY <1>1, <1>9, <2>1
  <2>4. k \in Missing(seen)
    BY <1>5, <2>2, <2>3 DEF RemovalInv, ReallyMissing, Tracked
  <2> QED
    BY <1>4, <1>5, <1>6, <2>1, <2>4 DEF ReallyMissing, NoResult
<1> QED
  BY <1>4, <1>8, <1>9 DEF RemovalInv

LEMMA RemovalEntry ==
  ASSUME OneBadRead, TypeOK, RemovalInv, NEW k \in Keys, NEW q \in 1..MaxQty,
         NEW o \in OpenOutcomesOf(q), OpenEntry(k, o)
  PROVE  RemovalInv'
<1>1. /\ o.excess = 0 /\ o.works = 0
      /\ budget' <= budget /\ budget' \in Int
  BY SettledEntry, SpendFalls DEF OpenEntry, BrokerFillsEntry
<1>2. /\ held' = [held EXCEPT ![k] = @ + o.matched]
      /\ naked' = [naked EXCEPT ![k] = @ + o.excess]
      /\ workOpen' = [workOpen EXCEPT ![k] = @ + o.works]
      /\ pc = "entry" /\ pc' = "save" /\ k \notin Tracked /\ UNCHANGED <<streak, results>>
  BY DEF OpenEntry, BrokerFillsEntry, tickVars
<1>3. UNCHANGED <<naked, workOpen>>
  BY <1>1, <1>2 DEF TypeOK, WorldTypeOK
<1>4. ASSUME NEW j \in Keys, ReallyMissing(j) PROVE ReallyMissing(j)'
  <2>1. j # k
    BY <1>2, <1>4 DEF ReallyMissing, Tracked
  <2>2. book'[j] = book[j] /\ held'[j] = held[j]
    BY <1>2, <2>1 DEF OpenEntry, RecordOpen, TypeOK, BotTypeOK, WorldTypeOK
  <2> QED
    BY <1>2, <1>4, <2>2 DEF ReallyMissing
<1> QED
  BY <1>1, <1>2, <1>3, <1>4, RemovalKept

LEMMA RemovalNext ==
  ASSUME OneBadRead
  PROVE  TickInv /\ RemovalInv /\ [Next]_vars => RemovalInv'
<1> SUFFICES ASSUME TickInv, RemovalInv, [Next]_vars PROVE RemovalInv'
  OBVIOUS
<1>1. /\ TypeOK /\ TodoTracked /\ TroubleRemembered
      /\ budget <= budget /\ budget \in Int
  BY SizesAssumption DEF TickInv, TypeOK, WorldTypeOK
<1> DEFINE same == UNCHANGED <<streak, naked, workOpen, budget, book, held, results>>
<1>2. CASE StartTick \/ ReconcileFails \/ FinishMonitor \/ FinishManagement \/ FinishDegross
           \/ FinishFlow \/ DeclineEntry
  <2>1. pc # "rebook" /\ pc' # "rebook" /\ same
    BY <1>2 DEF StartTick, ReconcileFails, FinishMonitor, FinishManagement, FinishDegross,
                FinishFlow, DeclineEntry, botVars, tickVars, worldVars, orderVars
  <2> QED
    BY <1>1, <2>1, RemovalKept DEF ReallyMissing
<1>3. CASE ReconcileRead
  BY <1>3, RemovalReads
<1>4. ASSUME NEW k \in Keys, BookReconciledAway(k) PROVE RemovalInv'
  <2>1. /\ pc = "rebook" /\ k \in todo /\ todo' = todo \ {k}
        /\ UNCHANGED <<streak, naked, workOpen, budget, held, results>>
        /\ book' = [book EXCEPT ![k] = @ - book[k]]
    BY <1>4 DEF BookReconciledAway, LeaveBook, tickVars, worldVars, orderVars
  <2>2. streak[k] = 0 /\ \A j \in Keys \ {k} : book'[j] = book[j]
    BY <1>1, <2>1 DEF RemovalInv, TypeOK, BotTypeOK
  <2> QED
    BY <2>1, <2>2 DEF RemovalInv, ReallyMissing
<1>5. CASE FinishReconcile
  <2>1. same /\ pc' = "monitor"
    BY <1>5 DEF FinishReconcile, tickVars, worldVars, orderVars
  <2> QED
    BY <2>1 DEF RemovalInv, ReallyMissing
<1>6. ASSUME NEW k \in Keys, MonitorPosition(k) PROVE RemovalInv'
  BY <1>1, <1>6, RemovalMonitors
<1>7. ASSUME NEW k \in Keys, AccountResult(k) PROVE RemovalInv'
  BY <1>1, <1>7, RemovalAccounts
<1>8. ASSUME NEW k \in Keys, DegrossPosition(k) PROVE RemovalInv'
  BY <1>1, <1>8, RemovalDiscretionary DEF DegrossPosition, tickVars
<1>9. ASSUME NEW k \in Keys, FlowDegrossPosition(k) PROVE RemovalInv'
  <2>1. CASE DiscretionaryClose(k)
    BY <1>1, <1>9, <2>1, RemovalDiscretionary DEF FlowDegrossPosition, tickVars
  <2>2. CASE UNCHANGED <<book, worldVars, budget>>
    <3>1. pc # "rebook" /\ pc' # "rebook" /\ same
      BY <1>9, <2>2 DEF FlowDegrossPosition, tickVars, worldVars, orderVars
    <3> QED
      BY <1>1, <3>1, RemovalKept DEF ReallyMissing
  <2> QED
    BY <1>9, <2>1, <2>2 DEF FlowDegrossPosition
<1>10. CASE Entry
  BY <1>1, <1>10, RemovalEntry DEF Entry
<1>11. CASE SaveState
  <2>1. /\ pc # "rebook" /\ pc' # "rebook" /\ UNCHANGED <<streak, naked, workOpen, budget, book, held>>
        /\ \A k \in Keys : results'[k] = NoResult
    BY <1>11 DEF SaveState, worldVars, orderVars
  <2> QED
    BY <1>1, <2>1, RemovalKept DEF ReallyMissing, NoResult
<1>12. CASE WorldStep
  <2>1. ~Crash /\ \A k \in Keys : ~CrashDuringEntry(k)
    BY DEF OneBadRead, Crash, CrashDuringEntry, Spend
  <2>2. ASSUME NEW k \in Keys, LateFill(k) PROVE RemovalInv'
    <3>1. /\ held[k] > 0 /\ held' = [held EXCEPT ![k] = @ - 1]
          /\ UNCHANGED <<pc, todo, streak, naked, workOpen, budget, book, results>>
      BY <2>2 DEF LateFill, RemovalInv, botVars, tickVars
    <3>2. \A j \in Keys : held[j] = 0 => held'[j] = 0
      BY <1>1, <3>1 DEF TypeOK, WorldTypeOK
    <3>3. pc = "rebook" => todo \subseteq Keys
      BY <1>1 DEF TypeOK, TickTypeOK
    <3> QED
      BY <3>1, <3>2, <3>3 DEF RemovalInv, ReallyMissing
  <2>3. ASSUME NEW k \in Keys, ExternalClose(k) PROVE RemovalInv'
    <3>1. /\ held[k] > 0 /\ \E n \in 1..held[k] : held' = [held EXCEPT ![k] = @ - n]
          /\ UNCHANGED <<pc, todo, streak, naked, workOpen, book, results>>
          /\ budget' = budget - 1
      BY <2>3 DEF ExternalClose, Spend, botVars, tickVars, orderVars
    <3>2. budget' # MaxFaults
      BY <1>1, <3>1, SizesAssumption DEF TypeOK, WorldTypeOK
    <3>3. \A j \in Keys : held[j] = 0 => held'[j] = 0
      BY <1>1, <3>1 DEF TypeOK, WorldTypeOK
    <3>4. todo \subseteq Keys
      BY <1>1 DEF TypeOK, TickTypeOK
    <3> QED
      BY <3>1, <3>2, <3>3, <3>4 DEF RemovalInv
  <2>4. CASE ClearHalt
    <3>1. pc = "idle" /\ UNCHANGED <<pc, streak, naked, workOpen, book, held, results>>
          /\ budget' <= budget /\ budget' \in Int
      BY <1>1, <2>4, SpendFalls DEF ClearHalt, tickVars, worldVars, orderVars
    <3> QED
      BY <1>1, <3>1, RemovalKept DEF ReallyMissing
  <2>5. CASE NewDay
    <3>1. /\ pc = "idle" /\ UNCHANGED <<pc, streak, naked, budget, book, held, results>>
          /\ \A k \in Keys : workOpen'[k] = 0
      BY <2>5 DEF NewDay, botVars, tickVars
    <3> QED
      BY <3>1 DEF RemovalInv, ReallyMissing
  <2> QED
    BY <1>12, <2>1, <2>2, <2>3, <2>4, <2>5 DEF WorldStep
<1>13. CASE UNCHANGED vars
  BY <1>13 DEF vars, botVars, tickVars, worldVars, orderVars, RemovalInv, ReallyMissing
<1> QED
  BY <1>2, <1>3, <1>4, <1>5, <1>6, <1>7, <1>8, <1>9, <1>10, <1>11, <1>12, <1>13 DEF Next, BotStep

(* Whatever the debounce of run_reconcile_cycle takes off the book, the account
   has lost: of the two reads behind a removal at least one was true, and no
   close, fill or entry in between brought the position back. *)
THEOREM RemovedIsGone ==
  ASSUME OneBadRead
  PROVE  Spec => []ReconciledAwayIsGone
<1>1. Init => RemovalInv
  BY DEF Init, RemovalInv
<1>2. TickInv /\ RemovalInv /\ [Next]_vars => RemovalInv'
  BY RemovalNext
<1>3. RemovalInv => ReconciledAwayIsGone
  BY DEF RemovalInv, ReconciledAwayIsGone
<1> QED
  BY <1>1, <1>2, <1>3, TickInvariant, PTL DEF Spec

-----------------------------------------------------------------------------
(* The tick loop implements TradeLedger: every step of the loop, read off the
   trade log, is a step of the ledger or no step of it at all. *)
StepInv == TickInv /\ BooksInv

ledgerStutter == UNCHANGED <<logOpen, opensToday, pnlToday, today>>

(* TradeLedger counts with its own copy of Cardinality. *)
LEMMA SameCardinality == ASSUME NEW S PROVE Ledger!Cardinality(S) = Cardinality(S)
  BY Zenon DEF Ledger!Cardinality, Cardinality

LEMMA LedgerInitMaps == Init => Ledger!LedgerInit
  BY DEF Init, Ledger!LedgerInit

(* Contracts that leave with a row that carries P&L: an Exit of the ledger. *)
LEMMA ExitMaps ==
  ASSUME TypeOK, BooksInv, NEW k \in Keys, NEW qty \in 1..book[k], NEW p \in Pnls,
         LeaveBook(k, qty), AccumulateRealized(p), UNCHANGED <<opensToday, today>>
  PROVE  Ledger!LedgerNext
<1>1. qty \in 1..logOpen[k]
  BY DEF BooksInv, LedgerConserved
<1>2. Ledger!Exit(k, qty, p)
  BY DEF Ledger!Exit, LeaveBook, AccumulateRealized
<1> QED
  BY <1>1, <1>2 DEF Ledger!LedgerNext

LEMMA BookReconciledAwayMaps ==
  ASSUME StepInv, NEW k \in Keys, BookReconciledAway(k)
  PROVE  Ledger!LedgerNext
<1>1. book[k] \in Nat /\ book[k] > 0
  BY SizesAssumption DEF StepInv, TickInv, TodoTracked, Tracked, BookReconciledAway, TypeOK, BotTypeOK
<1>2. LeaveBook(k, book[k]) /\ UNCHANGED <<opensToday, today>>
  BY DEF BookReconciledAway, worldVars
<1>3. CASE BookAtMark
  BY <1>1, <1>2, <1>3, ExitMaps DEF StepInv, TickInv, BookAtMark
<1>4. CASE UNCHANGED <<realized, riskDay, pnlToday>>
  <2>1. logOpen = book
    BY DEF StepInv, BooksInv, LedgerConserved
  <2>2. logOpen' = [logOpen EXCEPT ![k] = 0] /\ logOpen[k] > 0
    <3>1. logOpen[k] - book[k] = 0 /\ logOpen[k] > 0
      BY <1>1, <2>1
    <3>2. logOpen' = [logOpen EXCEPT ![k] = logOpen[k] - book[k]]
      BY <1>2 DEF LeaveBook
    <3> QED
      BY <3>1, <3>2
  <2>3. Ledger!Escalate(k)
    BY <1>2, <1>4, <2>2 DEF Ledger!Escalate
  <2> QED
    BY <2>3 DEF Ledger!LedgerNext
<1> QED
  BY <1>3, <1>4 DEF BookReconciledAway

LEMMA AccountResultMaps ==
  ASSUME StepInv, NEW k \in Keys, AccountResult(k)
  PROVE  Ledger!LedgerNext \/ ledgerStutter
<1> USE DEF StepInv, TickInv
<1>1. book[k] \in Nat /\ book[k] > 0
  BY SizesAssumption DEF TodoTracked, Tracked, AccountResult, TypeOK, BotTypeOK
<1>2. UNCHANGED <<opensToday, today>>
  BY DEF AccountResult, worldVars
<1>3. CASE AccountFull(k)
  BY <1>1, <1>2, <1>3, ExitMaps DEF AccountFull
<1>4. CASE AccountPartial(k)
  <2>1. results[k].reported \in 1..book[k]
    BY <1>1, <1>4, SizesAssumption DEF AccountPartial, FullClose, TypeOK, TickTypeOK
  <2> QED
    BY <1>2, <1>4, <2>1, ExitMaps DEF AccountPartial
<1>5. CASE AccountNothing(k)
  BY <1>2, <1>5 DEF AccountNothing, ledgerStutter
<1> QED
  BY <1>3, <1>4, <1>5 DEF AccountResult

LEMMA DiscretionaryMaps ==
  ASSUME StepInv, NEW k \in Keys, DegrossPosition(k) \/ FlowDegrossPosition(k)
  PROVE  Ledger!LedgerNext \/ ledgerStutter
<1> USE DEF StepInv, TickInv
<1>1. book[k] \in Nat /\ book[k] > 0
  BY SizesAssumption
     DEF TodoTracked, Tracked, DegrossPosition, FlowDegrossPosition, TypeOK, BotTypeOK
<1>2. UNCHANGED opensToday
  BY DEF DegrossPosition, FlowDegrossPosition
<1>3. CASE DiscretionaryClose(k)
  <2>1. PICK o \in CloseOutcomes(k) :
          /\ SendClose(k, o)
          /\ IF o.status = "filled"
               THEN /\ LeaveBook(k, book[k])
                    /\ \E p \in Pnls : AccumulateRealized(p)
               ELSE UNCHANGED <<book, logOpen, realized, riskDay, pnlToday>>
    BY <1>3 DEF DiscretionaryClose
  <2>2. UNCHANGED today
    BY <2>1 DEF SendClose
  <2>3. CASE o.status = "filled"
    BY <1>1, <1>2, <2>1, <2>2, <2>3, ExitMaps
  <2>4. CASE o.status # "filled"
    BY <1>2, <2>1, <2>2, <2>4 DEF ledgerStutter
  <2> QED
    BY <2>3, <2>4
<1>4. CASE UNCHANGED <<book, logOpen, realized, riskDay, pnlToday, worldVars, budget>>
  BY <1>2, <1>4 DEF ledgerStutter, worldVars
<1> QED
  BY <1>3, <1>4 DEF DegrossPosition, FlowDegrossPosition

LEMMA OpenEntryMaps ==
  ASSUME StepInv, NEW k \in Keys, NEW q \in 1..MaxQty, NEW o \in OpenOutcomesOf(q), OpenEntry(k, o)
  PROVE  Ledger!LedgerNext \/ ledgerStutter
<1> USE DEF StepInv, TickInv
<1>1. today' = today /\ pnlToday' = pnlToday
  BY DEF OpenEntry, BrokerFillsEntry
<1>2. CASE ~(o.booked > 0)
  BY <1>1, <1>2 DEF OpenEntry, ledgerStutter
<1>3. CASE o.booked > 0
  <2>1. o.booked \in 1..MaxQty
    BY <1>3, OpenOutcomeBounds, SizesAssumption
  <2>2. RecordOpen(k, o.booked)
    BY <1>3 DEF OpenEntry
  <2>3. logOpen = book
    BY DEF BooksInv, LedgerConserved
  <2>4. k \notin Tracked /\ EntryGatesOpen /\ DayLossGateOpen
    BY DEF OpenEntry
  <2>5. book[k] = 0
    BY <2>4, SizesAssumption DEF Tracked, TypeOK, BotTypeOK
  <2>6. Ledger!Live = Tracked
    BY <2>3 DEF Ledger!Live, Tracked
  <2>7. opensToday < MaxEntries /\ Cardinality(Ledger!Live) < MaxOpen
    BY <2>4, <2>6 DEF EntryGatesOpen, BooksInv, EntriesCapped
  <2>8. AggregateRisk /\ Ledger!Live = {} => pnlToday > -DayLossLimit
    BY <2>4, <2>6 DEF DayLossGateOpen, BooksInv, RealizedMatchesLog
  <2>9. logOpen' = [logOpen EXCEPT ![k] = o.booked]
    <3>1. logOpen[k] + o.booked = o.booked
      BY <2>1, <2>3, <2>5, SizesAssumption
    <3> QED
      BY <2>2, <3>1 DEF RecordOpen
  <2>10. Ledger!Open(k, o.booked)
    <3>1. opensToday' = opensToday + 1 /\ logOpen[k] = 0
      BY <2>2, <2>3, <2>5 DEF RecordOpen
    <3> QED
      BY <1>1, <2>7, <2>8, <2>9, <3>1, SameCardinality DEF Ledger!Open
  <2> QED
    BY <2>1, <2>10 DEF Ledger!LedgerNext
<1> QED
  BY <1>2, <1>3

LEMMA LedgerStepMaps ==
  ASSUME NeverCrashes
  PROVE  StepInv /\ [Next]_vars => [Ledger!LedgerNext]_(Ledger!ledgerVars)
<1> SUFFICES ASSUME StepInv, [Next]_vars PROVE Ledger!LedgerNext \/ ledgerStutter
  BY DEF Ledger!ledgerVars, ledgerStutter
<1>1. CASE StartTick \/ ReconcileFails \/ FinishMonitor \/ FinishDegross \/ FinishFlow
  BY <1>1 DEF StartTick, ReconcileFails, FinishMonitor, FinishDegross, FinishFlow,
     ledgerStutter, worldVars, logVars
<1>2. CASE ReconcileRead \/ FinishReconcile \/ FinishManagement \/ DeclineEntry \/ SaveState
  BY <1>2 DEF ReconcileRead, ReconcileReads, FinishReconcile, FinishManagement, DeclineEntry,
     SaveState, ledgerStutter, worldVars, logVars
<1>3. ASSUME NEW k \in Keys, MonitorPosition(k) PROVE ledgerStutter
  BY <1>3 DEF MonitorPosition, SendClose, ledgerStutter, worldVars, logVars
<1>4. CASE BotStep
  BY <1>1, <1>2, <1>3, <1>4, BookReconciledAwayMaps, AccountResultMaps, DiscretionaryMaps,
     OpenEntryMaps DEF BotStep, Entry
<1>5. CASE WorldStep
  <2>1. ~Crash /\ \A k \in Keys : ~CrashDuringEntry(k)
    BY DEF NeverCrashes, Crash, CrashDuringEntry, Spend
  <2>2. CASE ClearHalt \/ \E k \in Keys : LateFill(k) \/ ExternalClose(k)
    BY <2>2 DEF ClearHalt, LateFill, ExternalClose, ledgerStutter, worldVars, logVars
  <2>3. CASE NewDay
    BY <2>3 DEF NewDay, Ledger!NextDay, Ledger!LedgerNext
  <2> QED
    BY <1>5, <2>1, <2>2, <2>3 DEF WorldStep
<1>6. CASE UNCHANGED vars
  BY <1>6 DEF vars, ledgerStutter, worldVars, logVars
<1> QED
  BY <1>4, <1>5, <1>6 DEF Next

(* The loop implements the ledger for every set of keys, every limit and every
   mix of broker faults, as long as the process is not restarted. *)
THEOREM ImplementsTradeLedger ==
  ASSUME NeverCrashes
  PROVE  Spec => ImplementsLedger
<1>1. Init => BooksInv
  BY BooksInit
<1>2. TypeOK /\ BooksInv /\ [Next]_vars => BooksInv'
  BY BooksNext
<1>3. TickInv /\ BooksInv /\ [Next]_vars => [Ledger!LedgerNext]_(Ledger!ledgerVars)
  BY LedgerStepMaps DEF StepInv
<1> QED
  BY <1>1, <1>2, <1>3, LedgerInitMaps, TypeCorrect, TickInvariant, PTL
     DEF Spec, ImplementsLedger, Ledger!LedgerSpec
=============================================================================
