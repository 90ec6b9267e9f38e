------------------------- MODULE OrchestratorProperties -------------------------
(***************************************************************************)
(* What the tick loop must keep true.  Each property says which behaviours *)
(* of the environment it is meant for; the .cfg files choose the Faults    *)
(* accordingly.                                                            *)
(***************************************************************************)
EXTENDS Orchestrator

SavedType == [book: [Keys -> 0..MaxQty], entryDay: [Keys -> Days], halt: HaltReasons,
              lastEntryDay: Days, entriesToday: 0..MaxEntries, realized: Int, riskDay: Days,
              prevFlow: Flows \cup {"none", "neutral"}]

BotTypeOK ==
  /\ book \in [Keys -> 0..MaxQty] /\ entryDay \in [Keys -> Days]
  /\ halt \in HaltReasons
  /\ lastEntryDay \in Days /\ entriesToday \in 0..MaxEntries
  /\ realized \in Int /\ riskDay \in Days
  /\ prevFlow \in Flows \cup {"none", "neutral"}
  /\ streak \in [Keys -> 0..(MissingRemoveThreshold - 1)]
TickTypeOK ==
  /\ pc \in Phases
  /\ regime \in Regimes
  /\ recOk \in BOOLEAN /\ drift \in BOOLEAN /\ hardFailed \in BOOLEAN
  /\ todo \in SUBSET Keys
  /\ results \in [Keys -> [action: Actions, reported: 0..MaxQty, status: Statuses]]
WorldTypeOK ==
  /\ today \in 1..NumDays
  /\ held \in [Keys -> Nat] /\ naked \in [Keys -> Int]
  /\ workClose \in [Keys -> Nat] /\ workOpen \in [Keys -> Nat]
  /\ lastRead \in [Keys -> Nat]
  /\ budget \in 0..MaxFaults
LogTypeOK ==
  /\ logOpen \in [Keys -> Int] /\ pnlToday \in Int /\ opensToday \in Nat
  /\ unseen \in [Keys -> 0..MissingRemoveThreshold]

(* Every variable keeps the shape the code gives it; the debounce streak never
   outlives the read that reaches the removal threshold, and the daily entry
   counter, reset lazily, never passes max_entries_per_day. *)
TypeOK == BotTypeOK /\ disk \in SavedType /\ TickTypeOK /\ WorldTypeOK /\ LogTypeOK

-----------------------------------------------------------------------------
(* Books against the trade log (no crash) *)

(* A contract the trade log still shows open is a contract the bot still
   tracks, and the other way round: no exit path drops P&L rows or books twice. *)
LedgerConserved == logOpen = book

(* realized_today, the number the daily-loss gate reads, is the sum of the pnl
   cells logged today, across the lazy day roll and every exit path. *)
RealizedMatchesLog == pnlToday = RealizedNow

(* The OPEN rows of a day never exceed max_entries_per_day, although the
   counter is reset lazily and on another day field than the P&L. *)
EntriesCapped == opensToday = EntriesNow /\ opensToday <= MaxEntries

(* The trade log, the book, the P&L the daily-loss gate reads and the entry
   counter tell the same story, on every exit path and over both lazy resets. *)
BooksMatchLog == LedgerConserved /\ RealizedMatchesLog /\ EntriesCapped

(* With a flat book whose logged loss of the day reached the limit, nothing is
   opened, also when the loss came from a position reconciled away. *)
Opens == \E k \in Keys : book[k] = 0 /\ book'[k] > 0
DayLossRespected ==
  [][AggregateRisk /\ Tracked = {} /\ pc = "entry" /\ Opens => pnlToday > -DayLossLimit]_vars

(* The log, read as a ledger, only takes the steps TradeLedger allows. *)
Ledger == INSTANCE TradeLedger
            WITH LossGate <- AggregateRisk,
                 open <- logOpen, opens <- opensToday, pnl <- pnlToday, day <- today
ImplementsLedger == Ledger!LedgerSpec

-----------------------------------------------------------------------------
(* Books against the broker *)

(* Between ticks the bot tracks exactly what the broker holds for it, when
   fills, partial fills and refusals are reported truthfully. *)
TrackedMatchesBroker == pc = "idle" => book = held

(* A position is only reconciled away when the account no longer holds it.
   "A position the broker no longer has is closed" (orchestrator.py:211). *)
ReconciledAwayIsGone == pc = "rebook" => \A k \in todo : held[k] = 0

(* Two consecutive reads of this very position came back without it. *)
DebounceSurvivesOneRead ==
  pc = "rebook" => \A k \in todo : unseen[k] = MissingRemoveThreshold

-----------------------------------------------------------------------------
(* Halts *)

(* An entry decision is never reached unhalted in a tick that saw drift or a
   must-exit close that filled nothing. *)
StuckClose(k) ==
  results[k].action \in {"STOP", "ERROR"} /\ results[k].reported = 0 /\ results[k].status # "filled"
TroubleBlocksEntry ==
  pc = "entry" /\ (drift \/ \E k \in Keys : StuckClose(k)) => halt # "none"

(* Only the operator lifts an unmatched-legs halt; a restart finds it again as
   soon as one tick has been saved with it. *)
RestartsFromDisk == halt' = disk.halt /\ (Crash \/ \E k \in Keys : CrashDuringEntry(k))
UnmatchedLegsSticky ==
  [][halt = "unmatched legs" /\ halt' # halt => ClearHalt \/ RestartsFromDisk]_vars

-----------------------------------------------------------------------------
(* Liveness, under FairSpec *)

(* Whatever is past its stop leaves the book: halts, failed reads, errors and
   restarts delay the close but never switch it off. *)
StopsKeepFiring == \A k \in Keys : book[k] > 0 ~> book[k] = 0

(* A drift halt caused by a stale read lifts itself once reads are current. *)
DriftHaltLifts == halt = "reconcile drift" ~> halt # "reconcile drift"

(* A position the account lost is eventually dropped from the book. *)
PhantomLeaves == \A k \in Keys : (book[k] > 0 /\ held[k] = 0) ~> (book[k] = 0 \/ held[k] > 0)

(* Once the trend stays risk_off the book goes flat and stays flat. *)
RiskOffFlattens == <>[](pc = "degross" => DegrossFires) => <>[](Tracked = {})
=============================================================================
