\* Books against the trade log: three candidate positions, every exit path, two days.
SPECIFICATION Spec
CONSTANTS
  k1 = k1
  k2 = k2
  k3 = k3
  Keys = {k1, k2, k3}
  MaxQty = 1
  MaxOpen = 2
  MaxEntries = 2
  Shared = FALSE
  TrendGate = TRUE
  Degross = TRUE
  FlowDegross = TRUE
  SameDayOnly = TRUE
  AggregateRisk = TRUE
  DayLossLimit = 1
  ExitMoves = {"HOLD", "STOP"}
  Pnls <- LossOrGain
  Trends = {"risk_on", "risk_off"}
  Flows = {"bullish", "bearish"}
  NumDays = 2
  Faults = {"unfilled", "error", "external", "emptyread", "equity", "readfail"}
  MaxFaults = 1
SYMMETRY KeySymmetry
INVARIANT TroubleBlocksEntry
INVARIANT ReconciledAwayIsGone
PROPERTY ImplementsLedger
INVARIANT BooksMatchLog
