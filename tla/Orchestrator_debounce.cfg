\* A streak left behind by a closed position removes its successor after one empty read.
SPECIFICATION Spec
CONSTANTS
  k1 = k1
  Keys = {k1}
  MaxQty = 1
  MaxOpen = 1
  MaxEntries = 2
  Shared = FALSE
  TrendGate = FALSE
  Degross = FALSE
  FlowDegross = FALSE
  SameDayOnly = TRUE
  AggregateRisk = FALSE
  DayLossLimit = 1
  ExitMoves = {"HOLD", "TAKE_PROFIT"}
  Pnls <- Flat
  Trends = {"unknown"}
  Flows = {"neutral"}
  NumDays = 1
  Faults = {"emptyread"}
  MaxFaults = 2
INVARIANT DebounceSurvivesOneRead
