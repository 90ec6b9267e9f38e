\* Full, partial and refused fills, reported truthfully, through failed reads and regime faults.
SPECIFICATION FairSpec
CONSTANTS
  k1 = k1
  k2 = k2
  Keys = {k1, k2}
  MaxQty = 2
  MaxOpen = 2
  MaxEntries = 2
  Shared = FALSE
  TrendGate = FALSE
  Degross = FALSE
  FlowDegross = FALSE
  SameDayOnly = TRUE
  AggregateRisk = FALSE
  DayLossLimit = 1
  ExitMoves = {"STOP"}
  Pnls <- Flat
  Trends = {"unknown"}
  Flows = {"neutral"}
  NumDays = 2
  Faults = {"unfilled", "partial", "readfail", "noregime"}
  MaxFaults = 2
INVARIANT TrackedMatchesBroker
PROPERTY StopsKeepFiring
