\* After bad reads, restarts and positions that vanish: the phantom leaves, the drift halt lifts, risk_off flattens.
SPECIFICATION FairSpec
CONSTANTS
  k1 = k1
  k2 = k2
  Keys = {k1, k2}
  MaxQty = 1
  MaxOpen = 2
  MaxEntries = 1
  Shared = TRUE
  TrendGate = TRUE
  Degross = TRUE
  FlowDegross = FALSE
  SameDayOnly = TRUE
  AggregateRisk = FALSE
  DayLossLimit = 1
  ExitMoves = {"HOLD"}
  Pnls <- Flat
  Trends = {"risk_on", "risk_off"}
  Flows = {"neutral"}
  NumDays = 1
  Faults = {"unfilled", "late", "external", "crash", "equity", "noregime", "legs", "operator", "staleread", "unreadable", "emptyread"}
  MaxFaults = 2
PROPERTY PhantomLeaves
 
PROPERTY RiskOffFlattens
 
