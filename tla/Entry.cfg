SPECIFICATION Spec
CHECK_DEADLOCK FALSE
CONSTANTS
  Wing = 1000
  StopSlip = 10
  CloseSlip = 25
  EntryPct = 75
  TradePct = 500
  DayPct = 200
  ExpiryPct = 300
  StopPct = 400
  StructuralPct = 1500
  GapPct <- MCGapPct
  BasePct = 1000
  GatePct = 1000
  MaxConcurrent = 2
  AbsoluteFloor = 80
  ProbeFloor = 100
  FullFloor = 115
  FullCeiling = 140
  AdaptMin = 1
  MaxHistory = 2
  RecordMove = 5
  EntrySlip = 3
  WidthPct = 25
  RoundTrip = 860
  TakeProfitPct = 50
  CostTimes = 4
  Bots = {"monday", "alldays", "live"}
  NumDays = 2
  NumWindows = 1
  EntryDays = {1, 2}
  Expiries = {6, 9}
  Fridays = {7, 14}
  MinDte = 4
  MaxExpirations = 2
  Strikes = {1, 2}
  Stress <- MCStress
  MaxOpen = 2
  MaxEntries = 2
  MinEquity = 6
  HaltPct = 200
  Inputs <- MCInputs
  Losses = {900}
  MaxCycles = 3
VIEW Remembered
INVARIANT NeverStacked
PROPERTY EntryWithinLimits
PROPERTY PreselectionHolds
INVARIANT AccountIsSound
