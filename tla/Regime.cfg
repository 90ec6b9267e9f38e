SPECIFICATION Spec
CONSTANTS
  None = None
  ShortN = 2
  LongN = 3
  MaN = 3
  AtrN = 2
  Lookback = 2
  Extreme = 5
  Basket = {"SPY", "QQQ", "DIA", "SOXX", "VIX", "VIX1D"}
  OpeningBars = 1
  TargetDelta = 35
  MinDelta = 20
  MaxDelta = 50
  Cushion = 100
  Equities = {100, 90}
  Histories <- MCHistories
  Tides <- MCTides
  Books <- MCBooks
  Downloads <- MCDownloads
  ShadowReads <- MCShadowReads
  Ttl = 2
  MaxClock = 4
  MaxRestarts = 1
INVARIANT KillIsDrawdown
INVARIANT FlipIsTwoReads
PROPERTY TickEnds
INVARIANT ShadowIsSound
PROPERTY HungFeedHarmless
CHECK_DEADLOCK FALSE
