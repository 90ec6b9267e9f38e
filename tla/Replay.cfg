SPECIFICATION Spec
CONSTANTS
  None = None
  Watchlist = {"SPY", "QQQ"}
  Blacklist = {"TSLA"}
  Etf <- MCEtf
  MinPremium = 5
  MinActionable = 3000
  MinAlerts = 1
  SignalTtl = 6
  MaxAge = 3
  Fade = 6
  MinDte = 3
  MaxDte = 9
  RollMinDte = 7
  RollMaxDte = 14
  IcMinDte = 30
  IcMaxDte = 45
  Clusters = {9}
  SingleHolidays = {16}
  SizePercent = 20
  MaxContracts = 2
  Feeds <- MCFeeds
  VixCloses <- MCVixCloses
  Configs <- MCConfigs
  Days = {0, 4, 7, 11}
  MaxDays = 3
  Prices <- MCPrices
  Raws = {2, 3}
  Listed <- MCListed
  Quotes <- MCQuotes
  MaxBars = 2
  Slip = 1
  Fee = 1
  Capital = 45
  MaxPositions = 2
  RollMax = 1
  DayStart = 2
  DayEnd = 8
  MidDay = 5
  ScanStep = 3
  VixGap = 1
  IcMove = 3
INVARIANT MoneyIsBooked
INVARIANT HoldingsAllowed
PROPERTY TradesAllowed
