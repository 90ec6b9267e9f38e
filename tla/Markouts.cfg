SPECIFICATION FairSpec
CONSTANTS
  None = None
  Spreads = {"near"}
  Horizons = {1, 2}
  Marks = {1, 3}
  Credit = 2
  MaxSignals = 2
  MaxFaults = 1
PROPERTY SavedMeasuresStand
PROPERTY FollowedUp
INVARIANT RowsAreSound
