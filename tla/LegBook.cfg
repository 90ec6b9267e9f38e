SPECIFICATION Spec
CONSTANTS
  Expiries = {1}
  Shorts = {3, 4, 5}
  Wing = 2
  MaxQty = 2
  MaxOpen = 2
  Exits = {"TAKE_PROFIT"}
  UnevenCloses = FALSE
INVARIANT ReadsExactly
 
PROPERTY FillsBooked
PROPERTY ReadsKeepBooks
