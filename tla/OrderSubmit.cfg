\* Closes and entries of three contracts, on an account that holds none to three of them.
SPECIFICATION FairSpec
CONSTANTS
  Qty = 3
  MaxOrders = 1
  Readings = {"exact", "bare", "unreadable"}
PROPERTY EndsForeseen
PROPERTY SubmitEnds
INVARIANT AnswerStands
CHECK_DEADLOCK FALSE
