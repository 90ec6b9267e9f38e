\* Entry and take-profit ladders of two contracts over three price steps.
SPECIFICATION FairSpec
CONSTANTS
  Qty = 2
  MaxOrders = 3
  Readings = {"exact", "unreadable"}
  LowPrice = 3
  HighPrice = 5
INVARIANT AtMostOneLive
 
INVARIANT AnswerIsCovered
PROPERTY EndsForeseen
PROPERTY LadderEnds
CHECK_DEADLOCK FALSE
