------------------------------ MODULE LadderProofs ------------------------------
(***************************************************************************)
(* The safety of the price ladders, for every quantity, price range and    *)
(* way of reading an order.  Each theorem has an inductive invariant built *)
(* on the type invariant.                                                  *)
(***************************************************************************)
EXTENDS PriceLadder, FiniteSetTheorems, TLAPS

-----------------------------------------------------------------------------
(* What the broker does to the orders of one submission, and what it leaves alone. *)
LEMMA RoomBound == MostRoom \in Nat /\ Qty <= MostRoom
<1> DEFINE q == Qty  m == MaxOrders
<1>1. q \in Nat \ {0} /\ m \in Nat \ {0}
  BY OrderAssumption
<1> HIDE DEF q, m
<1>2. q * m \in Nat /\ q <= q * m
  BY <1>1
<1> QED
  BY <1>2 DEF q, m, MostRoom

(* What is read of an order of the right shape is a report of the right shape. *)
LEMMA ReportType ==
  ASSUME OrdersTypeOK, NEW id \in Ids, NEW reading \in Readings,
         NEW status \in Terminal \cup LiveStatus
  PROVE  Report(orders[id], status, reading) \in Reports
<1>1. reading \in {"exact", "bare", "unreadable"} /\ Qty \in Nat
  BY OrderAssumption
<1>2. orders[id].exec \in 0..Qty
  BY DEF OrdersTypeOK
<1> QED
  BY <1>1, <1>2 DEF Report, Reports

LEMMA NoReportType == NoReport \in Reports
  BY OrderAssumption DEF NoReport, Reports

(* The account, the empty order book and the count start in their shapes. *)
LEMMA OrdersInitType == OrdersInit => OrdersTypeOK
<1> SUFFICES ASSUME OrdersInit PROVE OrdersTypeOK
  OBVIOUS
<1>1. closing \in BOOLEAN /\ room \in 0..MostRoom
  <2>1. CASE closing = TRUE /\ room \in 0..Qty
    BY <2>1, RoomBound, OrderAssumption
  <2>2. CASE closing = FALSE /\ room = MostRoom
    <3>1. closing \in BOOLEAN
      BY ONLY <2>2
    <3>2. room \in 0..MostRoom
      BY <2>2, RoomBound
    <3> QED
      BY <3>1, <3>2
  <2> QED
    BY <2>1, <2>2 DEF OrdersInit
<1>2. orders \in [Ids -> [status: Terminal \cup LiveStatus \cup {"unplaced"}, exec: 0..Qty,
                          asked: BOOLEAN]]
  BY OrderAssumption DEF OrdersInit, Unplaced
<1> QED
  BY <1>1, <1>2, RoomBound DEF OrdersInit, OrdersTypeOK

(* Order records of the right shape stay so in what the broker is asked and does. *)
LEMMA OrdersAct ==
  ASSUME OrdersTypeOK,
         \/ BrokerActs /\ UNCHANGED task
         \/ (\E id \in Ids : Accept(id) \/ AskCancel(id)) /\ UNCHANGED <<task, executed>>
         \/ UNCHANGED <<task, orders, executed>>
  PROVE  OrdersTypeOK'
<1>1. CASE UNCHANGED <<task, orders, executed>>
  BY <1>1 DEF OrdersTypeOK, task
<1>2. ASSUME NEW id \in Ids, Accept(id) \/ AskCancel(id), UNCHANGED <<task, executed>>
      PROVE  OrdersTypeOK'
  <2>1. orders' \in [Ids -> [status: Terminal \cup LiveStatus \cup {"unplaced"}, exec: 0..Qty,
                             asked: BOOLEAN]]
    <3>1. CASE Accept(id)
      BY <3>1, OrderAssumption DEF OrdersTypeOK, Accept, LiveStatus
    <3>2. CASE AskCancel(id)
      BY <3>2 DEF OrdersTypeOK, AskCancel
    <3> QED
      BY <1>2, <3>1, <3>2
  <2> QED
    BY <1>2, <2>1 DEF OrdersTypeOK, task
<1>3. ASSUME NEW id \in Ids, Fill(id), UNCHANGED task
      PROVE  OrdersTypeOK'
  <2>1. PICK n \in 1..(Qty - orders[id].exec) :
          /\ executed + n <= room
          /\ executed' = executed + n
          /\ orders' = [orders EXCEPT ![id].exec = @ + n,
                          ![id].status = IF orders[id].exec + n = Qty THEN "filled"
                                         ELSE "partially_filled"]
    BY <1>3 DEF Fill
  <2>2. orders[id].exec \in 0..Qty /\ orders[id].exec + n \in 0..Qty
    BY <2>1, OrderAssumption DEF OrdersTypeOK
  <2>3. orders' \in [Ids -> [status: Terminal \cup LiveStatus \cup {"unplaced"}, exec: 0..Qty,
                             asked: BOOLEAN]]
    BY <2>1, <2>2 DEF OrdersTypeOK, Terminal, LiveStatus
  <2>4. executed' \in 0..MostRoom
    <3>1. n \in Nat /\ n >= 1
      BY <2>1, <2>2, OrderAssumption
    <3> QED
      BY <2>1, <3>1, RoomBound DEF OrdersTypeOK
  <2> QED
    BY <1>3, <2>3, <2>4 DEF OrdersTypeOK, task
<1>4. ASSUME NEW id \in Ids, Refuse(id) \/ Lapse(id), UNCHANGED task
      PROVE  OrdersTypeOK'
  BY <1>4 DEF OrdersTypeOK, task, Refuse, Lapse, Terminal
<1> QED
  BY <1>1, <1>2, <1>3, <1>4 DEF BrokerActs

(* The broker brings no order to life, and forgets none. *)
LEMMA OrdersOnlyEnd ==
  ASSUME OrdersTypeOK,
         BrokerActs \/ (\E i \in Ids : AskCancel(i)) \/ UNCHANGED orders,
         NEW id \in Ids
  PROVE  /\ Live(id)' => Live(id)
         /\ orders[id].status # "unplaced" => orders'[id].status # "unplaced"
<1>1. ASSUME NEW i \in Ids, Fill(i)
      PROVE  \E n \in Nat, status \in {"filled", "partially_filled"} :
               /\ Live(i)
               /\ orders' = [orders EXCEPT ![i].exec = @ + n, ![i].status = status]
  <2>1. PICK n \in 1..(Qty - orders[i].exec) :
          orders' = [orders EXCEPT ![i].exec = @ + n,
                       ![i].status = IF orders[i].exec + n = Qty THEN "filled"
                                     ELSE "partially_filled"]
    BY <1>1 DEF Fill
  <2>2. n \in Nat /\ Live(i)
    BY <1>1, <2>1, OrderAssumption DEF Fill, OrdersTypeOK
  <2>3. CASE orders[i].exec + n = Qty
    BY <2>1, <2>2, <2>3
  <2>4. CASE orders[i].exec + n # Qty
    BY <2>1, <2>2, <2>4
  <2> QED
    BY <2>3, <2>4
<1>2. CASE \E i \in Ids : Fill(i)
  <2>1. PICK i \in Ids, n \in Nat, status \in {"filled", "partially_filled"} :
          /\ Live(i)
          /\ orders' = [orders EXCEPT ![i].exec = @ + n, ![i].status = status]
    BY <1>1, <1>2
  <2>2. CASE id = i
    <3>1. orders'[id].status = status
      BY <2>1, <2>2 DEF OrdersTypeOK
    <3> QED
      BY <2>1, <2>2, <3>1
  <2>3. CASE id # i
    <3>1. orders'[id] = orders[id]
      BY <2>1, <2>3 DEF OrdersTypeOK
    <3> QED
      BY <3>1 DEF Live
  <2> QED
    BY <2>2, <2>3
<1>3. CASE \E i \in Ids : Refuse(i) \/ Lapse(i)
  BY <1>3 DEF Refuse, Lapse, OrdersTypeOK, Live, LiveStatus
<1>4. CASE \E i \in Ids : AskCancel(i)
  BY <1>4 DEF AskCancel, OrdersTypeOK, Live, LiveStatus
<1> QED
  BY <1>2, <1>3, <1>4 DEF BrokerActs, Live

-----------------------------------------------------------------------------
(* No order executed more than all of them, and a filled one is full. *)
FillsCounted ==
  \A id \in Ids : /\ orders[id].exec <= executed
                  /\ orders[id].status = "filled" => orders[id].exec = Qty

LEMMA FillsAreCounted ==
  ASSUME OrdersTypeOK, FillsCounted,
         \/ BrokerActs /\ UNCHANGED task
         \/ (\E id \in Ids : Accept(id) \/ AskCancel(id)) /\ UNCHANGED <<task, executed>>
         \/ UNCHANGED <<task, orders, executed>>
  PROVE  FillsCounted' /\ executed' >= executed
<1>1. executed \in Nat /\ executed >= executed /\ Qty \in Nat /\ Qty # 0
  BY RoomBound, OrderAssumption DEF OrdersTypeOK
<1>2. CASE UNCHANGED <<task, orders, executed>>
  BY <1>1, <1>2 DEF FillsCounted
<1>3. ASSUME NEW id \in Ids, Accept(id) \/ AskCancel(id), UNCHANGED <<task, executed>>
      PROVE  FillsCounted' /\ executed' >= executed
  <2>1. CASE Accept(id)
    BY <1>1, <1>3, <2>1 DEF FillsCounted, Accept, OrdersTypeOK
  <2>2. CASE AskCancel(id)
    BY <1>1, <1>3, <2>2 DEF FillsCounted, AskCancel, OrdersTypeOK
  <2> QED
    BY <1>3, <2>1, <2>2
<1>4. ASSUME NEW id \in Ids, Fill(id)
      PROVE  FillsCounted' /\ executed' >= executed
  <2>1. PICK n \in 1..(Qty - orders[id].exec) :
          /\ executed' = executed + n
          /\ orders' = [orders EXCEPT ![id].exec = @ + n,
                          ![id].status = IF orders[id].exec + n = Qty THEN "filled"
                                         ELSE "partially_filled"]
    BY <1>4 DEF Fill
  <2>2. n \in Nat /\ n >= 1 /\ \A i \in Ids : orders[i].exec \in Nat
    BY <1>1, <2>1 DEF OrdersTypeOK
  <2>3. executed' >= executed
    BY <1>1, <2>1, <2>2
  <2>4. CASE orders[id].exec + n = Qty
    BY <1>1, <2>1, <2>2, <2>4 DEF FillsCounted, OrdersTypeOK
  <2>5. CASE orders[id].exec + n # Qty
    BY <1>1, <2>1, <2>2, <2>5 DEF FillsCounted, OrdersTypeOK
  <2> QED
    BY <2>3, <2>4, <2>5
<1>5. ASSUME NEW id \in Ids, Refuse(id) \/ Lapse(id)
      PROVE  FillsCounted' /\ executed' >= executed
  BY <1>1, <1>5 DEF FillsCounted, Refuse, Lapse, OrdersTypeOK
<1> QED
  BY <1>2, <1>3, <1>4, <1>5 DEF BrokerActs

-----------------------------------------------------------------------------
(* Where the ladder stands follows from the number of orders placed: each is
   one price step further, and no price within the bound is left out. *)
PriceOf(n) == IF closing THEN LowPrice + n ELSE HighPrice - n
RungPlaced ==
  /\ pc = "place" => price = PriceOf(rung) /\ ~Crosses(price)
  /\ pc \notin Over \cup {"place"} => rung >= 1 /\ price = PriceOf(rung - 1) /\ ~Crosses(price)
  /\ pc \notin Over \cup {"place"} => orders[rung].status # "unplaced"

TypeInv == TypeOK /\ RungPlaced

LEMMA TypeInvInit == Init => TypeInv
<1> SUFFICES ASSUME Init PROVE TypeInv
  OBVIOUS
<1>1. OrdersTypeOK
  BY OrdersInitType DEF Init
<1>2. price \in Int /\ rung \in 0..MaxOrders
  BY OrderAssumption, PriceAssumption DEF Init
<1>3. TypeOK
  BY <1>1, <1>2, NoReportType DEF Init, TypeOK, Phases
<1>4. RungPlaced
  BY <1>1, PriceAssumption DEF Init, OrdersTypeOK, RungPlaced, PriceOf, Crosses, Over
<1> QED
  BY <1>3, <1>4 DEF TypeInv

(* The price after n orders is one the bound allows only while orders are left. *)
LEMMA RungsLeft ==
  ASSUME NEW n \in Nat, closing \in BOOLEAN, ~Crosses(PriceOf(n))
  PROVE  n < MaxOrders
<1>1. CASE closing
  BY <1>1, PriceAssumption DEF Crosses, PriceOf
<1>2. CASE ~closing
  BY <1>2, PriceAssumption DEF Crosses, PriceOf
<1> QED
  BY <1>1, <1>2

LEMMA TypeInvNext == TypeInv /\ [Next]_vars => TypeInv'
<1> SUFFICES ASSUME TypeOK, RungPlaced, [Next]_vars
             PROVE  TypeInv'
  BY DEF TypeInv
<1> USE DEF Over
<1>1. closing \in BOOLEAN /\ OrdersTypeOK /\ rung \in Nat /\ price \in Int
  BY OrderAssumption DEF TypeOK, OrdersTypeOK
<1>2. pc \notin Over \cup {"place"} => rung \in Ids
  BY <1>1 DEF TypeOK, RungPlaced, Ids
<1>3. ASSUME UNCHANGED <<task, pc, price, rung>>, BrokerActs \/ UNCHANGED orders
      PROVE  RungPlaced'
  BY <1>1, <1>3, <1>2, OrdersOnlyEnd DEF RungPlaced, PriceOf, Crosses, task
<1>4. pc = "place" => rung + 1 \in Ids
  <2> SUFFICES ASSUME pc = "place" PROVE rung + 1 \in Ids
    OBVIOUS
  <2>1. rung < MaxOrders
    BY <1>1, RungsLeft DEF RungPlaced
  <2> QED
    BY <2>1, <1>1, OrderAssumption DEF Ids
<1>5. ASSUME NEW reading \in Readings, NEW status \in Terminal \cup LiveStatus,
             pc \notin Over \cup {"place"}
      PROVE  Report(orders[rung], status, reading) \in Reports
  BY <1>1, <1>2, <1>5, ReportType
<1>6. ASSUME FoundFilled, pc \notin Over \cup {"place"} PROVE lateFill' \in Reports
  BY <1>5, <1>6 DEF FoundFilled, TypeOK, Terminal
<1>7. CASE BrokerStep
  <2>1. OrdersTypeOK'
    BY <1>1, <1>7, OrdersAct DEF BrokerStep
  <2>2. UNCHANGED <<task, pc, price, rung, result, lateFill, confirmed, answer>>
    BY <1>7 DEF BrokerStep, ladderVars
  <2>3. RungPlaced'
    BY <1>3, <1>7, <2>2 DEF BrokerStep
  <2> QED
    BY <2>1, <2>2, <2>3 DEF TypeOK, TypeInv
<1>8. CASE Raises
  <2>1. OrdersTypeOK'
    <3>1. CASE UNCHANGED orders
      BY <1>1, <1>8, <3>1, OrdersAct DEF Raises
    <3>2. CASE pc = "place" /\ Accept(rung + 1)
      BY <1>1, <1>4, <1>8, <3>2, OrdersAct DEF Raises
    <3>3. CASE pc \in {"cancel", "cancel partial"} /\ AskCancel(rung)
      BY <1>1, <1>2, <1>8, <3>3, OrdersAct DEF Raises
    <3> QED
      BY <1>8, <3>1, <3>2, <3>3 DEF Raises
  <2>2. UNCHANGED ladderVars /\ pc' = "raised"
    BY <1>8 DEF Raises
  <2> QED
    BY <2>1, <2>2 DEF TypeOK, TypeInv, RungPlaced, Phases, ladderVars
<1>9. ASSUME NEW what \in Reports, Answer(what) PROVE TypeInv'
  <2>1. OrdersTypeOK'
    BY <1>1, <1>9, OrdersAct DEF Answer
  <2> QED
    BY <1>9, <2>1 DEF Answer, TypeOK, TypeInv, RungPlaced, Phases
<1>10. ASSUME UNCHANGED <<task, orders, executed>> PROVE OrdersTypeOK'
  BY <1>1, <1>10, OrdersAct
<1>11. CASE AbortAtStart
  BY <1>9, <1>11, NoReportType DEF AbortAtStart
<1>12. CASE Place
  <2>1. OrdersTypeOK'
    BY <1>1, <1>4, <1>12, OrdersAct DEF Place
  <2>2. rung' = rung + 1 /\ rung' \in 0..MaxOrders
    BY <1>1, <1>4, <1>12 DEF Place, Ids
  <2>3. rung' - 1 = rung
    BY <1>1, <2>2
  <2>4. orders'[rung'].status # "unplaced"
    BY <1>1, <1>4, <1>12, <2>2 DEF Place, Accept, OrdersTypeOK
  <2>5. RungPlaced'
    BY <1>1, <1>12, <2>2, <2>3, <2>4 DEF Place, RungPlaced, PriceOf, Crosses, task
  <2> QED
    BY <1>12, <2>1, <2>2, <2>5 DEF Place, TypeOK, TypeInv, Phases
<1>13. CASE DwellEnds
  <2>1. orders[rung].status \in Terminal \cup LiveStatus
    BY <1>1, <1>2, <1>13 DEF DwellEnds, OrdersTypeOK, RungPlaced
  <2>2. result' \in Reports
    BY <1>5, <1>13, <2>1 DEF DwellEnds
  <2> QED
    BY <1>10, <1>13, <2>2 DEF DwellEnds, TypeOK, TypeInv, RungPlaced, PriceOf, Crosses, Phases, task
<1>14. CASE RungAnswers
  BY <1>9, <1>14 DEF RungAnswers, TypeOK
<1>15. CASE RungWorks
  <2>1. pc = "sort" /\ pc' \in {"cancel", "cancel partial"} /\ UNCHANGED <<task, orders, executed, ladderVars>>
    BY <1>15 DEF RungWorks
  <2> QED
    BY <1>10, <2>1 DEF TypeOK, TypeInv, RungPlaced, PriceOf, Crosses, Phases, ladderVars, task
<1>16. CASE Cancel
  <2>1. OrdersTypeOK'
    BY <1>1, <1>2, <1>16, OrdersAct DEF Cancel
  <2>2. orders'[rung].status # "unplaced"
    BY <1>1, <1>2, <1>16, OrdersOnlyEnd DEF Cancel, RungPlaced
  <2> QED
    BY <1>16, <2>1, <2>2 DEF Cancel, TypeOK, TypeInv, RungPlaced, PriceOf, Crosses, Phases, ladderVars, task
<1>17. CASE Confirm
  <2>1. lateFill' \in Reports /\ confirmed' \in BOOLEAN
    BY <1>6, <1>17 DEF Confirm
  <2> QED
    BY <1>10, <1>17, <2>1 DEF Confirm, TypeOK, TypeInv, RungPlaced, PriceOf, Crosses, Phases, task
<1>18. CASE ConfirmPartial
  <2>1. lateFill' \in Reports
    BY <1>6, <1>18 DEF ConfirmPartial
  <2> QED
    BY <1>10, <1>18, <2>1 DEF ConfirmPartial, TypeOK, TypeInv, RungPlaced, PriceOf, Crosses, Phases, task
<1>19. ASSUME NEW status, status = result.status \/ status = "canceled", AnswerOrLateFill(status)
       PROVE  TypeInv'
  <2>1. [result EXCEPT !.status = status] \in Reports
    BY <1>19 DEF TypeOK, Reports, Terminal
  <2> QED
    BY <1>9, <1>19, <2>1 DEF AnswerOrLateFill, TypeOK
<1>20. CASE AnswerPartial
  BY <1>19, <1>20 DEF AnswerPartial
<1>21. CASE GiveUp
  BY <1>19, <1>21 DEF GiveUp
<1>22. CASE Reprice
  <2>1. price' = PriceOf(rung)
    <3>1. CASE closing
      BY <1>1, <1>22, <3>1, PriceAssumption DEF Reprice, RungPlaced, PriceOf, Toward
    <3>2. CASE ~closing
      BY <1>1, <1>22, <3>2, PriceAssumption DEF Reprice, RungPlaced, PriceOf, Toward
    <3> QED
      BY <3>1, <3>2
  <2>2. PriceOf(rung) \in Int /\ UNCHANGED <<task, orders, executed, rung, result, lateFill, confirmed, answer>>
    BY <1>1, <1>22, PriceAssumption DEF Reprice, PriceOf
  <2>3. ~Crosses(price')
    BY <1>22 DEF Reprice
  <2> QED
    BY <1>10, <1>22, <2>1, <2>2, <2>3 DEF Reprice, TypeOK, TypeInv, RungPlaced, PriceOf, Crosses, Phases, task
<1>23. CASE UNCHANGED vars
  BY <1>3, <1>10, <1>23 DEF vars, ladderVars, TypeOK, TypeInv
<1> QED
  BY <1>7, <1>8, <1>11, <1>12, <1>13, <1>14, <1>15, <1>16, <1>17, <1>18, <1>20, <1>21, <1>22, <1>23
     DEF Next, LadderStep

(* Orders, results and phases keep their shapes, and orders are placed one by
   one: the ladders' bookkeeping in bot/broker/submit.py. *)
THEOREM LadderTypeCorrect == Spec => []TypeOK
<1>1. TypeInv => TypeOK
  BY DEF TypeInv
<1> QED
  BY <1>1, TypeInvInit, TypeInvNext, PTL DEF Spec

(* Neither ladder places an order past its floor or cap (max_debit, min_credit
   in bot/broker/submit.py), whatever its prices and its number of rungs. *)
THEOREM LadderPriceWithinBound == Spec => []PriceWithinBound
<1>1. TypeInv => PriceWithinBound
  BY DEF TypeInv, RungPlaced, PriceWithinBound
<1> QED
  BY <1>1, TypeInvInit, TypeInvNext, PTL DEF Spec

-----------------------------------------------------------------------------
(* Only the current rung can be live, and nothing is when the next is placed. *)
LiveInv ==
  /\ \A i, j \in Ids : Live(i) /\ Live(j) => i = j
  /\ pc \notin Over => \A id \in Ids : Live(id) => id = rung
  /\ pc = "place" => \A id \in Ids : ~Live(id)
  /\ pc = "decide" /\ confirmed => ~Live(rung)

LEMMA LiveInvInit == Init => LiveInv
  BY DEF Init, OrdersInit, LiveInv, Live, LiveStatus, Unplaced

LEMMA LiveInvNext == TypeInv /\ LiveInv /\ [Next]_vars => LiveInv'
<1> SUFFICES ASSUME TypeOK, RungPlaced, LiveInv, [Next]_vars
             PROVE  LiveInv'
  BY DEF TypeInv
<1> USE DEF Over
<1>1. OrdersTypeOK /\ rung \in Nat
  BY OrderAssumption DEF TypeOK
<1>2. pc \notin Over \cup {"place"} => rung \in Ids
  BY <1>1 DEF TypeOK, RungPlaced, Ids
<1>3. pc = "place" => rung + 1 \in Ids
  <2> SUFFICES ASSUME pc = "place" PROVE rung + 1 \in Ids
    OBVIOUS
  <2>1. rung < MaxOrders
    BY <1>1, RungsLeft DEF RungPlaced, OrdersTypeOK
  <2> QED
    BY <2>1, <1>1, OrderAssumption DEF Ids
<1>4. ASSUME \A id \in Ids : Live(id)' => Live(id),
             UNCHANGED rung, pc' \notin Over => pc \notin Over,
             pc' = "place" => \A id \in Ids : ~Live(id),
             pc' = "decide" /\ confirmed' => rung \in Ids /\ ~Live(rung)
      PROVE  LiveInv'
  BY <1>4 DEF LiveInv
<1>5. ASSUME UNCHANGED orders PROVE \A id \in Ids : Live(id)' => Live(id)
  BY <1>5 DEF Live
<1>6. ASSUME pc = "place", Accept(rung + 1)
      PROVE  \A id \in Ids : Live(id)' => id = rung + 1
  BY <1>1, <1>3, <1>6 DEF Accept, Live, LiveInv, OrdersTypeOK
<1>7. CASE BrokerStep
  <2>1. \A id \in Ids : Live(id)' => Live(id)
    BY <1>1, <1>7, OrdersOnlyEnd DEF BrokerStep
  <2> QED
    BY <1>2, <1>4, <1>7, <2>1 DEF BrokerStep, ladderVars, LiveInv
<1>8. CASE Raises
  <2>1. CASE UNCHANGED orders
    BY <1>4, <1>5, <1>8, <2>1 DEF Raises, ladderVars
  <2>2. CASE pc = "place" /\ Accept(rung + 1)
    BY <1>6, <1>8, <2>2 DEF Raises, LiveInv
  <2>3. CASE pc \in {"cancel", "cancel partial"} /\ AskCancel(rung)
    <3>1. \A id \in Ids : Live(id)' => Live(id)
      BY <1>1, <1>2, <2>3, OrdersOnlyEnd
    <3> QED
      BY <1>4, <1>8, <3>1 DEF Raises, ladderVars
  <2> QED
    BY <1>8, <2>1, <2>2, <2>3 DEF Raises
<1>9. ASSUME NEW what, Answer(what) PROVE LiveInv'
  BY <1>4, <1>5, <1>9 DEF Answer
<1>10. CASE Place
  BY <1>6, <1>10 DEF Place, LiveInv
<1>11. CASE DwellEnds
  BY <1>4, <1>5, <1>11 DEF DwellEnds
<1>12. CASE RungWorks
  <2>1. pc' \in {"cancel", "cancel partial"} /\ pc = "sort" /\ UNCHANGED <<rung, orders>>
    BY <1>12 DEF RungWorks, ladderVars
  <2> QED
    BY <1>4, <1>5, <2>1
<1>13. CASE Cancel
  <2>1. \A id \in Ids : Live(id)' => Live(id)
    BY <1>1, <1>2, <1>13, OrdersOnlyEnd DEF Cancel
  <2>2. pc' \in {"confirm", "confirm partial"} /\ pc \notin Over /\ UNCHANGED rung
    BY <1>13 DEF Cancel, ladderVars
  <2> QED
    BY <1>4, <2>1, <2>2
<1>14. CASE Confirm
  <2>1. confirmed' => ~Live(rung)
    BY <1>14 DEF Confirm, Live, LiveStatus
  <2> QED
    BY <1>2, <1>4, <1>5, <1>14, <2>1 DEF Confirm
<1>15. CASE ConfirmPartial
  BY <1>4, <1>5, <1>15 DEF ConfirmPartial
<1>16. CASE Reprice
  <2>1. \A id \in Ids : ~Live(id)
    BY <1>16 DEF Reprice, LiveInv
  <2> QED
    BY <1>4, <1>5, <1>16, <2>1 DEF Reprice
<1>17. CASE UNCHANGED vars
  BY <1>2, <1>4, <1>5, <1>17 DEF vars, ladderVars, LiveInv
<1> QED
  BY <1>7, <1>8, <1>9, <1>10, <1>11, <1>12, <1>13, <1>14, <1>15, <1>16, <1>17
     DEF Next, LadderStep, AbortAtStart, RungAnswers, AnswerPartial, GiveUp, AnswerOrLateFill

(* submit_entry_ladder's promise that it "NEVER holds two live opening orders",
   for the closes too: an order is placed only behind a confirmed cancel, so
   lost cancels, late fills and errors at any point leave at most one. *)
THEOREM LadderOneLive == Spec => []AtMostOneLive
<1>1. LiveInv => AtMostOneLive
  <2> SUFFICES ASSUME LiveInv PROVE Cardinality(LiveOrders) <= 1
    BY DEF AtMostOneLive
  <2>1. CASE LiveOrders = {}
    BY <2>1, FS_EmptySet
  <2>2. CASE LiveOrders # {}
    <3>1. PICK id : id \in LiveOrders
      BY <2>2
    <3>2. LiveOrders = {id}
      BY <3>1 DEF LiveOrders, LiveInv
    <3>3. Cardinality({id}) = 1
      BY FS_Singleton
    <3> QED
      BY <3>2, <3>3
  <2> QED
    BY <2>1, <2>2
<1> QED
  BY <1>1, TypeInvInit, TypeInvNext, LiveInvInit, LiveInvNext, PTL DEF Spec

-----------------------------------------------------------------------------
(* What has been read of an order never runs ahead of what executed. *)
Covered(report) ==
  /\ report.reported <= executed
  /\ report.status = "filled" => executed >= Qty

CoverInv == FillsCounted /\ Covered(result) /\ Covered(lateFill) /\ Covered(answer)

LEMMA ReportCovered ==
  ASSUME OrdersTypeOK, FillsCounted, NEW id \in Ids, NEW reading \in Readings
  PROVE  Covered(Report(orders[id], orders[id].status, reading))
<1>1. executed \in Nat /\ Qty \in Nat /\ orders[id].exec \in Nat
  BY RoomBound, OrderAssumption DEF OrdersTypeOK
<1> QED
  BY <1>1 DEF Covered, Report, FillsCounted

LEMMA NoReportCovered == ASSUME executed \in Nat PROVE Covered(NoReport)
  BY DEF Covered, NoReport

LEMMA CoverInvInit == Init => CoverInv
<1> SUFFICES ASSUME Init PROVE CoverInv
  OBVIOUS
<1>1. executed = 0 /\ FillsCounted
  BY OrderAssumption DEF Init, OrdersInit, FillsCounted, Unplaced
<1> QED
  BY <1>1, NoReportCovered DEF Init, CoverInv

LEMMA CoverInvNext == TypeInv /\ CoverInv /\ [Next]_vars => CoverInv'
<1> SUFFICES ASSUME TypeOK, RungPlaced, CoverInv, [Next]_vars
             PROVE  CoverInv'
  BY DEF TypeInv
<1> USE DEF Over
<1>1. OrdersTypeOK /\ rung \in Nat /\ executed \in Nat
  BY OrderAssumption, RoomBound DEF TypeOK, OrdersTypeOK
<1>2. pc \notin Over \cup {"place"} => rung \in Ids
  BY <1>1 DEF TypeOK, RungPlaced, Ids
<1>3. pc = "place" => rung + 1 \in Ids
  <2> SUFFICES ASSUME pc = "place" PROVE rung + 1 \in Ids
    OBVIOUS
  <2>1. rung < MaxOrders
    BY <1>1, RungsLeft DEF RungPlaced, OrdersTypeOK
  <2> QED
    BY <2>1, <1>1, OrderAssumption DEF Ids
(* what holds of the reports goes on holding while the orders act *)
<1>4. ASSUME FillsCounted', executed' >= executed, executed' \in Nat,
             UNCHANGED <<result, lateFill, answer>>
      PROVE  CoverInv'
  <2>1. Qty \in Nat /\ result.reported \in Nat /\ lateFill.reported \in Nat /\ answer.reported \in Nat
    BY OrderAssumption DEF TypeOK, Reports
  <2> QED
    BY <1>1, <1>4, <2>1 DEF CoverInv, Covered
<1>5. ASSUME UNCHANGED <<task, orders, executed>> PROVE FillsCounted'
  BY <1>1, <1>5, FillsAreCounted DEF CoverInv
<1>6. ASSUME pc \notin Over \cup {"place"}, NEW reading \in Readings
      PROVE  Covered(Report(orders[rung], orders[rung].status, reading))
  BY <1>1, <1>2, <1>6, ReportCovered DEF CoverInv
<1>7. CASE BrokerStep \/ Raises
  <2>1. TypeOK'
    BY TypeInvNext DEF TypeInv
  <2>2. executed' \in Nat
    BY <2>1, RoomBound DEF TypeOK, OrdersTypeOK
  <2>3. UNCHANGED <<result, lateFill, answer>>
    BY <1>7 DEF BrokerStep, Raises, ladderVars
  <2>4. \/ BrokerActs /\ UNCHANGED task
        \/ (\E id \in Ids : Accept(id) \/ AskCancel(id)) /\ UNCHANGED <<task, executed>>
        \/ UNCHANGED <<task, orders, executed>>
    BY <1>2, <1>3, <1>7 DEF BrokerStep, Raises
  <2>5. FillsCounted' /\ executed' >= executed
    BY <1>1, <2>4, FillsAreCounted DEF CoverInv
  <2> QED
    BY <1>4, <2>2, <2>3, <2>5
<1>8. CASE Place \/ Cancel
  <2>1. UNCHANGED <<result, lateFill, answer, executed>>
    BY <1>8 DEF Place, Cancel, ladderVars
  <2>2. \/ (\E id \in Ids : Accept(id) \/ AskCancel(id)) /\ UNCHANGED <<task, executed>>
        \/ UNCHANGED <<task, orders, executed>>
    BY <1>2, <1>3, <1>8 DEF Place, Cancel
  <2>3. FillsCounted' /\ executed' >= executed
    BY <1>1, <2>2, FillsAreCounted DEF CoverInv
  <2> QED
    BY <1>1, <1>4, <2>1, <2>3
<1>9. ASSUME NEW what, Covered(what), Answer(what) PROVE CoverInv'
  BY <1>5, <1>9 DEF Answer, CoverInv, Covered
<1>10. CASE AbortAtStart
  BY <1>1, <1>9, <1>10, NoReportCovered DEF AbortAtStart
<1>11. CASE DwellEnds
  <2>1. Covered(result)'
    <3>1. Covered(result')
      BY <1>6, <1>11 DEF DwellEnds
    <3> QED
      BY <1>11, <3>1 DEF DwellEnds, Covered
  <2> QED
    BY <1>5, <1>11, <2>1 DEF DwellEnds, CoverInv, Covered
<1>12. CASE RungAnswers
  BY <1>9, <1>12 DEF RungAnswers, CoverInv
<1>13. CASE RungWorks
  BY <1>5, <1>13 DEF RungWorks, ladderVars, CoverInv, Covered
<1>14. ASSUME pc \notin Over \cup {"place"}, FoundFilled PROVE Covered(lateFill')
  <2>1. CASE orders[rung].status = "filled"
    BY <1>6, <1>14, <2>1 DEF FoundFilled
  <2>2. CASE orders[rung].status # "filled"
    BY <1>14, <2>2 DEF FoundFilled, CoverInv
  <2> QED
    BY <2>1, <2>2
<1>15. CASE Confirm \/ ConfirmPartial
  <2>1. Covered(lateFill') /\ UNCHANGED <<task, orders, executed, result, answer>>
    BY <1>14, <1>15 DEF Confirm, ConfirmPartial
  <2> QED
    BY <1>5, <2>1 DEF CoverInv, Covered
<1>16. ASSUME NEW status, status = result.status \/ status = "canceled", AnswerOrLateFill(status)
       PROVE  CoverInv'
  <2>1. Covered([result EXCEPT !.status = status])
    BY <1>16 DEF CoverInv, Covered, TypeOK, Reports
  <2> QED
    BY <1>9, <1>16, <2>1 DEF AnswerOrLateFill, CoverInv
<1>17. CASE AnswerPartial \/ GiveUp
  BY <1>16, <1>17 DEF AnswerPartial, GiveUp
<1>18. CASE Reprice
  BY <1>5, <1>18 DEF Reprice, CoverInv, Covered
<1>19. CASE UNCHANGED vars
  BY <1>5, <1>19 DEF vars, ladderVars, CoverInv, Covered
<1> QED
  BY <1>7, <1>8, <1>10, <1>11, <1>12, <1>13, <1>15, <1>17, <1>18, <1>19 DEF Next, LadderStep

(* A ladder's answer, in the order of its reads, cancels and late fills, never
   claims contracts that did not execute (build_execution_result). *)
THEOREM LadderAnswerIsCovered == Spec => []AnswerIsCovered
<1>1. CoverInv => AnswerIsCovered
  BY DEF CoverInv, Covered, AnswerIsCovered
<1> QED
  BY <1>1, TypeInvInit, TypeInvNext, CoverInvInit, CoverInvNext, PTL DEF Spec

=============================================================================
