------------------------------ MODULE SubmitProofs ------------------------------
(***************************************************************************)
(* submit_and_verify, for orders of any size and every way of reading      *)
(* them: its answer is true and stays so, and no call ends in a way the    *)
(* tick loop has not reckoned with.                                        *)
(***************************************************************************)
EXTENDS OrderSubmit, TLAPS

-----------------------------------------------------------------------------
(* What the broker does to the orders of one submission, and what it leaves alone. *)
LEMMA RoomBound == MostRoom \in Nat /\ Qty <= MostRoom
<1> DEFINE q == Qty  m == MaxOrders
<1>1. q \in Nat \ {0} /\ m \in Nat \ {0}
  BY OrderAssumption
<1> HIDE DEF q, m
<1>2. q * m \in Nat /\ q <= q * m
  BY <1>1
<1> QED
  BY <1>2 DEF q, m, MostRoom

LEMMA NoReportType == NoReport \in Reports
  BY OrderAssumption DEF NoReport, Reports

(* The account, the empty order book and the count start in their shapes. *)
LEMMA OrdersInitType == OrdersInit => OrdersTypeOK
<1> SUFFICES ASSUME OrdersInit PROVE OrdersTypeOK
  OBVIOUS
<1>1. closing \in BOOLEAN /\ room \in 0..MostRoom
  <2>1. CASE closing = TRUE /\ room \in 0..Qty
    BY <2>1, RoomBound, OrderAssumption
  <2>2. CASE closing = FALSE /\ room = MostRoom
    <3>1. closing \in BOOLEAN
      BY ONLY <2>2
    <3>2. room \in 0..MostRoom
      BY <2>2, RoomBound
    <3> QED
      BY <3>1, <3>2
  <2> QED
    BY <2>1, <2>2 DEF OrdersInit
<1>2. orders \in [Ids -> [status: Terminal \cup LiveStatus \cup {"unplaced"}, exec: 0..Qty,
                          asked: BOOLEAN]]
  BY OrderAssumption DEF OrdersInit, Unplaced
<1> QED
  BY <1>1, <1>2, RoomBound DEF OrdersInit, OrdersTypeOK

(* Order records of the right shape stay so in what the broker is asked and does. *)
LEMMA OrdersAct ==
  ASSUME OrdersTypeOK,
         \/ BrokerActs /\ UNCHANGED task
         \/ (\E id \in Ids : Accept(id) \/ AskCancel(id)) /\ UNCHANGED <<task, executed>>
         \/ UNCHANGED <<task, orders, executed>>
  PROVE  OrdersTypeOK'
<1>1. CASE UNCHANGED <<task, orders, executed>>
  BY <1>1 DEF OrdersTypeOK, task
<1>2. ASSUME NEW id \in Ids, Accept(id) \/ AskCancel(id), UNCHANGED <<task, executed>>
      PROVE  OrdersTypeOK'
  <2>1. orders' \in [Ids -> [status: Terminal \cup LiveStatus \cup {"unplaced"}, exec: 0..Qty,
                             asked: BOOLEAN]]
    <3>1. CASE Accept(id)
      BY <3>1, OrderAssumption DEF OrdersTypeOK, Accept, LiveStatus
    <3>2. CASE AskCancel(id)
      BY <3>2 DEF OrdersTypeOK, AskCancel
    <3> QED
      BY <1>2, <3>1, <3>2
  <2> QED
    BY <1>2, <2>1 DEF OrdersTypeOK, task
<1>3. ASSUME NEW id \in Ids, Fill(id), UNCHANGED task
      PROVE  OrdersTypeOK'
  <2>1. PICK n \in 1..(Qty - orders[id].exec) :
          /\ executed + n <= room
          /\ executed' = executed + n
          /\ orders' = [orders EXCEPT ![id].exec = @ + n,
                          ![id].status = IF orders[id].exec + n = Qty THEN "filled"
                                         ELSE "partially_filled"]
    BY <1>3 DEF Fill
  <2>2. orders[id].exec \in 0..Qty /\ orders[id].exec + n \in 0..Qty
    BY <2>1, OrderAssumption DEF OrdersTypeOK
  <2>3. orders' \in [Ids -> [status: Terminal \cup LiveStatus \cup {"unplaced"}, exec: 0..Qty,
                             asked: BOOLEAN]]
    BY <2>1, <2>2 DEF OrdersTypeOK, Terminal, LiveStatus
  <2>4. executed' \in 0..MostRoom
    <3>1. n \in Nat /\ n >= 1
      BY <2>1, <2>2, OrderAssumption
    <3> QED
      BY <2>1, <3>1, RoomBound DEF OrdersTypeOK
  <2> QED
    BY <1>3, <2>3, <2>4 DEF OrdersTypeOK, task
<1>4. ASSUME NEW id \in Ids, Refuse(id) \/ Lapse(id), UNCHANGED task
      PROVE  OrdersTypeOK'
  BY <1>4 DEF OrdersTypeOK, task, Refuse, Lapse, Terminal
<1> QED
  BY <1>1, <1>2, <1>3, <1>4 DEF BrokerActs

(* The broker brings no order to life, and forgets none. *)
LEMMA OrdersOnlyEnd ==
  ASSUME OrdersTypeOK,
         BrokerActs \/ (\E i \in Ids : AskCancel(i)) \/ UNCHANGED orders,
         NEW id \in Ids
  PROVE  /\ Live(id)' => Live(id)
         /\ orders[id].status # "unplaced" => orders'[id].status # "unplaced"
<1>1. ASSUME NEW i \in Ids, Fill(i)
      PROVE  \E n \in Nat, status \in {"filled", "partially_filled"} :
               /\ Live(i)
               /\ orders' = [orders EXCEPT ![i].exec = @ + n, ![i].status = status]
  <2>1. PICK n \in 1..(Qty - orders[i].exec) :
          orders' = [orders EXCEPT ![i].exec = @ + n,
                       ![i].status = IF orders[i].exec + n = Qty THEN "filled"
                                     ELSE "partially_filled"]
    BY <1>1 DEF Fill
  <2>2. n \in Nat /\ Live(i)
    BY <1>1, <2>1, OrderAssumption DEF Fill, OrdersTypeOK
  <2>3. CASE orders[i].exec + n = Qty
    BY <2>1, <2>2, <2>3
  <2>4. CASE orders[i].exec + n # Qty
    BY <2>1, <2>2, <2>4
  <2> QED
    BY <2>3, <2>4
<1>2. CASE \E i \in Ids : Fill(i)
  <2>1. PICK i \in Ids, n \in Nat, status \in {"filled", "partially_filled"} :
          /\ Live(i)
          /\ orders' = [orders EXCEPT ![i].exec = @ + n, ![i].status = status]
    BY <1>1, <1>2
  <2>2. CASE id = i
    <3>1. orders'[id].status = status
      BY <2>1, <2>2 DEF OrdersTypeOK
    <3> QED
      BY <2>1, <2>2, <3>1
  <2>3. CASE id # i
    <3>1. orders'[id] = orders[id]
      BY <2>1, <2>3 DEF OrdersTypeOK
    <3> QED
      BY <3>1 DEF Live
  <2> QED
    BY <2>2, <2>3
<1>3. CASE \E i \in Ids : Refuse(i) \/ Lapse(i)
  BY <1>3 DEF Refuse, Lapse, OrdersTypeOK, Live, LiveStatus
<1>4. CASE \E i \in Ids : AskCancel(i)
  BY <1>4 DEF AskCancel, OrdersTypeOK, Live, LiveStatus
<1> QED
  BY <1>2, <1>3, <1>4 DEF BrokerActs, Live

-----------------------------------------------------------------------------
(* No order executed more than all of them, and a filled one is full. *)
FillsCounted ==
  \A id \in Ids : /\ orders[id].exec <= executed
                  /\ orders[id].status = "filled" => orders[id].exec = Qty

LEMMA FillsAreCounted ==
  ASSUME OrdersTypeOK, FillsCounted,
         \/ BrokerActs /\ UNCHANGED task
         \/ (\E id \in Ids : Accept(id) \/ AskCancel(id)) /\ UNCHANGED <<task, executed>>
         \/ UNCHANGED <<task, orders, executed>>
  PROVE  FillsCounted' /\ executed' >= executed
<1>1. executed \in Nat /\ executed >= executed /\ Qty \in Nat /\ Qty # 0
  BY RoomBound, OrderAssumption DEF OrdersTypeOK
<1>2. CASE UNCHANGED <<task, orders, executed>>
  BY <1>1, <1>2 DEF FillsCounted
<1>3. ASSUME NEW id \in Ids, Accept(id) \/ AskCancel(id), UNCHANGED <<task, executed>>
      PROVE  FillsCounted' /\ executed' >= executed
  <2>1. CASE Accept(id)
    BY <1>1, <1>3, <2>1 DEF FillsCounted, Accept, OrdersTypeOK
  <2>2. CASE AskCancel(id)
    BY <1>1, <1>3, <2>2 DEF FillsCounted, AskCancel, OrdersTypeOK
  <2> QED
    BY <1>3, <2>1, <2>2
<1>4. ASSUME NEW id \in Ids, Fill(id)
      PROVE  FillsCounted' /\ executed' >= executed
  <2>1. PICK n \in 1..(Qty - orders[id].exec) :
          /\ executed' = executed + n
          /\ orders' = [orders EXCEPT ![id].exec = @ + n,
                          ![id].status = IF orders[id].exec + n = Qty THEN "filled"
                                         ELSE "partially_filled"]
    BY <1>4 DEF Fill
  <2>2. n \in Nat /\ n >= 1 /\ \A i \in Ids : orders[i].exec \in Nat
    BY <1>1, <2>1 DEF OrdersTypeOK
  <2>3. executed' >= executed
    BY <1>1, <2>1, <2>2
  <2>4. CASE orders[id].exec + n = Qty
    BY <1>1, <2>1, <2>2, <2>4 DEF FillsCounted, OrdersTypeOK
  <2>5. CASE orders[id].exec + n # Qty
    BY <1>1, <2>1, <2>2, <2>5 DEF FillsCounted, OrdersTypeOK
  <2> QED
    BY <2>3, <2>4, <2>5
<1>5. ASSUME NEW id \in Ids, Refuse(id) \/ Lapse(id)
      PROVE  FillsCounted' /\ executed' >= executed
  BY <1>1, <1>5 DEF FillsCounted, Refuse, Lapse, OrdersTypeOK
<1> QED
  BY <1>2, <1>3, <1>4, <1>5 DEF BrokerActs

-----------------------------------------------------------------------------
(* Whatever executed and is still live is reckoned with, as long as the bot is
   told no more than executed. *)
LEMMA LateCloseForeseen ==
  ASSUME NEW q \in Nat, NEW h \in Nat, NEW fill \in 0..q, NEW told \in 0..q, NEW works \in 0..q,
         fill <= h, told <= fill
  PROVE  CloseOutcome("late", fill, told, "canceled", works) \in CloseOutcomesOf(q, h)
<1> DEFINE pair == <<fill, told>>
<1>1. pair \in {p \in {f \in 0..q : f <= h} \X (0..q) : p[2] <= p[1]}
  OBVIOUS
<1>2. pair[1] = fill /\ pair[2] = told
  OBVIOUS
<1> HIDE DEF pair
<1>3. CloseOutcome("late", pair[1], pair[2], "canceled", works) \in CloseOutcomesOf(q, h)
  BY <1>1 DEF CloseOutcomesOf
<1> QED
  BY <1>2, <1>3

LEMMA LateEntryForeseen ==
  ASSUME NEW q \in Nat, NEW matched \in 0..q, NEW told \in 0..q, NEW works \in 0..q,
         told <= matched
  PROVE  OpenOutcome("late", told, matched, 0, works, TRUE) \in OpenOutcomesOf(q)
<1> DEFINE Late(p, w) == OpenOutcome("late", p[1], p[2], 0, w, TRUE)
           pair == <<told, matched>>
<1>1. LateEntries(q) = {Late(p, w) : p \in {r \in (0..q) \X (0..q) : r[1] <= r[2]}, w \in 0..q}
  BY DEF LateEntries
<1>2. pair \in {r \in (0..q) \X (0..q) : r[1] <= r[2]} /\ pair[1] = told /\ pair[2] = matched
  OBVIOUS
<1> HIDE DEF Late, pair
<1>3. Late(pair, works) \in LateEntries(q)
  BY <1>1, <1>2
<1>4. Late(pair, works) \in OpenOutcomesOf(q)
  BY <1>3 DEF OpenOutcomesOf
<1> QED
  BY <1>2, <1>4, Zenon DEF Late

LEMMA UnreadableEntryForeseen ==
  ASSUME NEW q \in Nat, NEW matched \in 0..q, NEW works \in 0..q
  PROVE  OpenOutcome("unreadable", 0, matched, 0, works, FALSE) \in OpenOutcomesOf(q)
<1> DEFINE Blind(f, w) == OpenOutcome("unreadable", 0, f, 0, w, FALSE)
<1>1. UnreadableEntries(q) = {Blind(f, w) : f \in 0..(2 * q), w \in 0..q}
  BY DEF UnreadableEntries
<1> HIDE DEF Blind
<1>2. Blind(matched, works) \in UnreadableEntries(q)
  BY <1>1
<1>3. Blind(matched, works) \in OpenOutcomesOf(q)
  BY <1>2 DEF OpenOutcomesOf
<1> QED
  BY <1>3, Zenon DEF Blind

-----------------------------------------------------------------------------
(* The one order is all that executes, within what the account can fill. *)
OneOrderExecutes ==
  /\ executed = Order.exec /\ executed <= room
  /\ Order.status = "unplaced" => executed = 0
  /\ pc = "place" => Order.status = "unplaced"

(* What makes an answer one that is reckoned with *)
AnswerReadable ==
  pc = "returned" =>
    /\ answer.balanced <=> answer.reading # "unreadable"
    /\ ~answer.balanced => answer.reported = 0
    /\ answer.status = "filled" /\ answer.balanced => answer.reported = Qty

SubmitInv == AnswerStands /\ FillsCounted /\ OneOrderExecutes /\ AnswerReadable

LEMMA OneId == Ids = {1}
  BY OneOrder DEF Ids

LEMMA RoomForOne == MostRoom = Qty
  BY OneOrder, OrderAssumption DEF MostRoom

-----------------------------------------------------------------------------
LEMMA SubmitInvInit == Init => SubmitInv
<1> SUFFICES ASSUME Init PROVE SubmitInv
  OBVIOUS
<1>1. OrdersTypeOK
  BY OrdersInitType DEF Init
<1>2. Order = Unplaced
  BY OneId DEF Init, OrdersInit, Order
<1>3. TypeOK
  BY <1>1, <1>2, NoReportType DEF Init, TypeOK
<1>4. FillsCounted /\ OneOrderExecutes
  BY <1>1, <1>2, OneId, RoomForOne, OrderAssumption
     DEF Init, OrdersInit, OrdersTypeOK, FillsCounted, OneOrderExecutes, Unplaced, Order
<1> QED
  BY <1>3, <1>4 DEF Init, SubmitInv, AnswerStands, AnswerIsTrue, AnswerReadable

(* The broker does not touch an order that is over. *)
LEMMA BrokerLeavesFinal ==
  ASSUME OrdersTypeOK, ~Live(1), BrokerActs
  PROVE  FALSE
<1>1. ASSUME NEW id \in Ids, Fill(id) \/ Refuse(id) \/ Lapse(id) PROVE Live(id)
  BY <1>1 DEF Fill, Refuse, Lapse, Live, LiveStatus
<1> QED
  BY <1>1, OneId DEF BrokerActs

(* An execution is the order's, and the account had room for it. *)
LEMMA BrokerExecutes ==
  ASSUME OrdersTypeOK, OneOrderExecutes, BrokerActs, UNCHANGED <<task, pc>>
  PROVE  OneOrderExecutes'
<1>1. Live(1) /\ Order.exec \in 0..Qty /\ Qty \in Nat
  BY BrokerLeavesFinal, OneId, OrderAssumption DEF OrdersTypeOK, Order
<1>2. pc # "place" /\ Order.status # "unplaced"
  BY <1>1 DEF OneOrderExecutes, Live, LiveStatus, Order
<1>3. Order'.status # "unplaced"
  <2>1. orders'[1].status # "unplaced"
    BY <1>2, OneId, OrdersOnlyEnd DEF Order
  <2> QED
    BY <2>1 DEF Order
<1>4. CASE Fill(1)
  <2>1. PICK n \in 1..(Qty - orders[1].exec) :
          /\ executed + n <= room
          /\ executed' = executed + n
          /\ orders' = [orders EXCEPT ![1].exec = @ + n,
                          ![1].status = IF orders[1].exec + n = Qty THEN "filled"
                                        ELSE "partially_filled"]
    BY <1>4 DEF Fill
  <2>2. Order'.exec = Order.exec + n
    <3>1. CASE orders[1].exec + n = Qty
      BY <1>1, <2>1, <3>1, OneId DEF Order, OrdersTypeOK
    <3>2. CASE orders[1].exec + n # Qty
      BY <1>1, <2>1, <3>2, OneId DEF Order, OrdersTypeOK
    <3> QED
      BY <3>1, <3>2
  <2> QED
    BY <1>2, <1>3, <2>1, <2>2 DEF OneOrderExecutes, task
<1>5. CASE Refuse(1) \/ Lapse(1)
  <2>1. Order'.exec = Order.exec /\ executed' = executed
    BY <1>5, OneId DEF Refuse, Lapse, Order, OrdersTypeOK
  <2> QED
    BY <1>2, <1>3, <2>1 DEF OneOrderExecutes, task
<1> QED
  BY <1>4, <1>5, OneId DEF BrokerActs

(* What a call returns is what the order says, and what it says when the order
   is over is the last word. *)
LEMMA ReturnsTruth ==
  ASSUME SubmitInv, NEW status, Return(status),
         pc \in {"poll", "confirm"},
         status = IF Order.status \in Terminal THEN Order.status ELSE "timeout"
  PROVE  SubmitInv'
<1>1. PICK reading \in Readings : answer' = Report(Order, status, reading)
  BY DEF Return
<1>2. OrdersTypeOK' /\ FillsCounted' /\ UNCHANGED <<orders, executed, room>> /\ pc' = "returned"
  BY OrdersAct, FillsAreCounted DEF Return, SubmitInv, AnswerStands, TypeOK, task
<1>3. Order.status \in Terminal \cup LiveStatus /\ Order.exec \in 0..Qty /\ Qty \in Nat
  BY OneId, OrderAssumption DEF SubmitInv, AnswerStands, TypeOK, OrdersTypeOK, Order
<1>4. reading \in {"exact", "bare", "unreadable"}
  BY OrderAssumption
<1>5. answer' \in Reports
  <2>1. status \in Terminal \cup {"timeout"}
    BY <1>3
  <2> QED
    BY <1>1, <1>3, <1>4, <2>1 DEF Report, Reports
<1>6. executed = Order.exec /\ (Order.status = "filled" => Order.exec = Qty)
  BY OneId DEF SubmitInv, OneOrderExecutes, FillsCounted, Order
<1>7. status # "timeout" => ~Live(1)
  BY <1>3 DEF Live, Order, Terminal, LiveStatus
<1>8. AnswerIsTrue'
  <2>1. /\ answer'.reported <= executed
        /\ answer'.status = "filled" => executed = Qty
        /\ answer'.status # "timeout" /\ answer'.reading = "exact" => answer'.reported = executed
    BY <1>1, <1>3, <1>6 DEF Report, Terminal
  <2>2. answer'.status # "timeout" => ~Live(1)'
    BY <1>1, <1>2, <1>7 DEF Report, Live
  <2> QED
    BY <1>2, <2>1, <2>2 DEF AnswerIsTrue
<1>9. AnswerReadable'
  <2>1. /\ answer'.balanced <=> answer'.reading # "unreadable"
        /\ ~answer'.balanced => answer'.reported = 0
        /\ answer'.status = "filled" /\ answer'.balanced => answer'.reported = Qty
    BY <1>1, <1>3, <1>4, <1>6 DEF Report, Terminal
  <2> QED
    BY <2>1 DEF AnswerReadable
<1>10. OneOrderExecutes'
  BY <1>2 DEF SubmitInv, OneOrderExecutes, Order
<1>11. TypeOK'
  BY <1>2, <1>3, <1>5 DEF TypeOK, Return, Order, SubmitInv, AnswerStands, Terminal, LiveStatus
<1> QED
  BY <1>2, <1>8, <1>9, <1>10, <1>11 DEF SubmitInv, AnswerStands

LEMMA BrokerKeeps == SubmitInv /\ BrokerStep => SubmitInv'
<1> SUFFICES ASSUME SubmitInv, BrokerStep PROVE SubmitInv'
  OBVIOUS
<1>1. OrdersTypeOK /\ UNCHANGED <<task, pc, late, answer>> /\ BrokerActs
  BY DEF BrokerStep, SubmitInv, AnswerStands, TypeOK
<1>2. OrdersTypeOK' /\ FillsCounted' /\ executed' >= executed
  BY <1>1, OrdersAct, FillsAreCounted DEF SubmitInv
<1>3. OneOrderExecutes'
  BY <1>1, BrokerExecutes DEF SubmitInv
<1>4. Live(1)
  BY <1>1, BrokerLeavesFinal
<1>5. Order'.status # "unplaced"
  <2>1. orders'[1].status # "unplaced"
    BY <1>1, <1>4, OneId, OrdersOnlyEnd DEF Live, LiveStatus
  <2> QED
    BY <2>1 DEF Order
<1>6. TypeOK'
  BY <1>1, <1>2, <1>5 DEF TypeOK, SubmitInv, AnswerStands
<1>7. AnswerIsTrue'
  <2> SUFFICES ASSUME pc = "returned" PROVE answer.status = "timeout" /\ answer.reported <= executed'
    BY <1>1 DEF AnswerIsTrue
  <2>1. answer.status = "timeout" /\ answer.reported <= executed
    BY <1>4 DEF SubmitInv, AnswerStands, AnswerIsTrue
  <2>2. answer.reported \in Int /\ executed \in Int /\ executed' \in Int
    BY <1>1, <1>2, RoomBound, OrderAssumption DEF SubmitInv, AnswerStands, TypeOK, Reports, OrdersTypeOK
  <2> QED
    BY <1>2, <2>1, <2>2
<1>8. AnswerReadable'
  BY <1>1 DEF AnswerReadable, SubmitInv
<1> QED
  BY <1>2, <1>3, <1>6, <1>7, <1>8 DEF SubmitInv, AnswerStands

(* A call that is not over takes the order along. *)
LEMMA SubmitInvNext == SubmitInv /\ [Next]_vars => SubmitInv'
<1> SUFFICES ASSUME SubmitInv, [Next]_vars PROVE SubmitInv'
  OBVIOUS
<1>1. OrdersTypeOK /\ TypeOK /\ OneOrderExecutes
  BY DEF SubmitInv, AnswerStands, TypeOK
<1>2. ASSUME Accept(1), pc = "place", UNCHANGED <<task, executed, late, answer>>,
             pc' \in {"poll", "raised"}
      PROVE  SubmitInv'
  <2>1. OrdersTypeOK' /\ FillsCounted'
    BY <1>1, <1>2, OneId, OrdersAct, FillsAreCounted DEF SubmitInv
  <2>2. Order' = [status |-> "open", exec |-> 0, asked |-> FALSE]
    BY <1>1, <1>2, OneId DEF Accept, Order, OrdersTypeOK
  <2>3. OneOrderExecutes'
    BY <1>1, <1>2, <2>2 DEF OneOrderExecutes, task
  <2> QED
    BY <1>1, <1>2, <2>1, <2>2, <2>3 DEF SubmitInv, AnswerStands, TypeOK, AnswerIsTrue, AnswerReadable
<1>3. ASSUME AskCancel(1) \/ UNCHANGED orders, UNCHANGED <<task, executed, answer>>, late' \in BOOLEAN,
             pc \notin {"returned", "raised"}, pc' \in {"poll", "cancel", "confirm", "raised"},
             pc' = "raised" \/ pc # "place"
      PROVE  SubmitInv'
  <2>1. OrdersTypeOK' /\ FillsCounted'
    <3>1. CASE AskCancel(1)
      BY <1>1, <1>3, <3>1, OneId, OrdersAct, FillsAreCounted DEF SubmitInv
    <3>2. CASE UNCHANGED orders
      BY <1>1, <1>3, <3>2, OrdersAct, FillsAreCounted DEF SubmitInv
    <3> QED
      BY <1>3, <3>1, <3>2
  <2>2. Order'.status = Order.status /\ Order'.exec = Order.exec
    BY <1>1, <1>3, OneId DEF AskCancel, Order, OrdersTypeOK
  <2>3. OneOrderExecutes'
    BY <1>1, <1>3, <2>2 DEF OneOrderExecutes, task
  <2> QED
    BY <1>1, <1>3, <2>1, <2>2, <2>3 DEF SubmitInv, AnswerStands, TypeOK, AnswerIsTrue, AnswerReadable
<1>4. CASE Raises
  BY <1>1, <1>2, <1>3, <1>4 DEF Raises, TypeOK
<1>5. CASE Place
  BY <1>2, <1>5 DEF Place
<1>6. CASE DeadlinePasses
  BY <1>3, <1>6 DEF DeadlinePasses
<1>7. CASE PollTimesOut
  BY <1>1, <1>3, <1>7 DEF PollTimesOut, TypeOK
<1>8. CASE Cancel
  BY <1>1, <1>3, <1>8 DEF Cancel, TypeOK
<1>9. CASE PollFindsFinal
  BY <1>9, ReturnsTruth DEF PollFindsFinal
<1>10. CASE Confirm
  BY <1>10, ReturnsTruth DEF Confirm
<1>11. CASE UNCHANGED vars
  BY <1>11 DEF vars, task, SubmitInv, AnswerStands, TypeOK, OrdersTypeOK, AnswerIsTrue, AnswerReadable,
               FillsCounted, OneOrderExecutes, Order, Live
<1> QED
  BY <1>4, <1>5, <1>6, <1>7, <1>8, <1>9, <1>10, <1>11, BrokerKeeps DEF Next, SubmitStep

(* The order, the phase and the answer of submit_and_verify agree: an answer
   never claims more than executed, and one other than "timeout" is final, with
   any fill that won the race against the cancel in it. *)
THEOREM AnswersStand == Spec => []AnswerStands
<1>1. SubmitInv => AnswerStands
  BY DEF SubmitInv
<1> QED
  BY <1>1, SubmitInvInit, SubmitInvNext, PTL DEF Spec

-----------------------------------------------------------------------------
(* What is still live is no more than was asked for, and nothing once the whole
   order is filled. *)
LEMMA WorksBound ==
  ASSUME SubmitInv
  PROVE  Works \in 0..Qty /\ (~Live(1) => Works = 0)
<1>1. CASE Live(1)
  <2>1. LiveOrders = {1}
    BY <1>1, OneId DEF LiveOrders
  <2>2. Works = Qty - orders[1].exec /\ orders[1].exec \in 0..Qty
    BY <2>1, OneId DEF Works, SubmitInv, AnswerStands, TypeOK, OrdersTypeOK
  <2> QED
    BY <1>1, <2>2, OrderAssumption
<1>2. CASE ~Live(1)
  <2>1. LiveOrders = {}
    BY <1>2, OneId DEF LiveOrders
  <2> QED
    BY <2>1, OrderAssumption DEF Works
<1> QED
  BY <1>1, <1>2

LEMMA ExecutedBound ==
  ASSUME SubmitInv
  PROVE  executed \in 0..Qty /\ room \in Nat /\ executed <= room /\ Qty \in Nat \ {0}
  BY RoomForOne, OrderAssumption
     DEF SubmitInv, OneOrderExecutes, AnswerStands, TypeOK, OrdersTypeOK

LEMMA AnswersForeseen == ASSUME SubmitInv, pc = "returned" PROVE IsForeseen(answer)
<1> DEFINE reported == answer.reported
<1>1. /\ reported \in 0..Qty /\ answer.balanced \in BOOLEAN /\ reported <= executed
      /\ answer.status = "filled" => executed = Qty /\ Works = 0
      /\ answer.status = "filled" /\ answer.balanced => reported = Qty
      /\ ~answer.balanced => reported = 0
  BY WorksBound DEF SubmitInv, AnswerStands, AnswerIsTrue, AnswerReadable, TypeOK, Reports
<1>2. Works \in 0..Qty /\ executed \in 0..Qty /\ executed <= room /\ Qty \in Nat
  BY WorksBound, ExecutedBound
<1>3. CASE closing
  <2>1. CASE answer.status = "filled" /\ answer.balanced
    <3> DEFINE o == CloseOutcome("none", executed, executed, "filled", 0)
    <3>1. o \in CloseOutcomesOf(Qty, room)
      BY <1>1, <1>2, <2>1 DEF CloseOutcomesOf
    <3>2. o.fill = executed /\ o.works = Works /\ o.reported = reported /\ o.status = "filled"
      BY <1>1, <2>1 DEF CloseOutcome
    <3> QED
      BY <1>3, <2>1, <3>1, <3>2 DEF IsForeseen
  <2>2. CASE answer.status = "filled" /\ ~answer.balanced
    <3> DEFINE o == CloseOutcome("unreadable", executed, 0, "filled", 0)
    <3>1. o \in CloseOutcomesOf(Qty, room)
      BY <1>1, <1>2, <2>2 DEF CloseOutcomesOf
    <3>2. o.fill = executed /\ o.works = Works /\ o.reported = reported /\ o.status = "filled"
      BY <1>1, <2>2 DEF CloseOutcome
    <3> QED
      BY <1>3, <2>2, <3>1, <3>2 DEF IsForeseen
  <2>3. CASE answer.status # "filled"
    <3> DEFINE o == CloseOutcome("late", executed, reported, "canceled", Works)
    <3>1. o \in CloseOutcomesOf(Qty, room)
      BY <1>1, <1>2, ExecutedBound, LateCloseForeseen
    <3>2. o.fill = executed /\ o.works = Works /\ o.reported = reported /\ o.status # "filled"
      BY DEF CloseOutcome
    <3> QED
      BY <1>3, <2>3, <3>1, <3>2 DEF IsForeseen
  <2> QED
    BY <2>1, <2>2, <2>3
<1>4. CASE ~closing
  <2>1. CASE answer.balanced
    <3> DEFINE o == OpenOutcome("late", reported, executed, 0, Works, TRUE)
    <3>1. o \in OpenOutcomesOf(Qty)
      BY <1>1, <1>2, LateEntryForeseen
    <3>2. /\ o.matched = executed /\ o.works = Works /\ o.excess = 0
          /\ o.balanced = answer.balanced /\ o.booked = reported
      BY <1>1, <2>1 DEF OpenOutcome
    <3> QED
      BY <1>1, <1>4, <2>1, <3>1, <3>2 DEF IsForeseen
  <2>2. CASE ~answer.balanced
    <3> DEFINE o == OpenOutcome("unreadable", 0, executed, 0, Works, FALSE)
    <3>1. o \in OpenOutcomesOf(Qty)
      BY <1>1, <1>2, UnreadableEntryForeseen
    <3>2. /\ o.matched = executed /\ o.works = Works /\ o.excess = 0
          /\ o.balanced = answer.balanced /\ o.booked = reported
      BY <1>1, <2>2 DEF OpenOutcome
    <3> QED
      BY <1>1, <1>4, <2>2, <3>1, <3>2 DEF IsForeseen
  <2> QED
    BY <1>1, <2>1, <2>2
<1> QED
  BY <1>3, <1>4

LEMMA ErrorsForeseen == ASSUME SubmitInv PROVE IsForeseenError
<1> DEFINE o == CloseOutcome("error", executed, 0, "canceled", Works)
<1>1. o \in CloseOutcomesOf(Qty, room)
  BY WorksBound, ExecutedBound DEF CloseOutcomesOf
<1>2. o.kind = "error" /\ o.fill = executed /\ o.works = Works
  BY DEF CloseOutcome
<1> QED
  BY <1>1, <1>2 DEF IsForeseenError

(* Every answer and every error of submit_and_verify, for a close on an account
   that holds any number of the contracts as well as for an entry, is one of the
   outcomes Orchestrator reckons with. *)
THEOREM SubmitEndsForeseen == Spec => EndsForeseen
<1> DEFINE Step == /\ pc' = "returned" /\ pc # "returned" => IsForeseen(answer')
                   /\ pc' = "raised" /\ pc # "raised" => IsForeseenError'
<1>1. SubmitInv /\ pc = "returned" => IsForeseen(answer)
  BY AnswersForeseen
<1>2. SubmitInv => IsForeseenError
  BY ErrorsForeseen
<1>3. (SubmitInv /\ pc = "returned" => IsForeseen(answer))'
  BY <1>1, PTL
<1>4. (SubmitInv => IsForeseenError)'
  BY <1>2, PTL
<1>5. SubmitInv /\ [Next]_vars => [Step]_vars
  <2> SUFFICES ASSUME SubmitInv, Next, SubmitInv' PROVE Step
    BY SubmitInvNext
  <2>1. pc' = "raised" => IsForeseenError'
    BY <1>4
  <2>2. ASSUME pc' = "returned", pc # "returned" PROVE IsForeseen(answer')
    <3>1. UNCHANGED <<closing, room, orders, executed>>
      BY <2>2 DEF Next, SubmitStep, Place, PollFindsFinal, PollTimesOut, Cancel, Confirm, Return,
                  Raises, DeadlinePasses, BrokerStep, task
    <3>2. IsForeseen(answer)'
      BY <1>3, <2>2
    <3> QED
      BY <3>1, <3>2 DEF IsForeseen, Works, LiveOrders, Live
  <2> QED
    BY <2>1, <2>2
<1> QED
  BY <1>5, SubmitInvInit, SubmitInvNext, PTL DEF Spec, EndsForeseen
=============================================================================
