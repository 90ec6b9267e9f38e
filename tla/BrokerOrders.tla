----------------------------- MODULE BrokerOrders -----------------------------
(***************************************************************************)
(* The broker's side of the multileg orders one submission places: Tradier *)
(* as bot/broker/submit.py and the ladders of bot/app/wiring.py use it.    *)
(* An order fills contract by contract, is refused, expires, or is         *)
(* cancelled some time after the cancellation was accepted.                *)
(***************************************************************************)
EXTENDS OrderOutcomes, FiniteSets

CONSTANTS
  Qty,       \* contracts the submission asks for
  Readings,  \* how an order payload can be read (see Report)
  MaxOrders  \* bound: orders one submission places

ASSUME OrderAssumption ==
  /\ Qty \in Nat \ {0}
  /\ Readings \subseteq {"exact", "bare", "unreadable"}
  /\ MaxOrders \in Nat \ {0}

VARIABLES
  closing,   \* is it a close?
  room,      \* contracts the account can execute: what it holds, for a close
  orders,    \* id -> what the broker holds of it
  executed   \* contracts executed, all orders together

task == <<closing, room>>

Ids == 1..MaxOrders
MostRoom == Qty * MaxOrders

Terminal == {"filled", "canceled", "rejected", "expired"}
LiveStatus == {"open", "partially_filled"}
Unplaced == [status |-> "unplaced", exec |-> 0, asked |-> FALSE]

Live(id) == orders[id].status \in LiveStatus
LiveOrders == {id \in Ids : Live(id)}

Accept(id) == orders' = [orders EXCEPT ![id] = [status |-> "open", exec |-> 0, asked |-> FALSE]]

AskCancel(id) == orders' = [orders EXCEPT ![id].asked = TRUE]

Fill(id) ==
  /\ Live(id)
  /\ \E n \in 1..(Qty - orders[id].exec) :
       /\ executed + n <= room
       /\ executed' = executed + n
       /\ orders' = [orders EXCEPT ![id].exec = @ + n,
                       ![id].status = IF orders[id].exec + n = Qty THEN "filled" ELSE "partially_filled"]

Refuse(id) ==
  /\ orders[id].status = "open"
  /\ orders' = [orders EXCEPT ![id].status = "rejected"]
  /\ UNCHANGED executed

Lapse(id) ==
  /\ Live(id)
  /\ \/ orders' = [orders EXCEPT ![id].status = "expired"]
     \/ /\ orders[id].asked
        /\ orders' = [orders EXCEPT ![id].status = "canceled"]
  /\ UNCHANGED executed

BrokerActs == \E id \in Ids : Fill(id) \/ Refuse(id) \/ Lapse(id)

-----------------------------------------------------------------------------
(* map_broker_status: whatever is not final counts as "open" or
   "partially_filled"; then build_execution_result.  "exact": the legs, or the
   order-level quantity, say what executed.  "bare": no quantity at all, so
   only "filled" is taken for the whole.  "unreadable": legs that cannot be
   normalized count for nothing. *)
Report(order, status, reading) ==
  [status |-> status,
   balanced |-> reading # "unreadable",
   reading |-> reading,
   reported |-> IF reading = "exact" THEN order.exec
                ELSE IF reading = "bare" /\ status = "filled" THEN Qty
                ELSE 0]

Reports == [status: Terminal \cup LiveStatus \cup {"timeout", "aborted"}, balanced: BOOLEAN,
            reading: {"exact", "bare", "unreadable"}, reported: 0..Qty]
NoReport == [status |-> "aborted", balanced |-> TRUE, reading |-> "exact", reported |-> 0]

OrdersInit ==
  /\ \/ closing = TRUE /\ room \in 0..Qty
     \/ closing = FALSE /\ room = MostRoom
  /\ orders = [id \in Ids |-> Unplaced]
  /\ executed = 0

OrdersTypeOK ==
  /\ closing \in BOOLEAN /\ room \in 0..MostRoom
  /\ orders \in [Ids -> [status: Terminal \cup LiveStatus \cup {"unplaced"}, exec: 0..Qty,
                         asked: BOOLEAN]]
  /\ executed \in 0..MostRoom

(* What is left live at the broker *)
Works == IF LiveOrders = {} THEN 0 ELSE Qty - orders[CHOOSE id \in LiveOrders : TRUE].exec

(* An answer is one of the outcomes Orchestrator reckons with. *)
IsForeseen(answer) ==
  IF closing
    THEN \E o \in CloseOutcomesOf(Qty, room) :
           /\ o.fill = executed /\ o.works = Works
           /\ o.reported = answer.reported
           /\ (o.status = "filled") <=> (answer.status = "filled")
    ELSE \E o \in OpenOutcomesOf(Qty) :
           /\ o.matched = executed /\ o.works = Works /\ o.excess = 0
           /\ o.balanced = answer.balanced
           /\ o.booked = IF answer.balanced /\ answer.status = "filled" THEN Qty ELSE answer.reported

IsForeseenError ==
  closing => \E o \in CloseOutcomesOf(Qty, room) :
               o.kind = "error" /\ o.fill = executed /\ o.works = Works
=============================================================================
