------------------------------ MODULE PriceLadder ------------------------------
(***************************************************************************)
(* submit_entry_ladder and submit_close_ladder (bot/broker/submit.py) with *)
(* the place_fn, cancel_fn, on_reprice and should_abort that bot/app/      *)
(* wiring.py gives them: a series of orders, each one price step closer to *)
(* the market, each cancelled before the next is placed.  An entry steps   *)
(* its credit down to a floor, a close its debit up to a cap.              *)
(***************************************************************************)
EXTENDS BrokerOrders

CONSTANTS
  LowPrice,   \* min_credit of an entry, the midpoint of a close, in price steps
  HighPrice   \* the midpoint of an entry, max_debit (the natural) of a close

Toward == IF closing THEN 1 ELSE -1
Crosses(p) == IF closing THEN p > HighPrice ELSE p < LowPrice

ASSUME PriceAssumption ==
  /\ LowPrice \in Int /\ HighPrice \in Int
  /\ LowPrice <= HighPrice                    \* a valid quote is not crossed
  /\ MaxOrders = HighPrice - LowPrice + 1     \* one order per price

VARIABLES
  pc,        \* where the ladder stands
  price,     \* credit or debit of the current rung
  rung,      \* orders placed
  result,    \* what place_fn returned for the current rung
  lateFill,  \* a fill that cancel_fn came upon, or NoReport
  confirmed, \* what cancel_fn returned
  answer

ladderVars == <<price, rung, result, lateFill, confirmed, answer>>
vars == <<task, orders, executed, pc, ladderVars>>

Over == {"returned", "raised"}

(* Any of the requests and quotes may raise. *)
Raises ==
  /\ pc \notin Over
  /\ pc' = "raised"
  /\ UNCHANGED <<task, executed, ladderVars>>
  /\ \/ UNCHANGED orders
     \/ pc = "place" /\ Accept(rung + 1)
     \/ pc \in {"cancel", "cancel partial"} /\ AskCancel(rung)

Answer(what) ==
  /\ answer' = what
  /\ pc' = "returned"
  /\ UNCHANGED <<task, orders, executed, price, rung, result, lateFill, confirmed>>

(* _no_order_result: aborted before the first order *)
AbortAtStart ==
  /\ pc = "place"
  /\ rung = 0
  /\ Answer(NoReport)

Place ==
  /\ pc = "place"
  /\ Accept(rung + 1)
  /\ rung' = rung + 1
  /\ pc' = "dwell"
  /\ UNCHANGED <<task, executed, price, result, lateFill, confirmed, answer>>

(* place_fn returns as soon as the order is final, or when the dwell time is over. *)
DwellEnds ==
  /\ pc = "dwell"
  /\ \E reading \in Readings : result' = Report(orders[rung], orders[rung].status, reading)
  /\ pc' = "sort"
  /\ UNCHANGED <<task, orders, executed, price, rung, lateFill, confirmed, answer>>

RungAnswers ==
  /\ pc = "sort"
  /\ result.status \in {"filled", "rejected"}
  /\ Answer(result)

RungWorks ==
  /\ pc = "sort"
  /\ result.status \notin {"filled", "rejected"}
  /\ pc' = IF result.status = "partially_filled" THEN "cancel partial" ELSE "cancel"
  /\ UNCHANGED <<task, orders, executed, ladderVars>>

(* cancel_fn, the DELETE; a refusal is swallowed *)
Cancel ==
  /\ pc \in {"cancel", "cancel partial"}
  /\ AskCancel(rung) \/ UNCHANGED orders
  /\ pc' = IF pc = "cancel" THEN "confirm" ELSE "confirm partial"
  /\ UNCHANGED <<task, executed, ladderVars>>

(* Mutant: whatever is final counts as the late fill. *)
FoundFinal ==
  IF orders[rung].status \in Terminal
    THEN \E reading \in Readings : lateFill' = Report(orders[rung], "filled", reading)
    ELSE UNCHANGED lateFill

(* cancel_fn, the read behind it: a fill that won the race is kept *)
FoundFilled ==
  IF orders[rung].status = "filled"
    THEN \E reading \in Readings : lateFill' = Report(orders[rung], "filled", reading)
    ELSE UNCHANGED lateFill

(* Mutant: the cancel counts as confirmed without looking. *)
ConfirmBlindly ==
  /\ pc = "confirm"
  /\ FoundFilled
  /\ confirmed' = TRUE
  /\ pc' = "decide"
  /\ UNCHANGED <<task, orders, executed, price, rung, result, answer>>

(* Mutant: the ladder waits for its cancel. *)
ConfirmInsists ==
  /\ pc = "confirm"
  /\ ~Live(rung)
  /\ FoundFilled
  /\ confirmed' = (orders[rung].status # "filled")
  /\ pc' = "decide"
  /\ UNCHANGED <<task, orders, executed, price, rung, result, answer>>

Confirm ==
  /\ pc = "confirm"
  /\ FoundFilled
  /\ confirmed' = (orders[rung].status \in {"canceled", "rejected", "expired"})
  /\ pc' = "decide"
  /\ UNCHANGED <<task, orders, executed, price, rung, result, answer>>

(* A fill found while cancelling replaces the ladder's own result. *)
AnswerOrLateFill(status) ==
  Answer(IF lateFill # NoReport THEN lateFill ELSE [result EXCEPT !.status = status])

(* The partial's result is the one read before the cancel. *)
ConfirmPartial ==
  /\ pc = "confirm partial"
  /\ FoundFilled
  /\ pc' = "answer partial"
  /\ UNCHANGED <<task, orders, executed, price, rung, result, confirmed, answer>>

AnswerPartial ==
  /\ pc = "answer partial"
  /\ AnswerOrLateFill(result.status)

(* should_abort, the time limit, on_reprice and the price bound may all end it;
   an unconfirmed cancel and a crossed bound do. *)
GiveUp ==
  /\ pc = "decide"
  /\ AnswerOrLateFill("canceled")

(* Mutant: two steps at once, and no look at the bound. *)
RepricePastBound ==
  /\ pc = "decide"
  /\ confirmed
  /\ rung < MaxOrders
  /\ price' = price + Toward * 2
  /\ pc' = "place"
  /\ UNCHANGED <<task, orders, executed, rung, result, lateFill, confirmed, answer>>

Reprice ==
  /\ pc = "decide"
  /\ confirmed
  /\ ~Crosses(price + Toward)
  /\ price' = price + Toward
  /\ pc' = "place"
  /\ UNCHANGED <<task, orders, executed, rung, result, lateFill, confirmed, answer>>

-----------------------------------------------------------------------------
Init ==
  /\ OrdersInit
  /\ pc = "place" /\ price = (IF closing THEN LowPrice ELSE HighPrice) /\ rung = 0
  /\ result = NoReport /\ lateFill = NoReport /\ confirmed = FALSE /\ answer = NoReport

BrokerStep == BrokerActs /\ UNCHANGED <<task, pc, ladderVars>>

LadderStep ==
  AbortAtStart \/ Place \/ DwellEnds \/ RungAnswers \/ RungWorks \/ Cancel \/ Confirm
    \/ ConfirmPartial \/ AnswerPartial \/ GiveUp \/ Reprice

Next == LadderStep \/ Raises \/ BrokerStep

Spec == Init /\ [][Next]_vars

(* Every wait of the ladder is bounded by a clock; the broker owes nothing. *)
FairSpec == Spec /\ WF_vars(LadderStep)

-----------------------------------------------------------------------------
Phases == {"place", "dwell", "sort", "cancel", "confirm", "decide", "cancel partial",
           "confirm partial", "answer partial"} \cup Over

(* Orders, results and phases keep their shapes, and orders are placed one by one. *)
TypeOK ==
  /\ OrdersTypeOK
  /\ pc \in Phases
  /\ price \in Int
  /\ rung \in 0..MaxOrders
  /\ result \in Reports /\ lateFill \in Reports /\ answer \in Reports
  /\ confirmed \in BOOLEAN

(* No two orders of one ladder are ever live together, whatever becomes of the
   cancels: "so this function NEVER holds two live opening orders". *)
AtMostOneLive == Cardinality(LiveOrders) <= 1

(* The price of the order being placed never passes the floor or the cap. *)
PriceWithinBound == pc = "place" => ~Crosses(price)

(* What the bot is told was really executed. *)
AnswerIsCovered ==
  pc = "returned" =>
    /\ answer.reported <= executed
    /\ answer.status = "filled" => executed >= Qty

(* However a ladder ends, the tick loop is prepared for it. *)
EndsForeseen ==
  [][/\ pc' = "returned" /\ pc # "returned" => IsForeseen(answer')
     /\ pc' = "raised" /\ pc # "raised" => IsForeseenError']_vars

(* A ladder comes back. *)
LadderEnds == <>(pc \in Over)
=============================================================================
