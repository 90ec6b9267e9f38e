------------------------------ MODULE OrderSubmit ------------------------------
(***************************************************************************)
(* submit_and_verify (bot/broker/submit.py): place one order, poll it until *)
(* it is final or the timeout has passed, then cancel it and read it once  *)
(* more.  Any request may raise instead; the order stays where it was.     *)
(* Polling a live order again before the timeout changes nothing.          *)
(***************************************************************************)
EXTENDS BrokerOrders

ASSUME OneOrder == MaxOrders = 1

VARIABLES
  pc,       \* where submit_and_verify stands
  late,     \* timeout_s has passed
  answer    \* what it returned

vars == <<task, orders, executed, pc, late, answer>>

Order == orders[1]

Raises ==
  /\ pc \notin {"returned", "raised"}
  /\ pc' = "raised"
  /\ UNCHANGED <<task, executed, late, answer>>
  /\ \/ UNCHANGED orders
     \/ pc = "place" /\ Accept(1)        \* the answer to the POST was lost
     \/ pc = "cancel" /\ AskCancel(1)

Place ==
  /\ pc = "place"
  /\ Accept(1)
  /\ pc' = "poll"
  /\ UNCHANGED <<task, executed, late, answer>>

DeadlinePasses ==
  /\ pc = "poll"
  /\ ~late
  /\ late' = TRUE
  /\ UNCHANGED <<task, orders, executed, pc, answer>>

Return(status) ==
  /\ \E reading \in Readings : answer' = Report(Order, status, reading)
  /\ pc' = "returned"
  /\ UNCHANGED <<task, orders, executed, late>>

PollFindsFinal ==
  /\ pc = "poll"
  /\ Order.status \in Terminal
  /\ Return(Order.status)

PollTimesOut ==
  /\ pc = "poll"
  /\ Order.status \notin Terminal
  /\ late
  /\ pc' = "cancel"
  /\ UNCHANGED <<task, orders, executed, late, answer>>

(* A refused cancel is swallowed: the order may just have filled. *)
Cancel ==
  /\ pc = "cancel"
  /\ AskCancel(1) \/ UNCHANGED orders
  /\ pc' = "confirm"
  /\ UNCHANGED <<task, executed, late, answer>>

(* Mutant: the cancel is trusted, nobody looks again. *)
ConfirmBlindly ==
  /\ pc = "confirm"
  /\ Return("canceled")

(* Mutant: what could not be confirmed counts as filled. *)
ConfirmAsFilled ==
  /\ pc = "confirm"
  /\ Return(IF Order.exec > 0 THEN "filled" ELSE Order.status)

(* Mutant: it keeps waiting for a final state. *)
ConfirmInsists ==
  /\ pc = "confirm"
  /\ Order.status \in Terminal
  /\ Return(Order.status)

Confirm ==
  /\ pc = "confirm"
  /\ Return(IF Order.status \in Terminal THEN Order.status ELSE "timeout")

-----------------------------------------------------------------------------
Init ==
  /\ OrdersInit
  /\ pc = "place" /\ late = FALSE /\ answer = NoReport

BrokerStep == BrokerActs /\ UNCHANGED <<task, pc, late, answer>>

SubmitStep == Place \/ PollFindsFinal \/ PollTimesOut \/ Cancel \/ Confirm

Next == SubmitStep \/ Raises \/ DeadlinePasses \/ BrokerStep

Spec == Init /\ [][Next]_vars

(* The process keeps running and its clock keeps ticking; the broker owes nothing. *)
FairSpec == Spec /\ WF_vars(SubmitStep) /\ WF_vars(DeadlinePasses)

-----------------------------------------------------------------------------
(* The order, the answer and the phase keep their shapes; an order is in the
   broker's hands exactly in the phases after it was placed. *)
TypeOK ==
  /\ OrdersTypeOK
  /\ pc \in {"place", "poll", "cancel", "confirm", "returned", "raised"}
  /\ late \in BOOLEAN
  /\ answer \in Reports
  /\ Order.status = "unplaced" => pc \in {"place", "raised"}

(* The answer is never ahead of the broker, and an answer other than "timeout"
   is final: a fill that won the race against the cancel is in it, and nothing
   executes after it. *)
AnswerIsTrue ==
  pc = "returned" =>
    /\ answer.reported <= executed
    /\ answer.status = "filled" => executed = Qty
    /\ answer.status # "timeout" => ~Live(1)
    /\ answer.status # "timeout" /\ answer.reading = "exact" => answer.reported = executed

(* One order, one truth: every phase of the call agrees with the broker's order,
   and so does the answer. *)
AnswerStands == TypeOK /\ AnswerIsTrue

(* However a call ends, the tick loop is prepared for it. *)
EndsForeseen ==
  [][/\ pc' = "returned" /\ pc # "returned" => IsForeseen(answer')
     /\ pc' = "raised" /\ pc # "raised" => IsForeseenError']_vars

(* A call comes back, so that a stuck order cannot stop the loop that fires stops. *)
SubmitEnds == <>(pc \in {"returned", "raised"})
=============================================================================
