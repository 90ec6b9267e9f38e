------------------------------ MODULE TradeLedger ------------------------------
(***************************************************************************)
(* What the bot promises about its positions, whatever the market, the     *)
(* broker and the account's other users do: a position is opened once,     *)
(* under the concurrency, daily-entry and daily-loss limits, and every     *)
(* contract of it leaves exactly once, either with its P&L booked on the   *)
(* day it left or escalated to the operator as unbooked.                   *)
(***************************************************************************)
EXTENDS Integers, FiniteSets

CONSTANTS Keys, MaxQty, MaxOpen, MaxEntries, Pnls, NumDays,
          LossGate,      \* is the daily-loss gate on
          DayLossLimit

VARIABLES open,   \* contracts open per position key
          opens,  \* positions opened today
          pnl,    \* P&L booked today
          day

ledgerVars == <<open, opens, pnl, day>>

Live == {k \in Keys : open[k] > 0}

Open(k, qty) ==
  /\ open[k] = 0
  /\ Cardinality(Live) < MaxOpen
  /\ opens < MaxEntries
  /\ LossGate /\ Live = {} => pnl > -DayLossLimit
  /\ open' = [open EXCEPT ![k] = qty]
  /\ opens' = opens + 1
  /\ UNCHANGED <<pnl, day>>

Exit(k, qty, p) ==
  /\ open' = [open EXCEPT ![k] = @ - qty]
  /\ pnl' = pnl + p
  /\ UNCHANGED <<opens, day>>

Escalate(k) ==
  /\ open[k] > 0
  /\ open' = [open EXCEPT ![k] = 0]
  /\ UNCHANGED <<opens, pnl, day>>

NextDay ==
  /\ day < NumDays
  /\ day' = day + 1
  /\ opens' = 0
  /\ pnl' = 0
  /\ UNCHANGED open

LedgerInit == open = [k \in Keys |-> 0] /\ opens = 0 /\ pnl = 0 /\ day = 1

LedgerNext ==
  \/ \E k \in Keys, qty \in 1..MaxQty : Open(k, qty)
  \/ \E k \in Keys : \E qty \in 1..open[k], p \in Pnls : Exit(k, qty, p)
  \/ \E k \in Keys : Escalate(k)
  \/ NextDay

LedgerSpec == LedgerInit /\ [][LedgerNext]_ledgerVars
=============================================================================
