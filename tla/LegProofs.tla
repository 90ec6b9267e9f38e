------------------------------ MODULE LegProofs ------------------------------
(***************************************************************************)
(* What LegBook keeps for every set of spreads and every quantity: the     *)
(* types, that no short is left uncovered while the bot may open, that the *)
(* book takes from an order what is whole, that reconstruct_spreads finds  *)
(* the account's spreads among its netted legs, and that run_reconcile_    *)
(* cycle keeps the book by them.                                           *)
(***************************************************************************)
EXTENDS LegBook, FoldProofs

Fills == [short : Nat, long : Nat]

LEMMA LesserOfTwo ==
  ASSUME NEW a \in Nat, NEW b \in Nat
  PROVE  /\ Lesser(a, b) \in Nat /\ Lesser(a, b) <= a /\ Lesser(a, b) <= b
         /\ a = b => Lesser(a, b) = a
         /\ Lesser(a, b) = a \/ Lesser(a, b) = b
BY DEF Lesser

-----------------------------------------------------------------------------
(* What an order's result says of the legs it was read from.               *)

\* A reading never counts more contracts than both legs have.
LEMMA ContractsAreCovered ==
  ASSUME NEW payload \in Payloads, NEW fill \in Fills, NEW status, NEW asked \in Nat,
         MayReport(payload, fill, status, asked)
  PROVE  LET contracts == ExecutionResult(payload, fill, status, asked).contracts
         IN  contracts \in Nat /\ contracts <= fill.short /\ contracts <= fill.long
<1>0. fill.short \in Nat /\ fill.long \in Nat
  BY DEF Fills
<1>1. CASE payload = "legs"
  <2>1. ExecutionResult(payload, fill, status, asked).contracts = Lesser(fill.short, fill.long)
    BY <1>1 DEF ExecutionResult
  <2> QED
    BY <1>0, <2>1, LesserOfTwo
<1>2. CASE payload = "unreadable"
  <2>1. ExecutionResult(payload, fill, status, asked).contracts = 0
    BY <1>2 DEF ExecutionResult
  <2> QED
    BY <1>0, <2>1
<1>3. CASE payload = "flat"
  <2>1. ExecutionResult(payload, fill, status, asked).contracts = fill.short
    BY <1>3 DEF ExecutionResult
  <2>2. fill.short = fill.long
    BY <1>3 DEF MayReport
  <2> QED
    BY <1>0, <2>1, <2>2
<1> QED
  BY <1>1, <1>2, <1>3 DEF Payloads

\* A reading that calls the legs balanced has seen equal legs.
LEMMA BalancedIsEven ==
  ASSUME NEW payload \in Payloads, NEW fill, NEW status, NEW asked,
         MayReport(payload, fill, status, asked),
         ExecutionResult(payload, fill, status, asked).balanced
  PROVE  fill.short = fill.long
<1>1. CASE payload = "legs"
  <2>1. ExecutionResult(payload, fill, status, asked).balanced <=> fill.short = fill.long
    BY <1>1 DEF ExecutionResult
  <2> QED
    BY <2>1, Zenon
<1>2. CASE payload = "unreadable"
  <2>1. ExecutionResult(payload, fill, status, asked).balanced <=> FALSE
    BY <1>2 DEF ExecutionResult
  <2> QED
    BY <2>1, Zenon
<1>3. CASE payload = "flat"
  BY <1>3 DEF MayReport
<1> QED
  BY <1>1, <1>2, <1>3 DEF Payloads

\* What is booked of an opening order has both its legs.
LEMMA BookedIsCovered ==
  ASSUME NEW payload \in Payloads, NEW fill \in Fills, NEW status, NEW asked \in Nat,
         MayReport(payload, fill, status, asked)
  PROVE  LET qty == Booked(ExecutionResult(payload, fill, status, asked), status, asked)
         IN  qty \in Nat /\ qty <= fill.short /\ qty <= fill.long
<1> DEFINE result == ExecutionResult(payload, fill, status, asked)
<1>1. CASE status = "filled" /\ result.balanced
  <2>1. fill.short = fill.long
    BY <1>1, BalancedIsEven
  <2>2. asked = fill.short \/ asked = fill.long
    BY <1>1 DEF MayReport
  <2>3. Booked(result, status, asked) = asked
    BY <1>1 DEF Booked
  <2> QED
    BY <2>1, <2>2, <2>3 DEF Fills
<1>2. CASE ~(status = "filled" /\ result.balanced)
  <2>1. Booked(result, status, asked) = result.contracts
    BY <1>2, Zenon DEF Booked
  <2> QED
    BY <2>1, ContractsAreCovered
<1> QED
  BY <1>1, <1>2

-----------------------------------------------------------------------------
(* Types.                                                                  *)

LEMMA KeepsTypes == TypeOK /\ [Next]_vars => TypeOK'
<1> SUFFICES ASSUME TypeOK, [Next]_vars PROVE TypeOK'
  OBVIOUS
<1>0. MaxQty \in Nat
  BY LegAssumption DEF LegAssumption
<1>a. /\ own \in [Keys -> [short : 0..MaxQty, long : 0..MaxQty]]
      /\ foreign \in [Keys -> 0..MaxQty]
      /\ book \in [Keys -> 0..MaxQty]
      /\ streak \in [Keys -> 0..1]
  <2>1. RemoveThreshold - 1 = 1
    BY DEF RemoveThreshold
  <2> QED
    BY <2>1, Zenon DEF TypeOK
<1>b. /\ shared \in BOOLEAN
      /\ halt \in {"none", "unmatched legs"} \cup Owned
  BY DEF TypeOK
<1>1. ASSUME NEW k \in Keys, Open(k) PROVE TypeOK'
  <2>0. PICK asked \in 1..MaxQty, payload \in Payloads, status \in {"filled", "canceled"} :
          \E fill \in [short : 0..asked, long : 0..asked] :
               LET result == ExecutionResult(payload, fill, status, asked)
               IN  /\ MayReport(payload, fill, status, asked)
                   /\ own' = [own EXCEPT ![k] = fill]
                   /\ book' = [book EXCEPT ![k] = Booked(result, status, asked)]
                   /\ halt' = IF result.balanced THEN halt ELSE "unmatched legs"
    BY <1>1, Zenon DEF Open
  <2>1. PICK fill \in [short : 0..asked, long : 0..asked] :
               LET result == ExecutionResult(payload, fill, status, asked)
               IN  /\ MayReport(payload, fill, status, asked)
                   /\ own' = [own EXCEPT ![k] = fill]
                   /\ book' = [book EXCEPT ![k] = Booked(result, status, asked)]
                   /\ halt' = IF result.balanced THEN halt ELSE "unmatched legs"
    BY <2>0, Zenon
  <2>2. asked \in Nat /\ asked <= MaxQty /\ fill \in Fills
        /\ fill.short <= MaxQty /\ fill.short \in Nat
        /\ fill \in [short : 0..MaxQty, long : 0..MaxQty]
    <3>1. asked \in Nat /\ asked <= MaxQty
      BY <1>0
    <3>2. fill.short \in 0..asked /\ fill.long \in 0..asked
      BY <2>1
    <3>3. fill = [short |-> fill.short, long |-> fill.long]
      BY <2>1
    <3>4. fill.short \in 0..MaxQty /\ fill.long \in 0..MaxQty
      BY <1>0, <3>1, <3>2
    <3> QED
      BY <1>0, <3>1, <3>3, <3>4 DEF Fills
  <2>3. Booked(ExecutionResult(payload, fill, status, asked), status, asked) \in 0..MaxQty
    <3> DEFINE qty == Booked(ExecutionResult(payload, fill, status, asked), status, asked)
    <3> HIDE DEF qty
    <3>1. qty \in Nat /\ qty <= fill.short
      BY <2>1, <2>2, BookedIsCovered, Zenon DEF qty
    <3>2. qty \in 0..MaxQty
      BY <1>0, <2>2, <3>1
    <3> QED
      BY <3>2, Zenon DEF qty
  <2>4. own' \in [Keys -> [short : 0..MaxQty, long : 0..MaxQty]]
    BY <1>a, <2>1, <2>2, Zenon
  <2>5. book' \in [Keys -> 0..MaxQty]
    BY <1>a, <2>1, <2>3, Zenon
  <2>6. halt' \in {"none", "unmatched legs"} \cup Owned
    <3>1. halt' = halt \/ halt' = "unmatched legs"
      BY <2>1, Zenon
    <3> QED
      BY <1>b, <3>1
  <2> QED
    <3>1. UNCHANGED << shared, foreign, streak >>
      BY <1>1, Zenon DEF Open
    <3> QED
      BY <1>a, <1>b, <2>4, <2>5, <2>6, <3>1 DEF TypeOK, RemoveThreshold
<1>2. ASSUME NEW k \in Keys, NEW exit \in Exits, Close(k, exit) PROVE TypeOK'
  <2>1. PICK payload \in Payloads, status \in {"filled", "canceled"},
             fill \in [short : 0..Lesser(book[k], own[k].short),
                       long : 0..Lesser(book[k], own[k].long)] :
               LET result == ExecutionResult(payload, fill, status, book[k])
                   whole == status = "filled" \/ result.contracts >= book[k]
               IN  /\ MayReport(payload, fill, status, book[k])
                   /\ own' = [own EXCEPT ![k] = [short |-> @.short - fill.short,
                                                 long |-> @.long - fill.long]]
                   /\ book' = [book EXCEPT ![k] = IF whole THEN 0 ELSE @ - result.contracts]
                   /\ halt' = IF ~whole /\ result.contracts = 0 /\ exit = "STOP"
                              THEN "failed close" ELSE halt
    BY <1>2, Zenon DEF Close
  <2> DEFINE contracts == ExecutionResult(payload, fill, status, book[k]).contracts
  <2> HIDE DEF contracts
  <2>2. /\ book[k] \in Nat /\ own[k].short \in Nat /\ own[k].long \in Nat
        /\ book[k] <= MaxQty /\ own[k].short <= MaxQty /\ own[k].long <= MaxQty
    BY <1>0, <1>a
  <2>3. /\ fill \in Fills /\ fill.short \in Nat /\ fill.long \in Nat
        /\ fill.short <= own[k].short /\ fill.long <= own[k].long /\ fill.short <= book[k]
    <3>1. fill.short \in 0..Lesser(book[k], own[k].short) /\ fill.long \in 0..Lesser(book[k], own[k].long)
      BY <2>1
    <3>2. /\ Lesser(book[k], own[k].short) \in Nat /\ Lesser(book[k], own[k].long) \in Nat
          /\ Lesser(book[k], own[k].short) <= book[k]
          /\ Lesser(book[k], own[k].short) <= own[k].short
          /\ Lesser(book[k], own[k].long) <= own[k].long
      BY <2>2, LesserOfTwo
    <3>3. fill = [short |-> fill.short, long |-> fill.long]
      BY <2>1
    <3>4. fill.short \in Nat /\ fill.long \in Nat
      BY <3>1, <3>2
    <3>5. fill \in Fills
      BY <3>3, <3>4 DEF Fills
    <3> QED
      BY <2>2, <3>1, <3>2, <3>4, <3>5
  <2>4. contracts \in Nat /\ contracts <= book[k]
    <3>1. contracts \in Nat /\ contracts <= fill.short
      BY <2>1, <2>2, <2>3, ContractsAreCovered, Zenon DEF contracts
    <3> QED
      BY <2>2, <2>3, <3>1
  <2>5. own' \in [Keys -> [short : 0..MaxQty, long : 0..MaxQty]]
    <3>1. [short |-> own[k].short - fill.short, long |-> own[k].long - fill.long]
            \in [short : 0..MaxQty, long : 0..MaxQty]
      BY <1>0, <2>2, <2>3
    <3> QED
      BY <1>a, <2>1, <3>1, Zenon
  <2>6. book' \in [Keys -> 0..MaxQty]
    <3>1. book[k] - contracts \in 0..MaxQty /\ 0 \in 0..MaxQty
      BY <1>0, <2>2, <2>4
    <3>2. \/ book' = [book EXCEPT ![k] = 0]
          \/ book' = [book EXCEPT ![k] = @ - contracts]
      BY <2>1, Zenon DEF contracts
    <3> QED
      BY <1>a, <3>1, <3>2, Zenon
  <2>7. halt' \in {"none", "unmatched legs"} \cup Owned
    <3>1. halt' = halt \/ halt' = "failed close"
      BY <2>1, Zenon
    <3> QED
      BY <1>b, <3>1 DEF Owned
  <2> QED
    <3>1. UNCHANGED << shared, foreign, streak >>
      BY <1>2, Zenon DEF Close
    <3> QED
      BY <1>a, <1>b, <2>5, <2>6, <2>7, <3>1 DEF TypeOK, RemoveThreshold
<1>3. CASE Reconcile
  <2>1. book' \in [Keys -> 0..MaxQty]
    <3>1. book' = [k \in Keys |-> IF k \in Removed(Seen) THEN 0 ELSE book[k]]
      BY <1>3, Zenon DEF Reconcile
    <3> QED
      BY <1>0, <1>a, <3>1
  <2>2. streak' \in [Keys -> 0..RemoveThreshold - 1]
    <3> SUFFICES ASSUME NEW k \in Keys
                 PROVE  (IF k \in Removed(Seen) THEN 0
                         ELSE IF k \in Missing(Seen) THEN streak[k] + 1
                         ELSE IF k \in Tracked THEN 0 ELSE streak[k]) \in 0..1
      BY <1>3 DEF Reconcile, RemoveThreshold
    <3>1. streak[k] \in 0..1
      BY <1>a
    <3>2. k \in Missing(Seen) /\ k \notin Removed(Seen) => streak[k] + 1 <= 1
      BY <3>1 DEF Removed, RemoveThreshold
    <3> QED
      BY <3>1, <3>2
  <2>3. halt' \in {"none", "unmatched legs"} \cup Owned
    <3>1. PICK drift, r : halt' = HaltAfter(drift, r)
      BY <1>3 DEF Reconcile
    <3> QED
      BY <1>b, <3>1 DEF HaltAfter, Owned
  <2> QED
    BY <1>3, <1>a, <1>b, <2>1, <2>2, <2>3 DEF Reconcile, TypeOK
<1>4. ASSUME NEW k \in Keys, ForeignOpens(k) PROVE TypeOK'
  <2>1. \E q \in 1..MaxQty : foreign' = [foreign EXCEPT ![k] = q]
    BY <1>4, Zenon DEF ForeignOpens
  <2>2. foreign' \in [Keys -> 0..MaxQty]
    BY <1>0, <1>a, <2>1
  <2> QED
    BY <1>4, <1>a, <1>b, <2>2 DEF ForeignOpens, TypeOK
<1>5. ASSUME NEW k \in Keys, ForeignCloses(k) PROVE TypeOK'
  <2>1. foreign' = [foreign EXCEPT ![k] = 0]
    BY <1>5, Zenon DEF ForeignCloses
  <2>2. foreign' \in [Keys -> 0..MaxQty]
    BY <1>0, <1>a, <2>1
  <2> QED
    BY <1>5, <1>a, <1>b, <2>2 DEF ForeignCloses, TypeOK
<1>6. ASSUME NEW k \in Keys, ClosedElsewhere(k) PROVE TypeOK'
  <2>1. [short |-> 0, long |-> 0] \in [short : 0..MaxQty, long : 0..MaxQty]
    BY <1>0
  <2> QED
    BY <1>6, <1>a, <1>b, <2>1 DEF ClosedElsewhere, TypeOK
<1>7. CASE OperatorClears
  <2>1. ASSUME NEW k \in Keys
        PROVE  Lesser(book[k], Covered(k)) \in 0..MaxQty
    <3>1. book[k] \in Nat /\ book[k] <= MaxQty /\ own[k].short \in Nat /\ own[k].long \in Nat
      BY <1>0, <1>a
    <3>2. Covered(k) \in Nat
      BY <3>1, LesserOfTwo DEF Covered
    <3> QED
      <4>1. Lesser(book[k], Covered(k)) \in Nat /\ Lesser(book[k], Covered(k)) <= book[k]
        BY <3>1, <3>2, LesserOfTwo
      <4> QED
        BY <1>0, <3>1, <4>1
  <2>2. own' \in [Keys -> [short : 0..MaxQty, long : 0..MaxQty]]
    BY <1>7, <2>1 DEF OperatorClears
  <2>3. halt' \in {"none", "unmatched legs"} \cup Owned
    BY <1>7 DEF OperatorClears
  <2> QED
    BY <1>7, <1>a, <1>b, <2>2, <2>3 DEF OperatorClears, TypeOK
<1>8. CASE UNCHANGED vars
  BY <1>8 DEF vars, TypeOK
<1> QED
  BY <1>1, <1>2, <1>3, <1>4, <1>5, <1>6, <1>7, <1>8 DEF Next

\* Every variable stays in its set, whatever the bot trades.
THEOREM LegTypeCorrect == Spec => []TypeOK
<1>1. Init => TypeOK
  <2>1. MaxQty \in Nat
    BY LegAssumption DEF LegAssumption
  <2> QED
    BY <2>1 DEF Init, TypeOK, RemoveThreshold
<1> QED
  BY <1>1, KeepsTypes, PTL DEF Spec

-----------------------------------------------------------------------------
(* The halt that guards an uncovered short.                                *)

\* When closes fill both legs alike and stops are not looked at, no step but
\* the operator's lifts "unmatched legs", and only an order that sets it may
\* leave a short uncovered.
LEMMA KeepsHalt ==
  ASSUME ~UnevenCloses, "STOP" \notin Exits, TypeOK, UncoveredShortHalts, [Next]_vars
  PROVE  UncoveredShortHalts'
<1>a. own \in [Keys -> [short : 0..MaxQty, long : 0..MaxQty]]
  BY Zenon DEF TypeOK
<1> SUFFICES ASSUME NEW j \in Keys, own'[j].short > own'[j].long
             PROVE  halt' = "unmatched legs"
  BY DEF UncoveredShortHalts
<1>b. own[j].short > own[j].long => halt = "unmatched legs"
  BY DEF UncoveredShortHalts
<1>1. ASSUME NEW k \in Keys, Open(k) PROVE halt' = "unmatched legs"
  <2>0. PICK asked \in 1..MaxQty, payload \in Payloads, status \in {"filled", "canceled"} :
          \E fill \in [short : 0..asked, long : 0..asked] :
               LET result == ExecutionResult(payload, fill, status, asked)
               IN  /\ MayReport(payload, fill, status, asked)
                   /\ own' = [own EXCEPT ![k] = fill]
                   /\ halt' = IF result.balanced THEN halt ELSE "unmatched legs"
    BY <1>1, Zenon DEF Open
  <2>1. PICK fill \in [short : 0..asked, long : 0..asked] :
               LET result == ExecutionResult(payload, fill, status, asked)
               IN  /\ MayReport(payload, fill, status, asked)
                   /\ own' = [own EXCEPT ![k] = fill]
                   /\ halt' = IF result.balanced THEN halt ELSE "unmatched legs"
    BY <2>0, Zenon
  <2>2. halt = "none"
    BY <1>1 DEF Open
  <2>3. j = k
    <3>1. j # k => own'[j] = own[j]
      BY <1>a, <2>1, Zenon
    <3> QED
      BY <1>b, <2>2, <3>1
  <2>4. own'[j] = fill
    BY <1>a, <2>1, <2>3, Zenon
  <2>5. fill.short # fill.long
    <3>1. fill.short \in 0..asked /\ fill.long \in 0..asked
      BY <2>1
    <3> QED
      BY <2>4, <3>1
  <2>6. ~ExecutionResult(payload, fill, status, asked).balanced
    BY <2>1, <2>5, BalancedIsEven, Zenon
  <2> QED
    BY <2>1, <2>6, Zenon
<1>2. ASSUME NEW k \in Keys, NEW exit \in Exits, Close(k, exit) PROVE halt' = "unmatched legs"
  <2>1. PICK fill \in [short : 0..Lesser(book[k], own[k].short),
                       long : 0..Lesser(book[k], own[k].long)] :
               /\ fill.short = fill.long
               /\ own' = [own EXCEPT ![k] = [short |-> @.short - fill.short,
                                             long |-> @.long - fill.long]]
    BY <1>2, Zenon DEF Close
  <2>2. halt' = halt
    BY <1>2, Zenon DEF Close
  <2>3. own[j].short > own[j].long
    <3>1. CASE j = k
      <4>1. own[k].short \in Nat /\ own[k].long \in Nat /\ book[k] \in Nat
        <5>1. MaxQty \in Nat
          BY LegAssumption DEF LegAssumption
        <5>2. book \in [Keys -> 0..MaxQty]
          BY Zenon DEF TypeOK
        <5> QED
          BY <1>a, <5>1, <5>2
      <4>2. fill.short \in Int /\ fill.long \in Int
        <5>1. Lesser(book[k], own[k].short) \in Nat /\ Lesser(book[k], own[k].long) \in Nat
          BY <4>1, LesserOfTwo
        <5> QED
          BY <2>1, <5>1
      <4>3. own'[j] = [short |-> own[k].short - fill.short, long |-> own[k].long - fill.long]
        BY <1>a, <2>1, <3>1
      <4> QED
        BY <2>1, <3>1, <4>1, <4>2, <4>3
    <3>2. CASE j # k
      <4>1. own'[j] = own[j]
        BY <1>a, <2>1, <3>2
      <4> QED
        BY <4>1
    <3> QED
      BY <3>1, <3>2
  <2> QED
    BY <1>b, <2>2, <2>3
<1>3. CASE Reconcile
  <2>1. own' = own
    BY <1>3, Zenon DEF Reconcile
  <2>2. PICK drift, removed : halt' = HaltAfter(drift, removed)
    BY <1>3 DEF Reconcile
  <2> QED
    BY <1>b, <2>1, <2>2 DEF HaltAfter, Owned
<1>4. ASSUME NEW k \in Keys, ForeignOpens(k) \/ ForeignCloses(k) PROVE halt' = "unmatched legs"
  <2>1. own' = own /\ halt' = halt
    BY <1>4 DEF ForeignOpens, ForeignCloses
  <2> QED
    BY <1>b, <2>1
<1>5. ASSUME NEW k \in Keys, ClosedElsewhere(k) PROVE halt' = "unmatched legs"
  <2>1. own' = [own EXCEPT ![k] = [short |-> 0, long |-> 0]] /\ halt' = halt
    BY <1>5 DEF ClosedElsewhere
  <2>2. own'[j] = own[j] \/ own'[j] = [short |-> 0, long |-> 0]
    BY <1>a, <2>1
  <2>3. own'[j] = own[j]
    BY <2>2
  <2> QED
    BY <1>b, <2>1, <2>3
<1>6. CASE OperatorClears
  <2> DEFINE left == Lesser(book[j], Covered(j))
  <2>1. own'[j] = [short |-> left, long |-> left]
    BY <1>6 DEF OperatorClears
  <2>2. left \in Nat
    <3>1. MaxQty \in Nat
      BY LegAssumption DEF LegAssumption
    <3>2. book \in [Keys -> 0..MaxQty]
      BY Zenon DEF TypeOK
    <3>3. book[j] \in Nat /\ own[j].short \in Nat /\ own[j].long \in Nat
      BY <1>a, <3>1, <3>2
    <3>4. Covered(j) \in Nat
      BY <3>3, LesserOfTwo DEF Covered
    <3> QED
      BY <3>3, <3>4, LesserOfTwo, Zenon
  <2> HIDE DEF left
  <2>3. ~(own'[j].short > own'[j].long)
    BY <2>1, <2>2
  <2> QED
    BY <2>3
<1>7. CASE UNCHANGED vars
  BY <1>b, <1>7 DEF vars
<1> QED
  BY <1>1, <1>2, <1>3, <1>4, <1>5, <1>6, <1>7 DEF Next

\* spread_fill.py: while a short of the bot has no long below it, the bot is
\* halted for its unmatched legs.
THEOREM UncoveredShortsHalt ==
  ASSUME ~UnevenCloses, "STOP" \notin Exits
  PROVE  Spec => []UncoveredShortHalts
<1>1. Init => UncoveredShortHalts
  BY DEF Init, UncoveredShortHalts
<1>2. TypeOK /\ UncoveredShortHalts /\ [Next]_vars => UncoveredShortHalts'
  BY KeepsHalt
<1> QED
  BY <1>1, <1>2, LegTypeCorrect, PTL DEF Spec

-----------------------------------------------------------------------------
(* What an order's result does to the book.                                *)

\* The two facts FillsBooked says of a step, for one spread.
BookedWhole(k) == book'[k] > book[k] => book'[k] =< Covered(k)'
DroppedWhole(k) ==
  own[k] # own'[k] /\ book'[k] < book[k] /\ book[k] =< Covered(k)
    => book[k] - book'[k] =< Covered(k) - Covered(k)'

LEMMA OpenBooksWhole ==
  ASSUME TypeOK, NEW k \in Keys, NEW j \in Keys, Open(k)
  PROVE  BookedWhole(j) /\ DroppedWhole(j)
<1>a. own \in [Keys -> [short : 0..MaxQty, long : 0..MaxQty]] /\ book \in [Keys -> 0..MaxQty]
  BY Zenon DEF TypeOK
<1>b. book[j] \in Nat
  BY <1>a, LegAssumption DEF LegAssumption
<1>0. PICK asked \in 1..MaxQty, payload \in Payloads, status \in {"filled", "canceled"} :
        \E fill \in [short : 0..asked, long : 0..asked] :
          LET result == ExecutionResult(payload, fill, status, asked)
          IN  /\ MayReport(payload, fill, status, asked)
              /\ own' = [own EXCEPT ![k] = fill]
              /\ book' = [book EXCEPT ![k] = Booked(result, status, asked)]
              /\ halt' = IF result.balanced THEN halt ELSE "unmatched legs"
  BY Zenon DEF Open
<1>1. PICK fill \in [short : 0..asked, long : 0..asked] :
        /\ MayReport(payload, fill, status, asked)
        /\ own' = [own EXCEPT ![k] = fill]
        /\ book' = [book EXCEPT ![k] = Booked(ExecutionResult(payload, fill, status, asked),
                                              status, asked)]
  BY <1>0, Zenon
<1>2. CASE j # k
  <2>1. book'[j] = book[j]
    BY <1>a, <1>1, <1>2, Zenon
  <2> QED
    BY <1>b, <2>1 DEF BookedWhole, DroppedWhole
<1>3. CASE j = k
  <2> DEFINE qty == Booked(ExecutionResult(payload, fill, status, asked), status, asked)
  <2>1. own'[j] = fill /\ book'[j] = qty
    BY <1>a, <1>1, <1>3, Zenon
  <2>2. asked \in Nat /\ fill \in Fills
    <3>1. asked \in Nat
      BY LegAssumption DEF LegAssumption
    <3>2. fill.short \in Nat /\ fill.long \in Nat
      BY <1>1, <3>1
    <3>3. fill = [short |-> fill.short, long |-> fill.long]
      BY <1>1
    <3> QED
      BY <3>1, <3>2, <3>3 DEF Fills
  <2>3. qty \in Nat /\ qty <= fill.short /\ qty <= fill.long
    BY <1>1, <2>2, BookedIsCovered, Zenon
  <2>4. book[j] = 0
    BY <1>3 DEF Open
  <2>5. Covered(j)' = Lesser(fill.short, fill.long)
    BY <2>1 DEF Covered
  <2> HIDE DEF qty
  <2>6. qty <= Lesser(fill.short, fill.long)
    BY <2>2, <2>3 DEF Lesser, Fills
  <2> QED
    BY <2>1, <2>3, <2>4, <2>5, <2>6 DEF BookedWhole, DroppedWhole
<1> QED
  BY <1>2, <1>3

LEMMA CloseDropsWhole ==
  ASSUME ~UnevenCloses, TypeOK, NEW k \in Keys, NEW exit \in Exits, NEW j \in Keys,
         Close(k, exit)
  PROVE  BookedWhole(j) /\ DroppedWhole(j)
<1>a. own \in [Keys -> [short : 0..MaxQty, long : 0..MaxQty]] /\ book \in [Keys -> 0..MaxQty]
  BY Zenon DEF TypeOK
<1>b. /\ book[j] \in Nat /\ own[j].short \in Nat /\ own[j].long \in Nat
      /\ book[k] \in Nat /\ own[k].short \in Nat /\ own[k].long \in Nat
  <2>1. MaxQty \in Nat
    BY LegAssumption DEF LegAssumption
  <2> QED
    BY <1>a, <2>1
<1>1. PICK payload \in Payloads, status \in {"filled", "canceled"},
           fill \in [short : 0..Lesser(book[k], own[k].short),
                     long : 0..Lesser(book[k], own[k].long)] :
        LET result == ExecutionResult(payload, fill, status, book[k])
            whole == status = "filled" \/ result.contracts >= book[k]
        IN  /\ MayReport(payload, fill, status, book[k])
            /\ fill.short = fill.long
            /\ own' = [own EXCEPT ![k] = [short |-> @.short - fill.short,
                                          long |-> @.long - fill.long]]
            /\ book' = [book EXCEPT ![k] = IF whole THEN 0 ELSE @ - result.contracts]
  BY Zenon DEF Close
<1>2. CASE j # k
  <2>1. book'[j] = book[j]
    BY <1>a, <1>1, <1>2, Zenon
  <2> QED
    BY <1>b, <2>1 DEF BookedWhole, DroppedWhole
<1>3. CASE j = k
  <2> DEFINE contracts == ExecutionResult(payload, fill, status, book[k]).contracts
             filled == fill.short
  <2>1. fill \in Fills /\ filled \in Nat /\ filled <= book[k]
    <3>1. /\ Lesser(book[k], own[k].short) \in Nat /\ Lesser(book[k], own[k].long) \in Nat
          /\ Lesser(book[k], own[k].short) <= book[k]
      BY <1>b, LesserOfTwo
    <3>2. fill.short \in 0..Lesser(book[k], own[k].short) /\ fill.long \in 0..Lesser(book[k], own[k].long)
      BY <1>1
    <3>3. fill = [short |-> fill.short, long |-> fill.long]
      BY <1>1
    <3>4. fill.short \in Nat /\ fill.long \in Nat /\ fill.short <= book[k]
      BY <1>b, <3>1, <3>2
    <3> QED
      BY <3>3, <3>4 DEF Fills
  <2>2. contracts \in Nat /\ contracts <= filled
    BY <1>1, <1>b, <2>1, ContractsAreCovered, Zenon
  <2>3. status = "filled" => filled = book[k]
    BY <1>1 DEF MayReport
  <2>4. own'[k] = [short |-> own[k].short - fill.short, long |-> own[k].long - fill.long]
    BY <1>a, <1>1, Zenon
  <2>5. Covered(k)' = Covered(k) - filled
    <3>1. Covered(k)' = Lesser(own[k].short - fill.short, own[k].long - fill.long)
      BY <2>4 DEF Covered
    <3>2. fill.short = fill.long
      BY <1>1, Zenon
    <3> QED
      BY <1>b, <2>1, <3>1, <3>2 DEF Covered, Lesser
  <2>6. \/ (status = "filled" \/ contracts >= book[k]) /\ book'[k] = 0
        \/ book'[k] = book[k] - contracts
    BY <1>a, <1>1, Zenon
  <2> HIDE DEF contracts, filled
  <2>7. Covered(k) \in Nat
    BY <1>b, LesserOfTwo DEF Covered
  <2>8. book[k] - book'[k] <= filled /\ book'[k] <= book[k]
    BY <1>b, <2>1, <2>2, <2>3, <2>6
  <2>9. book'[k] \in Int
    BY <1>b, <2>2, <2>6
  <2>10. BookedWhole(k)
    BY <1>b, <2>8, <2>9 DEF BookedWhole
  <2>11. DroppedWhole(k)
    BY <1>b, <2>1, <2>5, <2>7, <2>8, <2>9 DEF DroppedWhole
  <2> QED
    BY <1>3, <2>10, <2>11
<1> QED
  BY <1>2, <1>3

LEMMA StepBooksWhole ==
  ASSUME ~UnevenCloses, TypeOK, [Next]_vars, NEW j \in Keys
  PROVE  BookedWhole(j) /\ DroppedWhole(j)
<1>a. book \in [Keys -> 0..MaxQty]
  BY Zenon DEF TypeOK
<1>b. book[j] \in Nat
  BY <1>a, LegAssumption DEF LegAssumption
<1>1. ASSUME NEW k \in Keys, Open(k) PROVE BookedWhole(j) /\ DroppedWhole(j)
  BY <1>1, OpenBooksWhole
<1>2. ASSUME NEW k \in Keys, NEW exit \in Exits, Close(k, exit)
      PROVE  BookedWhole(j) /\ DroppedWhole(j)
  BY <1>2, CloseDropsWhole
<1>3. CASE Reconcile
  <2>1. own' = own
    BY <1>3, Zenon DEF Reconcile
  <2>2. book'[j] = 0 \/ book'[j] = book[j]
    BY <1>3, Zenon DEF Reconcile
  <2> QED
    BY <1>b, <2>1, <2>2 DEF BookedWhole, DroppedWhole
<1>4. CASE book' = book
  BY <1>b, <1>4 DEF BookedWhole, DroppedWhole
<1>5. ASSUME NEW k \in Keys, ForeignOpens(k) \/ ForeignCloses(k) \/ ClosedElsewhere(k)
      PROVE  book' = book
  BY <1>5 DEF ForeignOpens, ForeignCloses, ClosedElsewhere
<1>6. OperatorClears \/ UNCHANGED vars => book' = book
  BY DEF OperatorClears, vars
<1> QED
  BY <1>1, <1>2, <1>3, <1>4, <1>5, <1>6 DEF Next

\* run_entry_cycle and run_management_cycle with build_execution_result: no
\* order books a contract without both its legs, none drops one that is still
\* in the account.
THEOREM FillsAreBooked ==
  ASSUME ~UnevenCloses
  PROVE  Spec => FillsBooked
<1>1. TypeOK /\ [Next]_vars =>
        [\A k \in Keys :
           /\ book'[k] > book[k] => book'[k] =< Covered(k)'
           /\ own[k] # own'[k] /\ book'[k] < book[k] /\ book[k] =< Covered(k)
                => book[k] - book'[k] =< Covered(k) - Covered(k)']_vars
  BY StepBooksWhole DEF BookedWhole, DroppedWhole
<1> QED
  BY <1>1, LegTypeCorrect, PTL DEF Spec, FillsBooked

-----------------------------------------------------------------------------
(* What reconstruct_spreads makes of the account's legs.  Reconstruct is a  *)
(* fold; PairsUpTo is the equation its values meet, and ReadsPairs solves   *)
(* it for an account whose spreads share no strike.                         *)

\* The fold as it is built over the sets of short legs.
PairsUpTo(legs, read) ==
  \A S \in SUBSET ShortLegs(legs) :
    read[S] = IF S = {} THEN {} ELSE PairWith(legs, read[S \ {Min(S)}], Min(S))

\* Strikes are integers; both strikes of a spread are among them.
LEMMA StrikeTypes ==
  /\ Shorts \subseteq Nat /\ IsFiniteSet(Shorts) /\ Wing \in Nat /\ Wing > 0
  /\ Strikes \subseteq Int /\ \A s \in Shorts : s \in Strikes /\ s - Wing \in Strikes
<1>1. Shorts \subseteq Nat /\ IsFiniteSet(Shorts) /\ Wing \in Nat /\ Wing > 0
  BY LegAssumption DEF LegAssumption
<1>2. \A s \in Shorts : s \in Int /\ s - Wing \in Int
  BY <1>1
<1>3. Strikes \subseteq Int
  BY <1>2 DEF Strikes
<1>4. \A s \in Shorts : s \in Strikes /\ s - Wing \in Strikes
  BY DEF Strikes
<1> QED
  BY <1>1, <1>3, <1>4

\* Reconstruct is the last value of such a fold.
LEMMA ReconstructIsBuilt ==
  ASSUME NEW legs, \A x \in Strikes : legs[x] \in Int, ShortLegs(legs) \subseteq Shorts
  PROVE  \E read : PairsUpTo(legs, read) /\ Reconstruct(legs) = read[ShortLegs(legs)]
<1> DEFINE D == ShortLegs(legs)
           Reads(h) == h = [S \in SUBSET D |->
                              IF S = {} THEN {} ELSE PairWith(legs, h[S \ {Min(S)}], Min(S))]
           read == CHOOSE h : Reads(h)
           Longs == {Max(F) : F \in SUBSET Strikes}
           Pairs == [short : Strikes, long : Longs, qty : Int]
           V == SUBSET Pairs
           step == [s \in D |-> [pairs \in V |-> PairWith(legs, pairs, s)]]
           pick == [S \in SUBSET D |-> Min(S)]
<1>1. Reconstruct(legs) = read[D]
  BY Zenon DEF Reconstruct, MapThenFoldSet
<1>2. D \subseteq Nat /\ D \subseteq Strikes /\ IsFiniteSet(D)
  BY StrikeTypes, FS_Subset DEF ShortLegs
<1>3. \A S \in SUBSET D : S # {} => pick[S] \in S
  <2> SUFFICES ASSUME NEW S \in SUBSET D, S # {} PROVE Min(S) \in S
    OBVIOUS
  <2> QED
    BY <1>2, MinIsLeast
<1>4. step \in [D -> [V -> V]]
  <2> SUFFICES ASSUME NEW s \in D, NEW pairs \in V PROVE PairWith(legs, pairs, s) \in V
    OBVIOUS
  <2> DEFINE free == {x \in Strikes : /\ x < s
                                      /\ legs[x] > 0
                                      /\ legs[x] = -legs[s]
                                      /\ \A p \in pairs : p.long # x}
             pair == [short |-> s, long |-> Max(free), qty |-> -legs[s]]
  <2>1. PairWith(legs, pairs, s) = pairs \/ PairWith(legs, pairs, s) = pairs \cup {pair}
    BY Zenon DEF PairWith
  <2>2. Max(free) \in Longs
    OBVIOUS
  <2> HIDE DEF Longs, free
  <2>3. pair \in Pairs
    BY <1>2, <2>2
  <2> QED
    BY <2>1, <2>3
<1>5. PICK iter \in [SUBSET D -> V] : IsFold(D, {}, step, pick, iter)
  <2>1. {} \in V
    OBVIOUS
  <2> HIDE DEF step, pick, V
  <2> QED
    BY <1>2, <1>3, <1>4, <2>1, FoldExists, Zenon
<1>6. Reads(iter)
  <2>1. ASSUME NEW S \in SUBSET D
        PROVE  (IF S = {} THEN {} ELSE step[pick[S]][iter[S \ {pick[S]}]])
                 = (IF S = {} THEN {} ELSE PairWith(legs, iter[S \ {Min(S)}], Min(S)))
    BY <1>3
  <2>2. iter = [S \in SUBSET D |-> IF S = {} THEN {} ELSE step[pick[S]][iter[S \ {pick[S]}]]]
    BY <1>5, Zenon DEF IsFold
  <2> HIDE DEF step, pick
  <2> QED
    BY <2>1, <2>2
<1>7. Reads(read)
  BY <1>6, Zenon
<1>8. PairsUpTo(legs, read)
  <2> HIDE DEF read
  <2> QED
    BY <1>7 DEF PairsUpTo
<1> QED
  BY <1>1, <1>8

\* What the account holds of each spread of an expiration.
HeldAt(e, s) == IF s \in Shorts THEN Held([expiry |-> e, short |-> s]) ELSE 0

\* The spread read when all goes well.
PairOf(e, s) == [short |-> s, long |-> s - Wing, qty |-> HeldAt(e, s)]

\* No spread shares a strike with another or lacks a leg.
Apart == ~Netted /\ \A k \in Keys : Even(k)

\* Each strike has the long of one spread or the short of another, never both.
LEMMA LegsOfApart ==
  ASSUME TypeOK, Apart, NEW e \in Expiries
  PROVE  /\ \A s : HeldAt(e, s) \in Nat /\ (HeldAt(e, s) > 0 => s \in Shorts)
         /\ \A x \in Strikes : Legs(e)[x] = HeldAt(e, x + Wing) - HeldAt(e, x)
         /\ \A x \in Strikes : HeldAt(e, x + Wing) = 0 \/ HeldAt(e, x) = 0
<1>0. own \in [Keys -> [short : 0..MaxQty, long : 0..MaxQty]] /\ foreign \in [Keys -> 0..MaxQty]
      /\ MaxQty \in Nat
  BY LegAssumption, Zenon DEF TypeOK, LegAssumption
<1>1. ASSUME NEW s \in Shorts
      PROVE  LET k == [expiry |-> e, short |-> s]
             IN  /\ k \in Keys /\ own[k].short \in Nat /\ own[k].long \in Nat
                 /\ own[k].short = own[k].long /\ foreign[k] \in Nat
  <2> DEFINE k == [expiry |-> e, short |-> s]
  <2>1. k \in Keys
    BY DEF Keys
  <2>2. own[k].short = own[k].long
    BY <2>1 DEF Apart, Even
  <2> HIDE DEF k
  <2>3. own[k] \in [short : 0..MaxQty, long : 0..MaxQty] /\ foreign[k] \in 0..MaxQty
    BY <1>0, <2>1
  <2> QED
    BY <1>0, <2>1, <2>2, <2>3 DEF k
<1>2. \A s : ShortOf(e, s) = HeldAt(e, s) /\ LongOf(e, s) = HeldAt(e, s)
  BY <1>1 DEF ShortOf, LongOf, HeldAt, Held
<1>3. \A s : HeldAt(e, s) \in Nat /\ (HeldAt(e, s) > 0 => s \in Shorts)
  BY <1>1 DEF HeldAt, Held
<1>4. \A x \in Strikes : Legs(e)[x] = HeldAt(e, x + Wing) - HeldAt(e, x)
  BY <1>2 DEF Legs
<1>5. ASSUME NEW x \in Strikes, HeldAt(e, x + Wing) > 0, HeldAt(e, x) > 0 PROVE FALSE
  <2> DEFINE j == [expiry |-> e, short |-> x + Wing]
             k == [expiry |-> e, short |-> x]
  <2>1. x + Wing \in Shorts /\ x \in Shorts
    BY <1>3, <1>5
  <2>2. j \in Keys /\ k \in Keys /\ j.expiry = k.expiry /\ j.short = k.short + Wing
    BY <2>1 DEF Keys
  <2>3. HeldAt(e, x + Wing) = own[j].short + foreign[j] /\ HeldAt(e, x) = own[k].short + foreign[k]
    BY <2>1 DEF HeldAt, Held
  <2>4. own[j].short = own[j].long
    BY <1>1, <2>1
  <2> HIDE DEF j, k
  <2>5. Netted
    BY <1>5, <2>2, <2>3, <2>4 DEF Netted
  <2> QED
    BY <2>5 DEF Apart
<1>6. \A x \in Strikes : HeldAt(e, x + Wing) = 0 \/ HeldAt(e, x) = 0
  BY <1>3, <1>5
<1> QED
  BY <1>3, <1>4, <1>6

\* The shorts read so far, all of them above the rest, have each its own long.
LEMMA ReadsPairs ==
  ASSUME TypeOK, Apart, NEW e \in Expiries, NEW read, PairsUpTo(Legs(e), read)
  PROVE  read[ShortLegs(Legs(e))] = {PairOf(e, s) : s \in ShortLegs(Legs(e))}
<1> DEFINE legs == Legs(e)
           D == ShortLegs(legs)
           Pairs(S) == {PairOf(e, s) : s \in S}
           Upper(S) == \A s \in S : \A t \in D : t > s => t \in S
           Bad == {S \in SUBSET D : Upper(S) /\ read[S] # Pairs(S)}
<1>1. /\ \A s : HeldAt(e, s) \in Nat /\ (HeldAt(e, s) > 0 => s \in Shorts)
      /\ \A x \in Strikes : legs[x] = HeldAt(e, x + Wing) - HeldAt(e, x)
      /\ \A x \in Strikes : HeldAt(e, x + Wing) = 0 \/ HeldAt(e, x) = 0
  BY LegsOfApart
<1>2. D = {s \in Shorts : HeldAt(e, s) > 0} /\ \A s \in D : legs[s] = -HeldAt(e, s)
  <2> HIDE DEF legs
  <2>1. ASSUME NEW s \in Strikes
        PROVE  /\ legs[s] < 0 <=> HeldAt(e, s) > 0
               /\ legs[s] < 0 => legs[s] = -HeldAt(e, s)
    <3>1. legs[s] = HeldAt(e, s + Wing) - HeldAt(e, s) /\ (HeldAt(e, s + Wing) = 0 \/ HeldAt(e, s) = 0)
      BY <1>1
    <3>2. HeldAt(e, s + Wing) \in Nat /\ HeldAt(e, s) \in Nat
      BY <1>1
    <3> HIDE DEF HeldAt
    <3> QED
      BY <3>1, <3>2
  <2>2. \A s \in Strikes : HeldAt(e, s) > 0 => s \in Shorts
    BY <1>1
  <2>3. \A s \in Shorts : s \in Strikes
    BY StrikeTypes
  <2> QED
    BY <2>1, <2>2, <2>3 DEF ShortLegs
<1>3. D \subseteq Nat /\ IsFiniteSet(D) /\ D \subseteq Shorts
  BY <1>2, StrikeTypes, FS_Subset
<1>4. ASSUME NEW x \in Strikes, legs[x] > 0
      PROVE  x + Wing \in D /\ legs[x] = HeldAt(e, x + Wing)
  BY <1>1, <1>2, <1>4
<1>5. ASSUME NEW s \in D PROVE s - Wing \in Strikes /\ legs[s - Wing] = HeldAt(e, s)
  <2>1. s - Wing \in Strikes /\ (s - Wing) + Wing = s
    BY <1>3, StrikeTypes
  <2> QED
    BY <1>1, <1>2, <2>1
<1> SUFFICES ASSUME Bad # {} PROVE FALSE
  <2>1. Upper(D)
    OBVIOUS
  <2> QED
    BY <2>1
<1>6. PICK S \in Bad : \A x \in S : S \ {x} \notin Bad
  <2>1. Bad \subseteq SUBSET D
    OBVIOUS
  <2> HIDE DEF Bad, D
  <2> QED
    BY <1>3, <2>1, SmallestSubset, Zenon
<1> HIDE DEF legs, D
<1>7. S # {}
  BY <1>6 DEF PairsUpTo, D, legs
<1> DEFINE m == Min(S)
           rest == S \ {m}
<1>8. m \in S /\ \A y \in S : m <= y
  BY <1>3, <1>6, <1>7, MinIsLeast
<1> HIDE DEF m
<1>9. read[rest] = Pairs(rest)
  <2>1. rest \in SUBSET D /\ rest \notin Bad
    BY <1>6, <1>8
  <2>2. Upper(rest)
    <3> SUFFICES ASSUME NEW s \in rest, NEW t \in D, t > s PROVE t \in rest
      OBVIOUS
    <3>1. t \in S /\ m <= s /\ m \in Nat /\ s \in Nat /\ t \in Nat
      BY <1>3, <1>6, <1>8
    <3> QED
      BY <3>1
  <2> QED
    BY <2>1, <2>2
<1>10. m \in D /\ m \in Nat /\ Wing \in Nat /\ Wing > 0 /\ Strikes \subseteq Int
  BY <1>3, <1>6, <1>8, StrikeTypes
<1> DEFINE free == {x \in Strikes : /\ x < m
                                    /\ legs[x] > 0
                                    /\ legs[x] = -legs[m]
                                    /\ \A p \in Pairs(rest) : p.long # x}
<1>11. m - Wing \in free
  <2>1. m - Wing \in Strikes /\ legs[m - Wing] = HeldAt(e, m)
    BY <1>5, <1>10
  <2>2. HeldAt(e, m) \in Nat /\ HeldAt(e, m) > 0 /\ legs[m] = -HeldAt(e, m)
    BY <1>1, <1>2, <1>10
  <2>3. ASSUME NEW s \in rest PROVE PairOf(e, s).long # m - Wing
    <3>1. s \in Nat /\ s # m
      BY <1>3, <1>6
    <3> QED
      BY <1>10, <3>1 DEF PairOf
  <2>4. m - Wing < m /\ legs[m - Wing] > 0 /\ legs[m - Wing] = -legs[m]
    BY <1>10, <2>1, <2>2
  <2> QED
    BY <2>1, <2>3, <2>4
<1>12. ASSUME NEW x \in free PROVE x <= m - Wing
  <2>1. x \in Strikes /\ x \in Int /\ legs[x] > 0
    BY <1>10
  <2>2. x + Wing \in D
    BY <1>4, <2>1
  <2>3. x + Wing \notin rest
    <3>1. x + Wing \in rest => PairOf(e, x + Wing) \in Pairs(rest)
      OBVIOUS
    <3>2. PairOf(e, x + Wing).long = x
      BY <1>10, <2>1 DEF PairOf
    <3>3. \A p \in Pairs(rest) : p.long # x
      BY Zenon
    <3> HIDE DEF free, Pairs, rest
    <3> QED
      BY <3>1, <3>2, <3>3
  <2>4. x + Wing > m => x + Wing \in rest
    BY <1>6, <1>8, <1>10, <2>1, <2>2
  <2> QED
    BY <1>10, <2>1, <2>3, <2>4
<1>13. Max(free) = m - Wing
  <2>1. free \subseteq Int
    BY <1>10
  <2> HIDE DEF free
  <2>2. \A y \in free : m - Wing >= y
    BY <1>10, <1>12, <2>1
  <2>3. Max(free) \in free /\ \A y \in free : Max(free) >= y
    <3>1. \E x \in free : \A y \in free : x >= y
      BY <1>11, <2>2
    <3> QED
      BY <3>1, Zenon DEF Max
  <2>4. \E t \in Int : Max(free) = t /\ m - Wing >= t /\ t >= m - Wing
    BY <1>11, <2>1, <2>2, <2>3, Zenon
  <2> QED
    BY <1>10, <2>4
<1>14. read[S] = PairWith(legs, Pairs(rest), m)
  <2>1. read[S] = PairWith(legs, read[S \ {Min(S)}], Min(S))
    BY <1>6, <1>7, Zenon DEF PairsUpTo, legs, D
  <2> QED
    BY <1>9, <2>1 DEF m
<1>15. PairWith(legs, Pairs(rest), m)
         = Pairs(rest) \cup {[short |-> m, long |-> Max(free), qty |-> -legs[m]]}
  BY <1>11, Zenon DEF PairWith
<1>16. [short |-> m, long |-> Max(free), qty |-> -legs[m]] = PairOf(e, m)
  <2>1. -legs[m] = HeldAt(e, m)
    BY <1>1, <1>2, <1>10
  <2> QED
    BY <1>13, <2>1 DEF PairOf
<1>17. Pairs(rest) \cup {PairOf(e, m)} = Pairs(S)
  BY <1>8
<1>18. read[S] # Pairs(S)
  BY <1>6
<1> QED
  BY <1>14, <1>15, <1>16, <1>17, <1>18, Zenon

\* What a read shows is what the account holds.
LEMMA SeenIsHeld ==
  ASSUME TypeOK, Apart, NEW e \in Expiries
  PROVE  Seen[e] = {PairOf(e, s) : s \in {t \in Shorts : HeldAt(e, t) > 0}}
<1> DEFINE legs == Legs(e)
<1>1. /\ \A s : HeldAt(e, s) \in Nat /\ (HeldAt(e, s) > 0 => s \in Shorts)
      /\ \A x \in Strikes : legs[x] = HeldAt(e, x + Wing) - HeldAt(e, x)
      /\ \A x \in Strikes : HeldAt(e, x + Wing) = 0 \/ HeldAt(e, x) = 0
  BY LegsOfApart
<1> HIDE DEF legs
<1>2. ASSUME NEW x \in Strikes
      PROVE  legs[x] \in Int /\ (legs[x] < 0 <=> HeldAt(e, x) > 0)
  <2>1. legs[x] = HeldAt(e, x + Wing) - HeldAt(e, x) /\ (HeldAt(e, x + Wing) = 0 \/ HeldAt(e, x) = 0)
    BY <1>1
  <2>2. HeldAt(e, x + Wing) \in Nat /\ HeldAt(e, x) \in Nat
    BY <1>1
  <2> HIDE DEF HeldAt
  <2> QED
    BY <2>1, <2>2
<1>3. ShortLegs(legs) = {t \in Shorts : HeldAt(e, t) > 0}
  <2>1. \A s \in Strikes : HeldAt(e, s) > 0 => s \in Shorts
    BY <1>1
  <2>2. \A s \in Shorts : s \in Strikes
    BY StrikeTypes
  <2> QED
    BY <1>2, <2>1, <2>2 DEF ShortLegs
<1>4. ShortLegs(legs) \subseteq Shorts
  BY <1>3
<1>5. PICK read : PairsUpTo(legs, read) /\ Reconstruct(legs) = read[ShortLegs(legs)]
  <2>1. \A x \in Strikes : legs[x] \in Int
    BY <1>2
  <2> QED
    BY <1>4, <2>1, ReconstructIsBuilt, Zenon
<1>6. read[ShortLegs(legs)] = {PairOf(e, s) : s \in ShortLegs(legs)}
  BY <1>5, ReadsPairs DEF legs
<1>7. Seen[e] = Reconstruct(legs)
  BY Zenon DEF Seen, legs
<1> QED
  BY <1>3, <1>5, <1>6, <1>7

\* feeds.py: while no two spreads share a strike and no leg is missing,
\* reconstruct_spreads makes of the netted legs exactly the spreads held.
THEOREM AccountIsRead == Spec => []ReadsExactly
<1>1. TypeOK => ReadsExactly
  <2> SUFFICES ASSUME TypeOK, Apart, NEW e \in Expiries
               PROVE  Seen[e] = {[short |-> k.short, long |-> k.short - Wing, qty |-> Held(k)] :
                                   k \in {j \in Keys : j.expiry = e /\ Held(j) > 0}}
    BY DEF ReadsExactly, Apart
  <2> DEFINE spreads == {j \in Keys : j.expiry = e /\ Held(j) > 0}
             shorts == {t \in Shorts : HeldAt(e, t) > 0}
             Row(k) == [short |-> k.short, long |-> k.short - Wing, qty |-> Held(k)]
  <2>1. ASSUME NEW t \in shorts PROVE \E k \in spreads : PairOf(e, t) = Row(k)
    <3> DEFINE k == [expiry |-> e, short |-> t]
    <3>1. k \in Keys /\ k.expiry = e /\ k.short = t
      BY DEF Keys
    <3>2. Held(k) = HeldAt(e, t)
      BY DEF HeldAt
    <3> HIDE DEF k
    <3>3. k \in spreads /\ PairOf(e, t) = Row(k)
      BY <3>1, <3>2 DEF PairOf
    <3> QED
      BY <3>3, Zenon
  <2>2. ASSUME NEW k \in spreads PROVE \E t \in shorts : PairOf(e, t) = Row(k)
    <3>1. k.short \in Shorts /\ k = [expiry |-> e, short |-> k.short]
      BY DEF Keys
    <3>2. HeldAt(e, k.short) = Held(k)
      BY <3>1 DEF HeldAt
    <3>3. k.short \in shorts /\ PairOf(e, k.short) = Row(k)
      BY <3>1, <3>2 DEF PairOf
    <3> QED
      BY <3>3, Zenon
  <2>3. Seen[e] = {PairOf(e, t) : t \in shorts}
    BY SeenIsHeld
  <2> HIDE DEF spreads, shorts, Row
  <2>4. Seen[e] = {Row(k) : k \in spreads}
    BY <2>1, <2>2, <2>3
  <2> QED
    BY <2>4 DEF spreads, Row
<1> QED
  BY <1>1, LegTypeCorrect, PTL

-----------------------------------------------------------------------------
(* What run_reconcile_cycle makes of such a read.                          *)

\* The quantity it finds for a spread is the one held.
LEMMA QtyIsHeld ==
  ASSUME TypeOK, Apart, NEW k \in Keys
  PROVE  /\ SeenQty(Seen, k) = Held(k) /\ Held(k) \in Nat
         /\ Held(k) > 0 => \E p \in Seen[k.expiry] : p.short = k.short
<1> DEFINE e == k.expiry
           s == k.short
           same == {p \in Seen[e] : p.short = s /\ p.long = s - Wing}
<1>1. e \in Expiries /\ s \in Shorts /\ k = [expiry |-> e, short |-> s]
  BY DEF Keys
<1>2. HeldAt(e, s) = Held(k)
  BY <1>1 DEF HeldAt
<1> HIDE DEF e, s
<1>3. Held(k) \in Nat
  BY <1>1, <1>2, LegsOfApart, Zenon
<1>4. Seen[e] = {PairOf(e, t) : t \in {x \in Shorts : HeldAt(e, x) > 0}}
  BY <1>1, SeenIsHeld
<1>5. \A p \in same : p.qty = Held(k) /\ Held(k) > 0
  BY <1>2, <1>4 DEF PairOf
<1>6. ASSUME Held(k) > 0 PROVE PairOf(e, s) \in same
  BY <1>1, <1>2, <1>4, <1>6 DEF PairOf
<1>7. SeenQty(Seen, k) = IF same = {} THEN 0 ELSE (CHOOSE p \in same : TRUE).qty
  BY Zenon DEF SeenQty, e, s
<1> HIDE DEF same
<1>8. CASE same = {}
  BY <1>3, <1>6, <1>7, <1>8
<1>9. CASE same # {}
  <2>1. (CHOOSE p \in same : TRUE) \in same
    BY <1>9
  <2>2. SeenQty(Seen, k) = (CHOOSE p \in same : TRUE).qty
    BY <1>7, <1>9
  <2> HIDE DEF SeenQty
  <2> QED
    BY <1>3, <1>5, <2>1, <2>2, <1>6 DEF same, e, s
<1> QED
  BY <1>3, <1>8, <1>9, <1>6

\* What a close asks of the account and of the book.
LEMMA CloseOrder ==
  ASSUME NEW j \in Keys, NEW exit, Close(j, exit)
  PROVE  \E payload \in Payloads, status \in {"filled", "canceled"},
            fill \in [short : 0..Lesser(book[j], own[j].short),
                      long : 0..Lesser(book[j], own[j].long)] :
             LET result == ExecutionResult(payload, fill, status, book[j])
                 whole == status = "filled" \/ result.contracts >= book[j]
             IN  /\ MayReport(payload, fill, status, book[j])
                 /\ own' = [own EXCEPT ![j] = [short |-> @.short - fill.short,
                                               long |-> @.long - fill.long]]
                 /\ book' = [book EXCEPT ![j] = IF whole THEN 0 ELSE @ - result.contracts]
                 /\ halt' = IF ~whole /\ result.contracts = 0 /\ exit = "STOP"
                            THEN "failed close" ELSE halt
  BY Zenon DEF Close

\* Nothing but a read that misses it drops a position while no leg moves.
LEMMA StepKeepsHeld ==
  ASSUME TypeOK, [Next]_vars, NEW k \in Tracked, book'[k] = 0, own' = own, Apart
  PROVE  Held(k) = 0
<1>0. MaxQty \in Nat /\ k \in Keys /\ book[k] > 0 /\ book' # book
  BY LegAssumption DEF LegAssumption, Tracked
<1>a. own \in [Keys -> [short : 0..MaxQty, long : 0..MaxQty]] /\ book \in [Keys -> 0..MaxQty]
  BY Zenon DEF TypeOK
<1>b. book[k] \in Nat /\ own[k].short \in Nat /\ own[k].long \in Nat
  BY <1>0, <1>a
<1>1. ASSUME NEW j \in Keys, Open(j) PROVE FALSE
  <2>1. PICK qty : book' = [book EXCEPT ![j] = qty]
    BY <1>1, Zenon DEF Open
  <2>2. book[j] = 0
    BY <1>1 DEF Open
  <2>3. k # j
    BY <1>0, <1>b, <2>2
  <2>4. book'[k] = book[k]
    BY <1>0, <1>a, <2>1, <2>3, Zenon
  <2> QED
    BY <1>0, <2>4
<1>2. ASSUME NEW j \in Keys, NEW exit \in Exits, Close(j, exit) PROVE FALSE
  <2>1. PICK payload \in Payloads, status \in {"filled", "canceled"},
             fill \in [short : 0..Lesser(book[j], own[j].short),
                       long : 0..Lesser(book[j], own[j].long)] :
          LET result == ExecutionResult(payload, fill, status, book[j])
              whole == status = "filled" \/ result.contracts >= book[j]
          IN  /\ MayReport(payload, fill, status, book[j])
              /\ own' = [own EXCEPT ![j] = [short |-> @.short - fill.short,
                                            long |-> @.long - fill.long]]
              /\ book' = [book EXCEPT ![j] = IF whole THEN 0 ELSE @ - result.contracts]
              /\ halt' = IF ~whole /\ result.contracts = 0 /\ exit = "STOP"
                         THEN "failed close" ELSE halt
    BY <1>2, CloseOrder, Zenon
  <2>2. CASE k # j
    <3>1. book'[k] = book[k]
      BY <1>0, <1>a, <2>1, <2>2, Zenon
    <3> QED
      BY <1>0, <3>1
  <2>3. CASE k = j
    <3> DEFINE contracts == ExecutionResult(payload, fill, status, book[k]).contracts
    <3>1. /\ MayReport(payload, fill, status, book[k])
          /\ own'[k] = [short |-> own[k].short - fill.short, long |-> own[k].long - fill.long]
          /\ \/ (status = "filled" \/ contracts >= book[k]) /\ book'[k] = 0
             \/ book'[k] = book[k] - contracts
      BY <1>0, <1>a, <2>1, <2>3, Zenon
    <3>2. fill.short \in Nat /\ fill.long \in Nat /\ fill \in Fills
      <4>1. /\ Lesser(book[k], own[k].short) \in Nat
            /\ Lesser(book[k], own[k].long) \in Nat
        BY <1>b, LesserOfTwo
      <4>2. fill \in [short : 0..Lesser(book[k], own[k].short),
                      long : 0..Lesser(book[k], own[k].long)]
        BY <2>1, <2>3
      <4>3. fill = [short |-> fill.short, long |-> fill.long]
            /\ fill.short \in Nat /\ fill.long \in Nat
        BY <4>1, <4>2
      <4> QED
        BY <4>3 DEF Fills
    <3>3. fill.short = 0 /\ fill.long = 0
      <4>1. own[k].short = own[k].short - fill.short /\ own[k].long = own[k].long - fill.long
        BY <3>1
      <4> QED
        BY <1>b, <3>2, <4>1
    <3>4. contracts \in Nat /\ contracts <= fill.short
      BY <1>b, <3>1, <3>2, ContractsAreCovered, Zenon
    <3> HIDE DEF contracts
    <3>5. status = "filled" => book[k] = 0
      BY <3>1, <3>3 DEF MayReport
    <3> QED
      BY <1>0, <1>b, <3>1, <3>3, <3>4, <3>5
  <2> QED
    BY <2>2, <2>3
<1>3. CASE Reconcile
  <2>1. book' = [j \in Keys |-> IF j \in Removed(Seen) THEN 0 ELSE book[j]]
    BY <1>3, Zenon DEF Reconcile
  <2>2. k \in Removed(Seen)
    BY <1>0, <2>1
  <2>3. SeenQty(Seen, k) = 0
    BY <2>2 DEF Removed, Missing
  <2> QED
    BY <1>0, <2>3, QtyIsHeld
<1>4. ASSUME NEW j \in Keys, ForeignOpens(j) \/ ForeignCloses(j) \/ ClosedElsewhere(j)
      PROVE  FALSE
  BY <1>0, <1>4 DEF ForeignOpens, ForeignCloses, ClosedElsewhere
<1>5. ~OperatorClears /\ ~UNCHANGED vars
  BY <1>0 DEF OperatorClears, vars
<1> QED
  BY <1>1, <1>2, <1>3, <1>4, <1>5 DEF Next

\* What a read that finds no drift knows of a spread.
LEMMA ReadSeesAll ==
  ASSUME TypeOK, Reconcile, halt' = "none", Apart, NEW k \in Keys
  PROVE  \/ streak'[k] > 0
         \/ book'[k] = Held(k)
         \/ shared /\ book'[k] =< Held(k)
<1>0. MaxQty \in Nat /\ SeenQty(Seen, k) = Held(k) /\ Held(k) \in Nat
  BY LegAssumption, QtyIsHeld DEF LegAssumption
<1>a. /\ book \in [Keys -> 0..MaxQty] /\ streak \in [Keys -> 0..RemoveThreshold - 1]
      /\ shared \in BOOLEAN
  BY Zenon DEF TypeOK
<1>b. book[k] \in Nat /\ streak[k] \in Nat
  <2>1. RemoveThreshold - 1 = 1
    BY DEF RemoveThreshold
  <2> QED
    BY <1>0, <1>a, <2>1
<1>1. Untracked(Seen) = {} /\ Mismatch(Seen) = {}
  <2>1. halt' = HaltAfter(Untracked(Seen) # {} \/ Mismatch(Seen) # {}, Removed(Seen))
    BY Zenon DEF Reconcile
  <2> DEFINE drift == Untracked(Seen) # {} \/ Mismatch(Seen) # {}
  <2>2. drift => HaltAfter(drift, Removed(Seen)) # "none"
    <3> HIDE DEF drift
    <3> QED
      BY DEF HaltAfter, Owned
  <2> QED
    BY <2>1, <2>2
<1>2. book'[k] = (IF k \in Removed(Seen) THEN 0 ELSE book[k])
  BY Zenon DEF Reconcile
<1>3. CASE k \in Missing(Seen)
  <2>1. k \in Removed(Seen) => book'[k] = Held(k)
    <3>1. SeenQty(Seen, k) = 0
      BY <1>3 DEF Missing
    <3> QED
      BY <1>0, <1>2, <3>1
  <2>2. k \notin Removed(Seen) => streak'[k] = streak[k] + 1
    BY <1>3, Zenon DEF Reconcile
  <2> QED
    BY <1>b, <2>1, <2>2
<1>4. CASE k \in Tracked /\ k \notin Missing(Seen)
  <2>1. book'[k] = book[k]
    BY <1>2, <1>4 DEF Removed
  <2>2. k \in Tracked \ Missing(Seen) /\ k \notin Mismatch(Seen)
    BY <1>1, <1>4
  <2>3. ~(IF shared THEN SeenQty(Seen, k) < book[k] ELSE SeenQty(Seen, k) # book[k])
    BY <2>2, Zenon DEF Mismatch
  <2>4. CASE shared
    <3>1. ~(SeenQty(Seen, k) < book[k])
      BY <2>3, <2>4, Zenon
    <3>2. book'[k] =< Held(k)
      BY <1>0, <1>b, <2>1, <3>1
    <3> QED
      BY <2>4, <3>2, Zenon
  <2>5. CASE ~shared
    BY <1>0, <2>1, <2>3, <2>5, Zenon
  <2> QED
    BY <2>4, <2>5
<1>5. CASE k \notin Tracked
  <2>1. book[k] = 0 /\ k \notin Removed(Seen)
    BY <1>b, <1>5 DEF Tracked, Removed, Missing
  <2>2. book'[k] = 0
    BY <1>2, <2>1
  <2>3. CASE shared
    <3>1. book'[k] =< Held(k)
      BY <1>0, <2>2
    <3> QED
      BY <2>3, <3>1, Zenon
  <2>4. CASE ~shared
    <3>1. ASSUME Held(k) > 0 PROVE FALSE
      <4>1. PICK p \in Seen[k.expiry] : p.short = k.short
        BY <3>1, QtyIsHeld
      <4>2. k.expiry \in Expiries
        BY DEF Keys
      <4>3. IsTracked(k.expiry, p)
        BY <1>1, <2>4, <4>2, Zenon DEF Untracked
      <4>4. PICK j \in Tracked : j.expiry = k.expiry /\ j.short = k.short
        BY <4>1, <4>3 DEF IsTracked
      <4>5. j = k
        BY <4>4 DEF Tracked, Keys
      <4> QED
        BY <1>5, <4>5
    <3> QED
      BY <1>0, <2>2, <3>1
  <2> QED
    BY <2>3, <2>4
<1> QED
  BY <1>3, <1>4, <1>5

\* run_reconcile_cycle on what reconstruct_spreads gives it: while no two
\* spreads share a strike, it drops no position that is still in the account
\* (nor does any step that fills nothing), and where it finds no drift and
\* waits for no second read, the book is the account.
THEOREM BooksAreKept == Spec => ReadsKeepBooks
<1>1. TypeOK /\ [Next]_vars =>
        [\A k \in Tracked :
           (/\ book'[k] = 0 /\ UNCHANGED own
            /\ \A j \in Keys : Even(j)
            /\ ~Netted) => Held(k) = 0]_vars
  BY StepKeepsHeld DEF Apart
<1>2. TypeOK /\ [Next]_vars =>
        [Reconcile /\ halt' = "none" /\ ~Netted /\ (\A k \in Keys : Even(k)) =>
           \A k \in Keys : \/ streak'[k] > 0
                           \/ book'[k] = Held(k)
                           \/ shared /\ book'[k] =< Held(k)]_vars
  BY ReadSeesAll DEF Apart
<1> QED
  BY <1>1, <1>2, LegTypeCorrect, PTL DEF Spec, ReadsKeepBooks, KeepsHeld, NoBlindRead
=============================================================================
