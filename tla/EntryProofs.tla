----------------------------- MODULE EntryProofs -----------------------------
(***************************************************************************)
(* What an entry cycle promises, for every market and every book: a list   *)
(* of gates lets a cycle pass only when none of them blocks; a quantity    *)
(* sized to the limits is within each of them, and the position it opens   *)
(* leaves the whole book within every limit; two positions never share     *)
(* strikes and expiration; the bot's account of the day and of the other   *)
(* programs is sound; and the cycle's gates agree with the pre-selection's.*)
(***************************************************************************)
EXTENDS EntryCycle, FoldProofs, SequenceTheorems

\* FirstReason, the cascade of early returns: none of the gates blocks.
LEMMA GoPassesEveryGate ==
  ASSUME NEW gates, DOMAIN gates \subseteq Nat,
         \A i \in DOMAIN gates : gates[i].reason # "go",
         FirstReason(gates) = "go"
  PROVE  \A i \in DOMAIN gates : ~gates[i].blocks
<1> DEFINE blocking == {i \in DOMAIN gates : gates[i].blocks}
<1>1. blocking # {} => FirstReason(gates) = gates[Min(blocking)].reason
  BY Zenon DEF FirstReason
<1>2. blocking # {} => Min(blocking) \in blocking
  BY MinIsLeast
<1>3. blocking = {}
  BY <1>1, <1>2
<1> QED
  BY <1>3

\* The last gate of CreditReason.
LEMMA NoDuplicateStrikes ==
  ASSUME NEW in, NEW c, CreditReason(in, c) = "go"
  PROVE  \A p \in book : ~(p.short = c.quote.short /\ p.expiry = c.expiry)
<1> DEFINE safe == LowCreditLane /\ LowCreditSafe(c.quote, c.credit, in.riskOff)
           rejects == c.lane.tier = "reject"
           unsafe == c.lane.tier = "low_credit_safety" /\ ~safe
           costs == CreditTiers /\ ~PaysCosts(c.credit)
           doubles == \E p \in book : p.short = c.quote.short /\ p.expiry = c.expiry
           gates == << Gate(rejects, "credit_too_low"), Gate(unsafe, "credit_too_low"),
                       Gate(costs, "cost_gate"), Gate(doubles, "duplicate_strikes") >>
<1>1. FirstReason(gates) = "go"
  BY DEF CreditReason
<1> HIDE DEF rejects, unsafe, costs, doubles
<1>2. DOMAIN gates = 1..4
  OBVIOUS
<1>3. \A i \in 1..4 : gates[i].reason # "go"
  BY DEF Gate
<1>4. ~gates[4].blocks
  <2>1. DOMAIN gates \subseteq Nat /\ 4 \in DOMAIN gates
    BY <1>2
  <2>2. \A i \in DOMAIN gates : gates[i].reason # "go"
    BY <1>2, <1>3
  <2> HIDE DEF gates
  <2> QED
    BY <1>1, <2>1, <2>2, GoPassesEveryGate
<1>5. gates[4] = Gate(doubles, "duplicate_strikes")
  OBVIOUS
<1>6. Gate(doubles, "duplicate_strikes").blocks <=> doubles
  BY Zenon DEF Gate
<1>7. ~doubles
  <2> HIDE DEF gates
  <2> QED
    BY <1>4, <1>5, <1>6, Zenon
<1> QED
  BY <1>7, Zenon DEF doubles

-----------------------------------------------------------------------------
(* Sizing.                                                                 *)

\* The strictest of the binding caps exists, and no other allows less.
LEMMA StrictestIsLeast ==
  ASSUME NEW caps, DOMAIN caps \subseteq Nat, \A i \in DOMAIN caps : caps[i].most \in Nat,
         Binding(caps) # {}
  PROVE  /\ Strictest(caps) \in Binding(caps)
         /\ \A j \in Binding(caps) : caps[Strictest(caps)].most <= caps[j].most
<1> DEFINE binding == Binding(caps)
           most(i) == caps[i].most
<1>0. binding # {} /\ binding \subseteq Nat /\ \A i \in binding : most(i) \in Nat
  BY Zenon DEF Binding
<1>1. PICK least \in {most(i) : i \in binding} : \A q \in {most(i) : i \in binding} : least <= q
  <2>1. {most(i) : i \in binding} \subseteq Nat /\ {most(i) : i \in binding} # {}
    BY <1>0
  <2> QED
    BY <2>1, LeastNatural
<1>2. PICK first \in {i \in binding : most(i) = least} :
        \A j \in {i \in binding : most(i) = least} : first <= j
  <2>1. {i \in binding : most(i) = least} \subseteq Nat /\ {i \in binding : most(i) = least} # {}
    BY <1>0, <1>1
  <2> QED
    BY <2>1, LeastNatural
<1>3. ASSUME NEW j \in binding
      PROVE  most(first) < most(j) \/ (most(first) = most(j) /\ first <= j)
  <2>1. least \in Nat /\ most(j) \in Nat /\ least <= most(j) /\ most(first) = least
    BY <1>0, <1>1, <1>2
  <2>2. most(j) = least => first <= j
    BY <1>2
  <2> QED
    BY <2>1, <2>2
<1>4. \E i \in binding : \A j \in binding : caps[i].most < caps[j].most
                                             \/ (caps[i].most = caps[j].most /\ i <= j)
  BY <1>2, <1>3
<1>5. /\ Strictest(caps) \in binding
      /\ \A j \in binding : caps[Strictest(caps)].most < caps[j].most
                            \/ caps[Strictest(caps)].most = caps[j].most
  BY <1>4, Zenon DEF Strictest
<1> QED
  BY <1>0, <1>5

\* size_to_risk_limits: never more than was asked for, never more than any cap
\* that does not abstain allows.
THEOREM EveryCapHolds ==
  ASSUME NEW caps, DOMAIN caps \subseteq Nat, \A i \in DOMAIN caps : caps[i].most \in Nat,
         NEW requested \in Nat
  PROVE  LET qty == SizeToLimits(requested, caps).qty
         IN  /\ qty \in Nat /\ qty <= requested
             /\ \A i \in Binding(caps) : qty <= caps[i].most
<1> DEFINE qty == SizeToLimits(requested, caps).qty
<1>1. CASE requested = 0
  <2>1. qty = 0
    BY <1>1 DEF SizeToLimits
  <2>2. \A i \in Binding(caps) : caps[i].most \in Nat
    BY Zenon DEF Binding
  <2> HIDE DEF qty
  <2>3. qty \in Nat /\ qty <= requested /\ \A i \in Binding(caps) : qty <= caps[i].most
    BY <2>1, <2>2
  <2> QED
    BY <2>3 DEF qty
<1>2. CASE requested > 0 /\ Binding(caps) = {}
  <2>1. qty = requested
    BY <1>2 DEF SizeToLimits
  <2> QED
    BY <1>2, <2>1
<1>3. CASE requested > 0 /\ Binding(caps) # {}
  <2> DEFINE most == caps[Strictest(caps)].most
  <2>1. qty = Smaller(requested, most)
    BY <1>3 DEF SizeToLimits
  <2>2. most \in Nat /\ \A i \in Binding(caps) : most <= caps[i].most /\ caps[i].most \in Nat
    BY <1>3, StrictestIsLeast, Zenon DEF Binding
  <2> HIDE DEF most, qty
  <2>3. qty \in Nat /\ qty <= requested /\ qty <= most
    BY <2>1, <2>2 DEF Smaller
  <2>4. \A i \in Binding(caps) : qty <= caps[i].most
    BY <2>2, <2>3
  <2> QED
    BY <2>3, <2>4 DEF qty
<1> QED
  BY <1>1, <1>2, <1>3

-----------------------------------------------------------------------------
(* What a cap stands for.                                                  *)

\* Exposure and order together stay within the limit of the cap.
KeepsLimit(cap, qty) == cap.exposure + cap.each * qty <= cap.limit

\* What the fields of a cap are.
LEMMA CapFields ==
  ASSUME NEW name, NEW most, NEW exposure, NEW limit, NEW each
  PROVE  /\ Cap(name, most, exposure, limit, each).most = Larger(0, most)
         /\ Cap(name, most, exposure, limit, each).exposure = exposure
         /\ Cap(name, most, exposure, limit, each).limit = limit
         /\ Cap(name, most, exposure, limit, each).each = each
         /\ ~Cap(name, most, exposure, limit, each).abstains
BY DEF Cap

\* As many units as fit the room, whole, are within the room.
LEMMA QuotientFits ==
  ASSUME NEW room \in Int, NEW each \in Int, each > 0, NEW qty \in Int, qty > 0,
         qty <= Larger(0, room) \div each
  PROVE  each * qty <= room
<1> DEFINE total == Larger(0, room)
<1>1. total \in Nat /\ (total = room \/ total = 0)
  BY DEF Larger
<1> HIDE DEF total
<1>2. total \div each \in Nat /\ (total \div each) * each <= total
  BY <1>1, SMTT(30)
<1>3. qty <= total \div each
  BY DEF total
<1>4. qty * each <= (total \div each) * each
  BY <1>2, <1>3, SMTT(30)
<1>5. each * qty <= total
  BY <1>1, <1>2, <1>4, SMTT(30)
<1>6. each * qty > 0
  BY SMTT(30)
<1> QED
  BY <1>1, <1>5, <1>6

\* risk_budget.py: a budget permits what is left of it, by whole contracts.
LEMMA BudgetKeepsLimit ==
  ASSUME NEW name, NEW exposure \in Int, NEW limit \in Int, NEW each \in Int,
         NEW qty \in Nat, qty > 0, qty <= CapFromBudget(name, exposure, limit, each).most
  PROVE  KeepsLimit(CapFromBudget(name, exposure, limit, each), qty)
<1> DEFINE cap == CapFromBudget(name, exposure, limit, each)
           most == IF each <= 0 THEN 0 ELSE Larger(0, limit - exposure) \div each
<1>1. cap.most = Larger(0, most)
  BY DEF CapFromBudget, Cap
<1>2. cap.exposure = exposure /\ cap.limit = limit /\ cap.each = each
  BY DEF CapFromBudget, Cap
<1>3. qty <= Larger(0, most)
  BY <1>1
<1>4. each > 0
  BY <1>3 DEF Larger
<1>5. most \in Int
  <2>1. Larger(0, limit - exposure) \in Nat
    BY DEF Larger
  <2> QED
    BY <1>4, <2>1, SMTT(30)
<1>6. qty <= Larger(0, limit - exposure) \div each
  BY <1>3, <1>4, <1>5 DEF Larger
<1>7. each * qty <= limit - exposure
  BY <1>4, <1>6, QuotientFits
<1>8. each * qty \in Int
  OBVIOUS
<1> HIDE DEF cap, most
<1>9. KeepsLimit(cap, qty)
  BY <1>2, <1>7, <1>8 DEF KeepsLimit
<1> QED
  BY <1>9 DEF cap

\* gap_stress.py: the same, and a scenario that abstains has its book within
\* the limit and loses nothing more.
LEMMA GapKeepsLimit ==
  ASSUME NEW name, NEW booked \in Int, NEW withOne \in Int, NEW limit \in Int,
         NEW qty \in Nat, qty > 0,
         GapCap(name, booked, withOne, limit).abstains
           \/ qty <= GapCap(name, booked, withOne, limit).most
  PROVE  KeepsLimit(GapCap(name, booked, withOne, limit), qty)
<1> DEFINE each == Larger(0, withOne - booked)
           left == Larger(0, limit - booked)
           cap == GapCap(name, booked, withOne, limit)
<1>0. each \in Nat /\ left \in Nat
  BY DEF Larger
<1>1. CASE each > 0
  <2>1. cap = Cap(name, left \div each, booked, limit, each)
    BY <1>1, Zenon DEF GapCap
  <2> HIDE DEF cap
  <2>2. /\ cap.most = Larger(0, left \div each) /\ cap.exposure = booked
        /\ cap.limit = limit /\ cap.each = each
    BY <2>1, CapFields
  <2>3. ~cap.abstains
    BY <2>1, CapFields
  <2>4. qty <= Larger(0, left \div each)
    <3>1. qty <= cap.most
      BY <2>3, Zenon DEF cap
    <3> QED
      BY <2>2, <3>1
  <2>5. left \div each \in Nat
    BY <1>0, <1>1, SMTT(30)
  <2>6. qty <= left \div each
    BY <2>4, <2>5 DEF Larger
  <2>7. each * qty <= limit - booked
    BY <1>0, <1>1, <2>6, QuotientFits
  <2> HIDE DEF each
  <2>8. KeepsLimit(cap, qty)
    BY <1>0, <2>2, <2>7 DEF KeepsLimit
  <2> QED
    BY <2>8 DEF cap
<1>2. CASE each = 0 /\ booked <= limit
  <2>1. cap = Abstention(name, booked, limit)
    BY <1>2 DEF GapCap
  <2>2. cap.exposure = booked /\ cap.limit = limit /\ cap.each = 0
    BY <2>1 DEF Abstention
  <2> HIDE DEF cap
  <2>3. KeepsLimit(cap, qty)
    BY <1>2, <2>2 DEF KeepsLimit
  <2> QED
    BY <2>3 DEF cap
<1>3. CASE each = 0 /\ ~(booked <= limit)
  <2>1. cap = Cap(name, 0, booked, limit, 0)
    BY <1>3 DEF GapCap
  <2> HIDE DEF cap
  <2>2. cap.most = 0
    <3>1. cap.most = Larger(0, 0)
      BY <2>1, CapFields
    <3> QED
      BY <3>1 DEF Larger
  <2>3. ~cap.abstains
    BY <2>1, CapFields
  <2> QED
    BY <2>2, <2>3 DEF cap
<1> QED
  BY <1>0, <1>1, <1>2, <1>3

\* A cap as one of the three sources makes it.
SoundCap(cap) ==
  \E name : \E exposure, limit, each \in Int :
    \/ cap = CapFromBudget(name, exposure, limit, each)
    \/ cap = GapCap(name, exposure, each, limit)
    \/ limit \in Nat /\ cap = EntryCeiling(limit)

\* A cap that permits a quantity, or abstains, has its limit kept by it.
LEMMA PermittedKeepsLimit ==
  ASSUME NEW cap, SoundCap(cap), NEW qty \in Nat, qty > 0, cap.abstains \/ qty <= cap.most
  PROVE  KeepsLimit(cap, qty)
<1>1. PICK name : \E exposure, limit, each \in Int :
        \/ cap = CapFromBudget(name, exposure, limit, each)
        \/ cap = GapCap(name, exposure, each, limit)
        \/ limit \in Nat /\ cap = EntryCeiling(limit)
  BY DEF SoundCap
<1>2. PICK exposure \in Int, limit \in Int, each \in Int :
        \/ cap = CapFromBudget(name, exposure, limit, each)
        \/ cap = GapCap(name, exposure, each, limit)
        \/ limit \in Nat /\ cap = EntryCeiling(limit)
  BY <1>1
<1>3. CASE cap = CapFromBudget(name, exposure, limit, each)
  <2>1. ~cap.abstains
    BY <1>3, Zenon DEF CapFromBudget, Cap
  <2> QED
    BY <1>3, <2>1, BudgetKeepsLimit, Zenon
<1>4. CASE cap = GapCap(name, exposure, each, limit)
  BY <1>4, GapKeepsLimit, Zenon
<1>5. CASE limit \in Nat /\ cap = EntryCeiling(limit)
  <2>1. ~cap.abstains
    BY <1>5, Zenon DEF EntryCeiling, Cap
  <2>2. cap.most = limit /\ cap.exposure = 0 /\ cap.limit = limit /\ cap.each = 1
    BY <1>5 DEF EntryCeiling, Cap, Larger
  <2> QED
    BY <1>5, <2>1, <2>2 DEF KeepsLimit
<1> QED
  BY <1>2, <1>3, <1>4, <1>5

\* No cap permits less than nothing.
LEMMA MostIsNatural ==
  ASSUME NEW cap, SoundCap(cap)
  PROVE  cap.most \in Nat
<1>1. PICK name : \E exposure, limit, each \in Int :
        \/ cap = CapFromBudget(name, exposure, limit, each)
        \/ cap = GapCap(name, exposure, each, limit)
        \/ limit \in Nat /\ cap = EntryCeiling(limit)
  BY DEF SoundCap
<1>2. PICK exposure \in Int, limit \in Int, each \in Int :
        \/ cap = CapFromBudget(name, exposure, limit, each)
        \/ cap = GapCap(name, exposure, each, limit)
        \/ limit \in Nat /\ cap = EntryCeiling(limit)
  BY <1>1
<1>3. ASSUME NEW most \in Int PROVE Larger(0, most) \in Nat
  BY DEF Larger
<1>4. CASE cap = CapFromBudget(name, exposure, limit, each)
  <2>1. cap.most = Larger(0, IF each <= 0 THEN 0 ELSE Larger(0, limit - exposure) \div each)
    BY <1>4 DEF CapFromBudget, Cap
  <2>2. CASE each <= 0
    BY <1>3, <2>1, <2>2
  <2>3. CASE each > 0
    <3>1. Larger(0, limit - exposure) \div each \in Int
      BY <1>3, <2>3, SMTT(30)
    <3> QED
      BY <1>3, <2>1, <2>3, <3>1
  <2> QED
    BY <2>2, <2>3
<1>5. CASE cap = GapCap(name, exposure, each, limit)
  <2> DEFINE more == Larger(0, each - exposure)
             left == Larger(0, limit - exposure)
  <2>1. more \in Nat /\ left \in Nat
    BY <1>3
  <2>2. \/ more > 0 /\ cap = Cap(name, left \div more, exposure, limit, more)
        \/ cap = Abstention(name, exposure, limit)
        \/ cap = Cap(name, 0, exposure, limit, 0)
    BY <1>5, Zenon DEF GapCap
  <2>3. more > 0 => left \div more \in Int
    BY <2>1, SMTT(30)
  <2> HIDE DEF more, left
  <2> QED
    BY <1>3, <2>2, <2>3 DEF Cap, Abstention
<1>6. CASE limit \in Nat /\ cap = EntryCeiling(limit)
  BY <1>3, <1>6 DEF EntryCeiling, Cap
<1> QED
  BY <1>2, <1>4, <1>5, <1>6

\* size_order_aggregate: an order that is sized to its caps, or smaller, keeps
\* the exposure within the limit of every one of them, those that abstain
\* included.
THEOREM SizedOrderKeepsLimits ==
  ASSUME NEW caps, DOMAIN caps \subseteq Nat, \A i \in DOMAIN caps : SoundCap(caps[i]),
         NEW requested \in Nat,
         NEW qty \in Nat, qty > 0, qty <= SizeToLimits(requested, caps).qty,
         NEW i \in DOMAIN caps
  PROVE  KeepsLimit(caps[i], qty)
<1>1. \A j \in DOMAIN caps : caps[j].most \in Nat
  BY MostIsNatural
<1> DEFINE sized == SizeToLimits(requested, caps).qty
<1>2. sized \in Nat /\ \A j \in Binding(caps) : sized <= caps[j].most
  BY <1>1, EveryCapHolds, Zenon
<1>3. i \in Binding(caps) => sized <= caps[i].most
  BY <1>2
<1> HIDE DEF sized
<1>4. i \in Binding(caps) => qty <= caps[i].most
  BY <1>1, <1>2, <1>3 DEF sized
<1>5. caps[i].abstains \/ qty <= caps[i].most
  BY <1>4, Zenon DEF Binding
<1> QED
  BY <1>5, PermittedKeepsLimit

(* The book, the account's spreads and their sums. *)

\* Positions of the bot and, on day 0, of others.
Positions == [short : Strikes, expiry : Expiries, day : 0..NumDays,
              qty : Nat \ {0}, credit : Nat]

Sums(positions) == positions \subseteq Positions /\ IsFiniteSet(positions)

\* The assumptions on the constants, one by one.
LEMMA ConstantTypes ==
  /\ Wing \in Nat /\ StopSlip \in Nat /\ CloseSlip \in Nat /\ EntryPct \in Nat
  /\ TradePct \in Nat /\ DayPct \in Nat /\ ExpiryPct \in Nat /\ StopPct \in Nat
  /\ StructuralPct \in Nat /\ BasePct \in Nat /\ GatePct \in Nat /\ MaxConcurrent \in Nat
  /\ Wing > 0
  /\ GapPct \in [Scenarios -> Nat]
  /\ NumDays \in Nat /\ NumWindows \in Nat /\ MinDte \in Nat /\ MaxOpen \in Nat
  /\ MaxEntries \in Nat /\ HaltPct \in Nat
  /\ Expiries \subseteq Nat /\ IsFiniteSet(Expiries)
  /\ Stress \in [Strikes -> [Scenarios -> Nat]]
BY SizingAssumption, EntryAssumption DEF SizingAssumption, EntryAssumption

\* A part of a book is a book.
LEMMA SubsetSums ==
  ASSUME NEW b, Sums(b), NEW sub, sub \subseteq b
  PROVE  Sums(sub)
BY FS_Subset DEF Sums

\* Every total of a book is a number: stops, structural risk, contracts, gap loss.
LEMMA TotalsAreIntegers ==
  ASSUME NEW b, Sums(b)
  PROVE  /\ \A marks : (\A p \in b : marks[p] \in Int) => StopOf(b, marks) \in Int
         /\ \A wing \in Int : StructuralOf(b, wing) \in Int
         /\ \A short, expiry : Quantity(b, short, expiry) \in Int
         /\ ForeignStop(b) \in Int
         /\ \A s \in Scenarios : GapLossOf(b, s) \in Int
<1>0. IsFiniteSet(b) /\ \A p \in b : p.credit \in Nat /\ p.qty \in Nat /\ p.short \in Strikes
  BY DEF Sums, Positions
<1>1. ASSUME NEW marks, \A p \in b : marks[p] \in Int PROVE StopOf(b, marks) \in Int
  <2> DEFINE f == [p \in b |-> RemainingStop(p, marks[p])]
  <2>1. \A p \in b : f[p] \in Int
    BY <1>0, <1>1, ConstantTypes DEF RemainingStop, Larger
  <2>2. DOMAIN f = b
    OBVIOUS
  <2> HIDE DEF f
  <2>3. SumFunction(f) \in Int
    BY <1>0, <2>1, <2>2, TotalType
  <2> QED
    BY <2>3 DEF f, StopOf
<1>2. ASSUME NEW wing \in Int PROVE StructuralOf(b, wing) \in Int
  <2> DEFINE f == [p \in b |-> Structural(wing, p.credit) * p.qty]
  <2>1. \A p \in b : f[p] \in Int
    BY <1>0 DEF Structural
  <2>2. DOMAIN f = b
    OBVIOUS
  <2> HIDE DEF f
  <2>3. SumFunction(f) \in Int
    BY <1>0, <2>1, <2>2, TotalType
  <2> QED
    BY <2>3 DEF f, StructuralOf
<1>3. ASSUME NEW short, NEW expiry PROVE Quantity(b, short, expiry) \in Int
  <2> DEFINE at == {q \in b : q.short = short /\ q.expiry = expiry}
             f == [p \in at |-> p.qty]
  <2>1. \A p \in at : f[p] \in Int
    BY <1>0
  <2>2. DOMAIN f = at /\ IsFiniteSet(at)
    BY <1>0, FS_Subset
  <2> HIDE DEF f
  <2>3. SumFunction(f) \in Int
    BY <2>1, <2>2, TotalType
  <2> QED
    BY <2>3 DEF f, Quantity
<1>4. ForeignStop(b) \in Int
  <2> DEFINE f == [p \in b |-> (IF p.credit > 0 THEN 2 * p.credit ELSE Wing) * p.qty]
  <2>1. \A p \in b : f[p] \in Int
    BY <1>0, ConstantTypes
  <2>2. DOMAIN f = b
    OBVIOUS
  <2> HIDE DEF f
  <2>3. SumFunction(f) \in Int
    BY <1>0, <2>1, <2>2, TotalType
  <2> QED
    BY <2>3 DEF f, ForeignStop
<1>5. ASSUME NEW s \in Scenarios PROVE GapLossOf(b, s) \in Int
  <2> DEFINE f == [p \in b |-> GapLoss(p, Wing, s)]
  <2>1. \A p \in b : f[p] \in Int
    <3> SUFFICES ASSUME NEW p \in b PROVE GapLoss(p, Wing, s) \in Int
      OBVIOUS
    <3>1. Debit(p, s) \in Nat
      BY <1>0, ConstantTypes DEF Debit
    <3> QED
      BY <1>0, <3>1, ConstantTypes DEF GapLoss, Smaller
  <2>2. DOMAIN f = b
    OBVIOUS
  <2> HIDE DEF f
  <2>3. SumFunction(f) \in Int
    BY <1>0, <2>1, <2>2, TotalType
  <2> QED
    BY <2>3 DEF f, GapLossOf
<1> QED
  BY <1>1, <1>2, <1>3, <1>4, <1>5

-----------------------------------------------------------------------------
(* What the feeds return.                                                  *)

\* InputsAssumption, for one reading.
LEMMA ReadingTypes ==
  ASSUME NEW in \in Inputs
  PROVE  /\ in.equity \in Int /\ in.drift \in Int
         /\ in.market \in [Expiries -> Quotes]
         /\ in.account \subseteq AccountSpreads /\ IsFiniteSet(in.account)
         /\ \A a, b \in in.account : a.short = b.short /\ a.expiry = b.expiry => a = b
BY InputsAssumption DEF InputsAssumption, Readings

\* The bot's positions carry the day they were opened.
OwnPositions == [short : Strikes, expiry : Expiries, day : 1..NumDays,
                 qty : Nat \ {0}, credit : Nat \ {0}]

OwnBook(positions) == positions \subseteq OwnPositions /\ IsFiniteSet(positions)

\* The bot's book is a book.
LEMMA OwnBookSums ==
  ASSUME NEW b, OwnBook(b)
  PROVE  Sums(b)
<1>1. OwnPositions \subseteq Positions
  <2> SUFFICES ASSUME NEW p \in OwnPositions PROVE p \in Positions
    OBVIOUS
  <2>1. p = [short |-> p.short, expiry |-> p.expiry, day |-> p.day, qty |-> p.qty,
             credit |-> p.credit]
    BY DEF OwnPositions
  <2>2. /\ p.short \in Strikes /\ p.expiry \in Expiries /\ p.day \in 0..NumDays
        /\ p.qty \in Nat \ {0} /\ p.credit \in Nat
    BY ConstantTypes DEF OwnPositions
  <2> QED
    BY <2>1, <2>2 DEF Positions
<1> QED
  BY <1>1 DEF Sums, OwnBook

\* Every open position has a mark.
LEMMA MarksAreIntegers ==
  ASSUME NEW in \in Inputs, OwnBook(book)
  PROVE  \A p \in book : Marks(in)[p] \in Int
<1>1. \A p \in book : p.credit \in Int
  BY DEF OwnBook, OwnPositions
<1> QED
  BY <1>1, ReadingTypes DEF Marks, Mark, Larger

\* The spreads the account holds beyond the bot's are positions of day 0.
LEMMA ForeignSums ==
  ASSUME NEW in \in Inputs, OwnBook(book)
  PROVE  /\ Sums(ForeignSpreads(in.account, book))
         /\ \A p \in ForeignSpreads(in.account, book) : p.day = 0
         /\ ForeignSpreads(in.account, book) \cap book = {}
<1> DEFINE beyond == {a \in in.account : a.qty > Quantity(book, a.short, a.expiry)}
           f == [a \in beyond |-> [a EXCEPT !.qty = @ - Quantity(book, a.short, a.expiry)]]
           foreign == {f[a] : a \in beyond}
<1>1. ForeignSpreads(in.account, book) = foreign
  BY DEF ForeignSpreads
<1>2. IsFiniteSet(foreign)
  <2>1. IsFiniteSet(beyond)
    BY ReadingTypes, FS_Subset
  <2>2. DOMAIN f = beyond
    OBVIOUS
  <2> HIDE DEF f, beyond
  <2> QED
    BY <2>1, <2>2, ImageIsFinite
<1>3. ASSUME NEW a \in beyond PROVE f[a] \in Positions /\ f[a].day = 0
  <2>1. a \in AccountSpreads
    BY ReadingTypes
  <2>2. Quantity(book, a.short, a.expiry) \in Int
    BY OwnBookSums, TotalsAreIntegers
  <2> DEFINE left == a.qty - Quantity(book, a.short, a.expiry)
  <2>3. left \in Nat \ {0}
    BY <1>3, <2>1, <2>2 DEF AccountSpreads
  <2>4. f[a] = [a EXCEPT !.qty = left]
    OBVIOUS
  <2> HIDE DEF left, f
  <2>5. f[a] = [short |-> a.short, expiry |-> a.expiry, day |-> 0, qty |-> left,
                credit |-> a.credit]
    BY <2>1, <2>4 DEF AccountSpreads
  <2> QED
    BY <2>1, <2>3, <2>5, ConstantTypes DEF AccountSpreads, Positions
<1>4. foreign \subseteq Positions /\ \A p \in foreign : p.day = 0
  <2> HIDE DEF f, beyond
  <2> QED
    BY <1>3
<1>5. \A p \in book : p.day # 0
  BY ConstantTypes DEF OwnBook, OwnPositions
<1> HIDE DEF foreign
<1> QED
  BY <1>1, <1>2, <1>4, <1>5 DEF Sums

-----------------------------------------------------------------------------
(* The caps of a cycle.                                                    *)

\* The risk of one contract is a number.
LEMMA StopsAreIntegers ==
  ASSUME NEW credit \in Int, NEW wing \in Int
  PROVE  PlannedStop(wing, credit) \in Int /\ Structural(wing, credit) \in Int
BY ConstantTypes DEF PlannedStop, Structural, Smaller

\* A list of n caps, each made by one of the three sources.
SoundList(caps, n) ==
  /\ n \in Nat /\ caps = [i \in 1..n |-> caps[i]]
  /\ \A i \in 1..n : SoundCap(caps[i])

Joined(s, m, t, n, caps) ==
  /\ SoundList(caps, m + n)
  /\ \A i \in 1..m : caps[i] = s[i]
  /\ \A i \in 1..n : caps[m + i] = t[i]

\* Two lists of caps, one after the other, are a list of caps.
LEMMA JoinedIsSound ==
  ASSUME NEW s, NEW m, SoundList(s, m), NEW t, NEW n, SoundList(t, n)
  PROVE  Joined(s, m, t, n, s \o t)
<1> DEFINE S == {s[i] : i \in 1..m} \cup {t[i] : i \in 1..n}
           joined == s \o t
<1>0. m \in Nat /\ n \in Nat
  BY DEF SoundList
<1>1. s \in Seq(S) /\ t \in Seq(S) /\ Len(s) = m /\ Len(t) = n
  BY <1>0 DEF SoundList
<1> HIDE DEF S
<1>2. /\ joined \in Seq(S) /\ Len(joined) = m + n
      /\ \A i \in 1..(m + n) : joined[i] = IF i <= m THEN s[i] ELSE t[i - m]
  BY <1>1, ConcatProperties
<1> HIDE DEF joined
<1>3. \A i \in 1..m : joined[i] = s[i]
  BY <1>0, <1>2
<1>4. \A i \in 1..n : joined[m + i] = t[i]
  <2> SUFFICES ASSUME NEW i \in 1..n PROVE joined[m + i] = t[i]
    OBVIOUS
  <2>1. m + i \in 1..(m + n) /\ ~(m + i <= m) /\ (m + i) - m = i
    BY <1>0
  <2> QED
    BY <1>2, <2>1
<1>5. \A i \in 1..(m + n) : SoundCap(joined[i])
  <2> SUFFICES ASSUME NEW i \in 1..(m + n) PROVE SoundCap(joined[i])
    OBVIOUS
  <2>1. CASE i <= m
    <3>1. i \in 1..m
      BY <1>0, <2>1
    <3> QED
      BY <1>3, <3>1 DEF SoundList
  <2>2. CASE ~(i <= m)
    <3>1. i - m \in 1..n /\ joined[i] = t[i - m]
      BY <1>0, <1>2, <2>2
    <3> QED
      BY <3>1 DEF SoundList
  <2> QED
    BY <2>1, <2>2
<1>6. joined = [i \in 1..(m + n) |-> joined[i]]
  BY <1>2
<1>7. SoundList(joined, m + n)
  BY <1>0, <1>5, <1>6 DEF SoundList
<1> QED
  BY <1>3, <1>4, <1>7 DEF joined, Joined

Foreign(in) == ForeignSpreads(in.account, book)

\* The four budgets, in the order the code lists them.
BudgetsOf(in, expiry, wing, credit) ==
  BudgetCaps(in.equity, wing, credit, expiry, day, book, Marks(in), Foreign(in))

BudgetsAre(in, expiry, wing, credit, caps) ==
  /\ SoundList(caps, 4)
  /\ caps[1] = CapFromBudget("same_day_stop", StopOf({p \in book : p.day = day}, Marks(in)),
                             in.equity * DayPct, PlannedStop(wing, credit))
  /\ caps[2] = CapFromBudget("expiry_stop", StopOf({p \in book : p.expiry = expiry}, Marks(in)),
                             in.equity * ExpiryPct, PlannedStop(wing, credit))
  /\ caps[3] = CapFromBudget("total_stop", StopOf(book, Marks(in)) + ForeignStop(Foreign(in)),
                             in.equity * StopPct, PlannedStop(wing, credit))
  /\ caps[4] = CapFromBudget("total_structural",
                             StructuralOf(book, wing) + ForeignStructural(Foreign(in)),
                             in.equity * StructuralPct, Structural(wing, credit))

\* risk_budget.py: the four budgets, their exposure, limit and risk of one contract.
LEMMA BudgetCapsAreSound ==
  ASSUME NEW in \in Inputs, OwnBook(book), NEW credit \in Int, NEW wing \in Int, NEW expiry
  PROVE  BudgetsAre(in, expiry, wing, credit, BudgetsOf(in, expiry, wing, credit))
<1> DEFINE foreign == Foreign(in)
           stop == PlannedStop(wing, credit)
           today == StopOf({p \in book : p.day = day}, Marks(in))
           same == StopOf({p \in book : p.expiry = expiry}, Marks(in))
           total == StopOf(book, Marks(in)) + ForeignStop(foreign)
           structural == StructuralOf(book, wing) + ForeignStructural(foreign)
           a == CapFromBudget("same_day_stop", today, in.equity * DayPct, stop)
           b == CapFromBudget("expiry_stop", same, in.equity * ExpiryPct, stop)
           c == CapFromBudget("total_stop", total, in.equity * StopPct, stop)
           d == CapFromBudget("total_structural", structural, in.equity * StructuralPct,
                              Structural(wing, credit))
           caps == BudgetsOf(in, expiry, wing, credit)
<1>1. caps = << a, b, c, d >>
  BY DEF BudgetsOf, BudgetCaps
<1>2. in.equity \in Int /\ Sums(book) /\ Sums(foreign)
  BY ReadingTypes, OwnBookSums, ForeignSums DEF Foreign
<1>3. today \in Int /\ same \in Int /\ StopOf(book, Marks(in)) \in Int
  <2>1. Sums({p \in book : p.day = day}) /\ Sums({p \in book : p.expiry = expiry})
    BY <1>2, SubsetSums
  <2>2. \A p \in book : Marks(in)[p] \in Int
    BY MarksAreIntegers
  <2> QED
    BY <1>2, <2>1, <2>2, TotalsAreIntegers
<1>4. total \in Int /\ structural \in Int
  BY <1>2, <1>3, TotalsAreIntegers, ConstantTypes DEF ForeignStructural
<1>5. stop \in Int /\ Structural(wing, credit) \in Int
  BY StopsAreIntegers
<1>6. /\ in.equity * DayPct \in Int /\ in.equity * ExpiryPct \in Int
      /\ in.equity * StopPct \in Int /\ in.equity * StructuralPct \in Int
  BY <1>2, ConstantTypes
<1> HIDE DEF stop, today, same, total, structural
<1>7. SoundCap(a) /\ SoundCap(b) /\ SoundCap(c) /\ SoundCap(d)
  BY <1>3, <1>4, <1>5, <1>6, Zenon DEF SoundCap
<1> HIDE DEF a, b, c, d, caps
<1>8. DOMAIN caps = 1..4 /\ caps[1] = a /\ caps[2] = b /\ caps[3] = c /\ caps[4] = d
  BY <1>1
<1>9. \A i \in 1..4 : SoundCap(caps[i])
  BY <1>7, <1>8
<1>10. SoundList(caps, 4)
  BY <1>1, <1>8, <1>9 DEF SoundList
<1> QED
  BY <1>8, <1>10 DEF BudgetsAre, caps, a, b, c, d, stop, today, same, total, structural

\* The three gap scenarios; what one contract more loses in one of them.
GapOfOne(short, credit, wing, s) == Smaller(wing, Stress[short][s] + CloseSlip) - credit

\* gap_stress.py: the three scenarios, against the account as it is without the order.
LEMMA GapCapsAreSound ==
  ASSUME NEW in \in Inputs, NEW others, Sums(others), NEW credit \in Int, NEW wing \in Int,
         NEW short \in Strikes, NEW expiry
  PROVE  LET caps == GapCaps(in.equity, wing, Proposal(short, expiry, credit), others)
         IN  /\ SoundList(caps, 3)
             /\ \A s \in Scenarios :
                  /\ GapOfOne(short, credit, wing, s) \in Int
                  /\ caps[s] = GapCap(GapNames[s], GapLossOf(others, s),
                                      GapLossOf(others, s) + GapOfOne(short, credit, wing, s),
                                      in.equity * GapPct[s])
<1> DEFINE caps == GapCaps(in.equity, wing, Proposal(short, expiry, credit), others)
           one(s) == GapLoss([Proposal(short, expiry, credit) EXCEPT !.qty = 1], wing, s)
           booked(s) == GapLossOf(others, s)
           cap(s) == GapCap(GapNames[s], booked(s), booked(s) + one(s), in.equity * GapPct[s])
<1>1. caps = [s \in Scenarios |-> cap(s)]
  BY Zenon DEF GapCaps
<1>2. ASSUME NEW s \in Scenarios
      PROVE  /\ one(s) = GapOfOne(short, credit, wing, s) /\ one(s) \in Int
             /\ booked(s) \in Int /\ in.equity * GapPct[s] \in Int
  <2>1. [Proposal(short, expiry, credit) EXCEPT !.qty = 1]
          = [short |-> short, expiry |-> expiry, day |-> day, qty |-> 1, credit |-> credit]
    BY DEF Proposal
  <2>2. Stress[short][s] \in Nat
    BY ConstantTypes
  <2>3. Smaller(wing, Stress[short][s] + CloseSlip) \in Int
    BY <2>2, ConstantTypes DEF Smaller
  <2>4. one(s) = (Smaller(wing, Stress[short][s] + CloseSlip) - credit) * 1
    BY <2>1 DEF GapLoss, Debit
  <2>5. one(s) = GapOfOne(short, credit, wing, s) /\ one(s) \in Int
    BY <2>3, <2>4 DEF GapOfOne
  <2>6. booked(s) \in Int
    BY TotalsAreIntegers
  <2>7. in.equity * GapPct[s] \in Int
    BY ReadingTypes, ConstantTypes
  <2> QED
    BY <2>5, <2>6, <2>7
<1>3. ASSUME NEW s \in Scenarios PROVE SoundCap(cap(s))
  <2>1. booked(s) \in Int /\ booked(s) + one(s) \in Int /\ in.equity * GapPct[s] \in Int
    BY <1>2
  <2> HIDE DEF booked, one
  <2> QED
    BY <2>1, Zenon DEF SoundCap
<1> HIDE DEF caps, cap
<1>4. Scenarios = 1..3 /\ 3 \in Nat
  BY DEF Scenarios
<1>5. caps = [i \in 1..3 |-> caps[i]] /\ \A i \in 1..3 : SoundCap(caps[i])
  BY <1>1, <1>3, <1>4
<1>6. SoundList(caps, 3)
  BY <1>4, <1>5 DEF SoundList
<1>7. \A s \in Scenarios : caps[s] = cap(s)
  BY <1>1
<1> QED
  BY <1>2, <1>6, <1>7 DEF caps, cap

\* The one-contract ceiling of the live program.
LEMMA CeilingIsSound ==
  /\ HasCeiling => SoundList(Ceiling, 1) /\ Ceiling[1] = EntryCeiling(1)
  /\ ~HasCeiling => SoundList(Ceiling, 0)
<1>1. SoundCap(EntryCeiling(1))
  <2>1. 1 \in Int /\ 1 \in Nat
    OBVIOUS
  <2> QED
    BY <2>1, Zenon DEF SoundCap
<1>2. CASE HasCeiling
  <2>1. Ceiling = << EntryCeiling(1) >>
    BY <1>2 DEF Ceiling
  <2> QED
    BY <1>1, <1>2, <2>1 DEF SoundList
<1>3. CASE ~HasCeiling
  <2>1. Ceiling = << >>
    BY <1>3 DEF Ceiling
  <2> QED
    BY <1>3, <2>1 DEF SoundList
<1> QED
  BY <1>2, <1>3

\* All the caps of a cycle, one after the other.
GapsOf(in, short, expiry, wing, credit) ==
  GapCaps(in.equity, wing, Proposal(short, expiry, credit), book \cup Foreign(in))

CapsOf(in, short, expiry, wing, credit) ==
  BudgetsOf(in, expiry, wing, credit) \o GapsOf(in, short, expiry, wing, credit) \o Ceiling

NumCaps == IF HasCeiling THEN 8 ELSE 7

CapsAre(in, short, expiry, wing, credit, caps) ==
  /\ SoundList(caps, NumCaps)
  /\ \A i \in 1..4 : caps[i] = BudgetsOf(in, expiry, wing, credit)[i]
  /\ \A s \in Scenarios : caps[4 + s] = GapsOf(in, short, expiry, wing, credit)[s]
  /\ HasCeiling => caps[8] = EntryCeiling(1)

\* The account with the spreads of the other programs is a book.
LEMMA WholeBookSums ==
  ASSUME NEW in \in Inputs, OwnBook(book)
  PROVE  Sums(book \cup Foreign(in)) /\ Sums(book) /\ Sums(Foreign(in))
<1>1. Sums(book) /\ Sums(Foreign(in))
  BY OwnBookSums, ForeignSums DEF Foreign
<1> QED
  BY <1>1, FS_Union DEF Sums

\* Each cap of a cycle is one of the eight, in its place.
LEMMA CapsAreSound ==
  ASSUME NEW in \in Inputs, OwnBook(book), NEW short \in Strikes, NEW expiry,
         NEW wing \in Int, NEW credit \in Int
  PROVE  CapsAre(in, short, expiry, wing, credit, CapsOf(in, short, expiry, wing, credit))
<1> DEFINE budgets == BudgetsOf(in, expiry, wing, credit)
           gaps == GapsOf(in, short, expiry, wing, credit)
           caps == CapsOf(in, short, expiry, wing, credit)
           first == budgets \o gaps
           last == IF HasCeiling THEN 1 ELSE 0
<1>1. SoundList(budgets, 4)
  BY BudgetCapsAreSound DEF BudgetsAre
<1>3. SoundList(gaps, 3)
  BY WholeBookSums, GapCapsAreSound DEF GapsOf
<1>4. SoundList(Ceiling, last)
  BY CeilingIsSound
<1>5. caps = first \o Ceiling
  BY Zenon DEF CapsOf
<1> HIDE DEF budgets, gaps, caps
<1>6. Joined(budgets, 4, gaps, 3, first)
  BY <1>1, <1>3, JoinedIsSound, Zenon
<1> HIDE DEF first, last
<1>7. SoundList(first, 4 + 3)
  BY <1>6, Zenon DEF Joined
<1>8. Joined(first, 4 + 3, Ceiling, last, caps)
  BY <1>4, <1>5, <1>7, JoinedIsSound, Zenon
<1>9. SoundList(caps, NumCaps)
  BY <1>8 DEF Joined, NumCaps, last
<1>10. \A i \in 1..4 : caps[i] = budgets[i]
  BY <1>6, <1>8 DEF Joined
<1>11. \A s \in Scenarios : caps[4 + s] = gaps[s]
  BY <1>6, <1>8 DEF Joined, Scenarios
<1>12. HasCeiling => caps[8] = EntryCeiling(1)
  <2> HAVE HasCeiling
  <2>1. last = 1 /\ Ceiling[1] = EntryCeiling(1)
    BY CeilingIsSound DEF last
  <2>2. caps[4 + 3 + 1] = Ceiling[1]
    BY <1>8, <2>1 DEF Joined
  <2> QED
    BY <2>1, <2>2
<1> QED
  BY <1>9, <1>10, <1>11, <1>12 DEF CapsAre, budgets, gaps, caps

\* What the fields of a budget are.
LEMMA BudgetFields ==
  ASSUME NEW name, NEW exposure, NEW limit, NEW each, NEW cap,
         cap = CapFromBudget(name, exposure, limit, each)
  PROVE  cap.exposure = exposure /\ cap.limit = limit /\ cap.each = each
BY DEF CapFromBudget, Cap

GapTerms(cap, booked, one, limit) ==
  cap.exposure = booked /\ cap.limit = limit /\ cap.each = Larger(0, one)

\* What the fields of a gap cap are, whichever way it answers.
LEMMA GapFields ==
  ASSUME NEW name, NEW booked \in Int, NEW one \in Int, NEW limit
  PROVE  GapTerms(GapCap(name, booked, booked + one, limit), booked, one, limit)
<1> DEFINE cap == GapCap(name, booked, booked + one, limit)
           each == Larger(0, (booked + one) - booked)
           left == Larger(0, limit - booked)
<1>1. each = Larger(0, one) /\ each \in Nat
  BY DEF Larger
<1>2. \/ cap = Cap(name, left \div each, booked, limit, each)
      \/ each = 0 /\ cap = Abstention(name, booked, limit)
      \/ each = 0 /\ cap = Cap(name, 0, booked, limit, 0)
  <2>1. each > 0 \/ each = 0
    BY <1>1
  <2>2. each = 0 => ~(each > 0)
    OBVIOUS
  <2> HIDE DEF each
  <2> QED
    BY <2>1, <2>2, Zenon DEF GapCap, each
<1> HIDE DEF each, left, cap
<1>3. cap.exposure = booked /\ cap.limit = limit /\ cap.each = each
  BY <1>2 DEF Cap, Abstention
<1> QED
  BY <1>1, <1>3 DEF cap, GapTerms

\* What the caps promise of an order: with it, the book stays within each limit.
WithinLimits(in, short, expiry, credit, qty) ==
  /\ StopOf({p \in book : p.day = day}, Marks(in)) + PlannedStop(Wing, credit) * qty
       <= in.equity * DayPct
  /\ StopOf({p \in book : p.expiry = expiry}, Marks(in)) + PlannedStop(Wing, credit) * qty
       <= in.equity * ExpiryPct
  /\ (StopOf(book, Marks(in)) + ForeignStop(Foreign(in))) + PlannedStop(Wing, credit) * qty
       <= in.equity * StopPct
  /\ (StructuralOf(book, Wing) + ForeignStructural(Foreign(in))) + Structural(Wing, credit) * qty
       <= in.equity * StructuralPct
  /\ \A s \in Scenarios :
       GapLossOf(book \cup Foreign(in), s) + Larger(0, GapOfOne(short, credit, Wing, s)) * qty
         <= in.equity * GapPct[s]
  /\ HasCeiling => qty <= 1

\* run_entry_cycle, "capped so this trade never blows through": an order no
\* larger than what the caps leave keeps the book within each limit.
LEMMA SizedWithinLimits ==
  ASSUME NEW in \in Inputs, OwnBook(book), NEW short \in Strikes, NEW expiry,
         NEW credit \in Int, NEW requested \in Nat, NEW qty \in Nat, qty > 0,
         qty <= SizeToLimits(requested, CapsOf(in, short, expiry, Wing, credit)).qty
  PROVE  WithinLimits(in, short, expiry, credit, qty)
<1> DEFINE budgets == BudgetsOf(in, expiry, Wing, credit)
           gaps == GapsOf(in, short, expiry, Wing, credit)
           caps == CapsOf(in, short, expiry, Wing, credit)
<1>0. Wing \in Int /\ NumCaps \in Nat /\ NumCaps >= 7 /\ (HasCeiling => NumCaps = 8)
  BY ConstantTypes DEF NumCaps
<1>1. CapsAre(in, short, expiry, Wing, credit, caps)
  BY <1>0, CapsAreSound, Zenon
<1>2. \A i \in 1..NumCaps : KeepsLimit(caps[i], qty)
  <2>1. DOMAIN caps = 1..NumCaps /\ \A i \in 1..NumCaps : SoundCap(caps[i])
    <3> HIDE DEF caps
    <3> QED
      BY <1>1 DEF CapsAre, SoundList
  <2>2. DOMAIN caps \subseteq Nat
    BY <2>1
  <2>3. qty <= SizeToLimits(requested, caps).qty
    OBVIOUS
  <2> HIDE DEF caps
  <2>4. ASSUME NEW i \in 1..NumCaps PROVE KeepsLimit(caps[i], qty)
    <3>1. i \in DOMAIN caps /\ \A j \in DOMAIN caps : SoundCap(caps[j])
      BY <2>1
    <3> QED
      BY <2>2, <2>3, <3>1, SizedOrderKeepsLimits, Zenon
  <2> QED
    BY <2>4
<1> HIDE DEF caps
<1>3. \A i \in 1..4 : KeepsLimit(budgets[i], qty)
  BY <1>0, <1>1, <1>2 DEF CapsAre
<1>4. BudgetsAre(in, expiry, Wing, credit, budgets)
  BY <1>0, BudgetCapsAreSound, Zenon
<1>5. \A s \in Scenarios : KeepsLimit(gaps[s], qty)
  BY <1>0, <1>1, <1>2 DEF CapsAre, Scenarios
<1>6. ASSUME NEW s \in Scenarios
      PROVE  GapLossOf(book \cup Foreign(in), s)
               + Larger(0, GapOfOne(short, credit, Wing, s)) * qty <= in.equity * GapPct[s]
  <2> DEFINE one == GapOfOne(short, credit, Wing, s)
             booked == GapLossOf(book \cup Foreign(in), s)
             limit == in.equity * GapPct[s]
  <2>2. one \in Int /\ gaps[s] = GapCap(GapNames[s], booked, booked + one, limit)
    BY <1>0, WholeBookSums, GapCapsAreSound DEF GapsOf
  <2>3. booked \in Int
    BY WholeBookSums, TotalsAreIntegers
  <2> HIDE DEF gaps, one, booked, limit
  <2>4. gaps[s].exposure = booked /\ gaps[s].limit = limit /\ gaps[s].each = Larger(0, one)
    <3>1. GapTerms(GapCap(GapNames[s], booked, booked + one, limit), booked, one, limit)
      BY <2>2, <2>3, GapFields, Zenon
    <3> QED
      BY <2>2, <3>1, Zenon DEF GapTerms
  <2>5. booked + Larger(0, one) * qty <= limit
    BY <1>5, <2>4 DEF KeepsLimit
  <2> QED
    BY <2>5 DEF one, booked, limit
<1>7. HasCeiling => qty <= 1
  <2> HAVE HasCeiling
  <2>1. KeepsLimit(EntryCeiling(1), qty)
    BY <1>0, <1>1, <1>2 DEF CapsAre
  <2> QED
    BY <2>1 DEF KeepsLimit, EntryCeiling, Cap
<1> HIDE DEF budgets
<1>8. /\ budgets[1].exposure + budgets[1].each * qty <= budgets[1].limit
      /\ budgets[2].exposure + budgets[2].each * qty <= budgets[2].limit
      /\ budgets[3].exposure + budgets[3].each * qty <= budgets[3].limit
      /\ budgets[4].exposure + budgets[4].each * qty <= budgets[4].limit
  BY <1>3 DEF KeepsLimit
<1>9. /\ StopOf({p \in book : p.day = day}, Marks(in)) + PlannedStop(Wing, credit) * qty
           <= in.equity * DayPct
      /\ StopOf({p \in book : p.expiry = expiry}, Marks(in)) + PlannedStop(Wing, credit) * qty
           <= in.equity * ExpiryPct
      /\ (StopOf(book, Marks(in)) + ForeignStop(Foreign(in))) + PlannedStop(Wing, credit) * qty
           <= in.equity * StopPct
      /\ (StructuralOf(book, Wing) + ForeignStructural(Foreign(in)))
           + Structural(Wing, credit) * qty <= in.equity * StructuralPct
  <2>1. /\ budgets[1].exposure = StopOf({p \in book : p.day = day}, Marks(in))
        /\ budgets[1].limit = in.equity * DayPct /\ budgets[1].each = PlannedStop(Wing, credit)
    BY <1>4, BudgetFields DEF BudgetsAre
  <2>2. /\ budgets[2].exposure = StopOf({p \in book : p.expiry = expiry}, Marks(in))
        /\ budgets[2].limit = in.equity * ExpiryPct /\ budgets[2].each = PlannedStop(Wing, credit)
    BY <1>4, BudgetFields DEF BudgetsAre
  <2>3. /\ budgets[3].exposure = StopOf(book, Marks(in)) + ForeignStop(Foreign(in))
        /\ budgets[3].limit = in.equity * StopPct /\ budgets[3].each = PlannedStop(Wing, credit)
    BY <1>4, BudgetFields DEF BudgetsAre
  <2>4. /\ budgets[4].exposure = StructuralOf(book, Wing) + ForeignStructural(Foreign(in))
        /\ budgets[4].limit = in.equity * StructuralPct
        /\ budgets[4].each = Structural(Wing, credit)
    BY <1>4, BudgetFields DEF BudgetsAre
  <2> QED
    BY <1>8, <2>1, <2>2, <2>3, <2>4, Zenon
<1> QED
  BY <1>6, <1>7, <1>9, Zenon DEF WithinLimits

-----------------------------------------------------------------------------
(* The candidate of a cycle.                                               *)

\* pick_expiry_from_list finds a listed expiration every day.
LEMMA PickedIsListed ==
  ASSUME day \in 1..NumDays
  PROVE  Picked \in Expiries
<1> DEFINE weeks == {friday \in Fridays : friday - day >= MinDte /\ InWeekOf(friday) # {}}
           friday == Min(weeks)
<1>1. weeks # {} /\ weeks \subseteq Nat
  <2>1. PICK f \in Fridays : /\ f - day >= MinDte
                             /\ \E e \in Expiries : e \in f - 4 .. f /\ e - day >= MinDte
    BY CalendarAssumption DEF CalendarAssumption
  <2>2. InWeekOf(f) # {}
    BY <2>1 DEF InWeekOf
  <2> QED
    BY <2>1, <2>2, EntryAssumption DEF EntryAssumption
<1>2. friday \in Nat /\ InWeekOf(friday) # {}
  <2>1. friday \in weeks
    <3> HIDE DEF weeks
    <3> QED
      BY <1>1, MinIsLeast
  <2> HIDE DEF friday
  <2> QED
    BY <1>1, <2>1
<1>3. InWeekOf(friday) \subseteq Expiries /\ \A e \in InWeekOf(friday) : e <= friday
  BY <1>2, ConstantTypes DEF InWeekOf
<1>4. Max(InWeekOf(friday)) \in InWeekOf(friday)
  <2>1. InWeekOf(friday) \subseteq Nat
    BY <1>3, ConstantTypes
  <2> HIDE DEF friday
  <2> QED
    BY <1>2, <1>3, <2>1, MaxIsGreatest
<1> QED
  BY <1>3, <1>4 DEF Picked

\* A quote has a price, positive where it gives an order.
LEMMA PriceIsAnInteger ==
  ASSUME NEW quote \in Quotes
  PROVE  /\ Priced(quote) \in Int /\ quote.natural \in Int
         /\ HasOrder(quote) => /\ Priced(quote) > 0 /\ quote.natural > 0
                               /\ quote.short \in Strikes
<1>1. quote.natural \in Int /\ quote.mid \in Int /\ quote.short \in Strikes \cup {NoStrike}
  BY DEF Quotes
<1> QED
  BY <1>1, CreditAssumption DEF CreditAssumption, Priced, ExecutableCredit, HasOrder

\* Every lane has a size.
LEMMA LaneTypes ==
  ASSUME NEW expiry, NEW credit
  PROVE  LET lane == LaneAt(expiry, credit)
         IN  lane.percent \in Nat /\ lane.limited \in BOOLEAN /\ lane.most = 1
BY DEF LaneAt, Classify, Lane

\* No limit looked at, an entry is never sized below zero.
LEMMA RequestedIsNatural ==
  ASSUME NEW equity \in Int, NEW credit \in Int, NEW percent \in Nat,
         NEW limited \in BOOLEAN
  PROVE  /\ ApplyQuality(SizeQty(equity, Wing, credit), percent, limited, 1) \in Nat
         /\ ApplyQuality(SizeQty(equity, Wing, credit), percent, limited, 1) > 0
              => PlannedStop(Wing, credit) > 0 /\ Structural(Wing, credit) > 0
<1> DEFINE base == SizeQty(equity, Wing, credit)
           stop == PlannedStop(Wing, credit)
           structural == Structural(Wing, credit)
<1>0. stop \in Int /\ structural \in Int /\ EntryPct \in Nat /\ TradePct \in Nat
  BY StopsAreIntegers, ConstantTypes
<1>1. base \in Int /\ (base # 0 => stop > 0 /\ structural > 0)
  <2>1. CASE stop > 0 /\ structural > 0
    <3>1. (equity * EntryPct) \div stop \in Int /\ (equity * TradePct) \div structural \in Int
      <4> HIDE DEF stop, structural
      <4> QED
        BY <1>0, <2>1, SMTT(30)
    <3>2. base = Smaller((equity * EntryPct) \div stop, (equity * TradePct) \div structural)
      BY <1>0, <2>1 DEF SizeQty
    <3> HIDE DEF stop, structural, base
    <3> QED
      BY <2>1, <3>1, <3>2 DEF Smaller
  <2>2. CASE ~(stop > 0 /\ structural > 0)
    <3>1. base = 0
      BY <1>0, <2>2 DEF SizeQty
    <3> QED
      BY <3>1
  <2> QED
    BY <2>1, <2>2
<1> HIDE DEF base, stop, structural
<1> DEFINE scaled == (base * percent) \div 100
           adjusted == IF percent < 100 THEN Larger(1, scaled) ELSE scaled
           requested == ApplyQuality(base, percent, limited, 1)
<1>2. CASE base <= 0 \/ percent <= 0
  <2>1. requested = 0
    BY <1>2, Zenon DEF ApplyQuality
  <2> QED
    BY <2>1 DEF base
<1>3. CASE base > 0 /\ percent > 0
  <2>1. base * percent \in Nat
    BY <1>1, <1>3
  <2>2. scaled \in Nat
    BY <2>1, SMTT(30)
  <2>3. requested = IF limited THEN Smaller(adjusted, 1) ELSE adjusted
    BY <1>1, <1>3 DEF ApplyQuality
  <2> HIDE DEF scaled
  <2>4. adjusted \in Nat
    BY <2>2 DEF Larger
  <2> HIDE DEF adjusted, requested
  <2>5. requested \in Nat
    BY <2>3, <2>4 DEF Smaller
  <2> QED
    BY <1>1, <1>3, <2>5 DEF requested, base, stop, structural
<1> QED
  BY <1>1, <1>2, <1>3

\* What evaluate_expiration makes of one expiration.
LEMMA EvaluationTypes ==
  ASSUME NEW in \in Inputs, OwnBook(book), NEW e \in Expiries
  PROVE  /\ Evaluate(in, e).expiry = e
         /\ Evaluate(in, e).credit = Priced(in.market[e])
         /\ Evaluate(in, e).credit \in Int /\ Evaluate(in, e).qty \in Nat
         /\ Evaluate(in, e).net \in Int
<1> DEFINE quote == in.market[e]
           credit == Priced(quote)
           lane == LaneAt(e, credit)
           requested == ApplyQuality(SizeQty(in.equity, Wing, credit), lane.percent,
                                     lane.limited, lane.most)
           caps == CapsOf(in, quote.short, e, Wing, credit)
           clears == /\ HasOrder(quote) /\ ~quote.crossed /\ ~TooWide(quote)
                     /\ lane.tier # "reject"
                     /\ lane.tier = "low_credit_safety" => LowCreditLane
                     /\ PaysCosts(credit)
                     /\ requested > 0
           qty == IF clears THEN SizeToLimits(requested, caps).qty ELSE 0
           value == [expiry |-> e, qty |-> qty, credit |-> credit,
                     net |-> IF qty > 0 THEN NetTarget(credit) * qty ELSE 0]
<1>1. Evaluate(in, e) = value
  BY DEF Evaluate, CapsOf, BudgetsOf, GapsOf, Foreign
<1>2. quote \in Quotes
  BY ReadingTypes
<1>3. credit \in Int
  BY <1>2, PriceIsAnInteger
<1>4. requested \in Nat
  <2>1. lane.percent \in Nat /\ lane.limited \in BOOLEAN /\ lane.most = 1
    BY LaneTypes
  <2>2. in.equity \in Int
    BY ReadingTypes
  <2> HIDE DEF credit, lane
  <2> QED
    BY <1>3, <2>1, <2>2, RequestedIsNatural
<1>5. qty \in Nat
  <2>1. CASE clears
    <3>1. quote.short \in Strikes /\ Wing \in Int
      BY <1>2, <2>1, PriceIsAnInteger, ConstantTypes
    <3> HIDE DEF quote, credit, requested
    <3>2. CapsAre(in, quote.short, e, Wing, credit, caps)
      BY <1>3, <3>1, CapsAreSound, Zenon
    <3> HIDE DEF caps
    <3>3. DOMAIN caps \subseteq Nat /\ \A i \in DOMAIN caps : caps[i].most \in Nat
      BY <3>2, MostIsNatural DEF CapsAre, SoundList
    <3>4. SizeToLimits(requested, caps).qty \in Nat
      BY <1>4, <3>3, EveryCapHolds, Zenon
    <3> QED
      BY <2>1, <3>4
  <2>2. CASE ~clears
    BY <2>2
  <2> QED
    BY <2>1, <2>2
<1>6. NetTarget(credit) \in Int
  <2>1. TakeProfitPct \in Nat /\ RoundTrip \in Nat
    BY CreditAssumption DEF CreditAssumption
  <2> HIDE DEF credit
  <2> QED
    BY <1>3, <2>1 DEF NetTarget
<1> HIDE DEF qty, credit
<1>7. value.net \in Int
  BY <1>5, <1>6
<1> QED
  BY <1>1, <1>3, <1>5, <1>7 DEF credit

\* select_best_candidate: the best of the eligible ones exists.
LEMMA BestIsEligible ==
  ASSUME NEW in \in Inputs, OwnBook(book), Eligible(in) # {}
  PROVE  /\ Best(Eligible(in)) \in Eligible(in)
         /\ Best(Eligible(in)).expiry \in Expiries
         /\ Evaluate(in, Best(Eligible(in)).expiry) = Best(Eligible(in))
<1> DEFINE eligible == Eligible(in)
           Better(a, b) == \/ a.net > b.net
                           \/ a.net = b.net /\ a.credit > b.credit
                           \/ a.net = b.net /\ a.credit = b.credit /\ a.expiry =< b.expiry
           order == {pair \in eligible \X eligible : Better(pair[1], pair[2])}
<1>1. \A a \in eligible : \E e \in Expiries : a = Evaluate(in, e)
  BY DEF Eligible, Candidates
<1>2. \A a \in eligible : a.net \in Int /\ a.credit \in Int /\ a.expiry \in Nat
  BY <1>1, EvaluationTypes, ConstantTypes
<1>3. IsFiniteSet(eligible)
  <2> DEFINE f == [e \in Expiries |-> Evaluate(in, e)]
             all == {f[e] : e \in Expiries}
  <2>1. IsFiniteSet(all)
    <3>1. DOMAIN f = Expiries
      OBVIOUS
    <3> HIDE DEF f
    <3> QED
      BY <3>1, ConstantTypes, ImageIsFinite
  <2>2. eligible \subseteq all
    <3>1. \A e \in Expiries : f[e] = Evaluate(in, e)
      OBVIOUS
    <3> HIDE DEF eligible, f
    <3> QED
      BY <1>1, <3>1
  <2> QED
    BY <2>1, <2>2, FS_Subset
<1> HIDE DEF eligible
<1>4. \A a, b \in eligible : << a, b >> \in order <=> Better(a, b)
  OBVIOUS
<1>5. \A a, b \in eligible : Better(a, b) \/ Better(b, a)
  BY <1>2
<1>6. \A a, b, c \in eligible : Better(a, b) /\ Better(b, c) => Better(a, c)
  BY <1>2
<1>7. \E a \in eligible : \A b \in eligible : << a, b >> \in order
  <2>1. \A a, b \in eligible : << a, b >> \in order \/ << b, a >> \in order
    BY <1>4, <1>5
  <2>2. \A a, b, d \in eligible :
          << a, b >> \in order /\ << b, d >> \in order => << a, d >> \in order
    BY <1>4, <1>6
  <2>3. eligible # {}
    BY DEF eligible
  <2> HIDE DEF order, Better
  <2> QED
    BY <1>3, <2>1, <2>2, <2>3, TopElement, Zenon
<1>8. \E a \in eligible : \A b \in eligible : Better(a, b)
  <2> HIDE DEF order, Better
  <2> QED
    BY <1>4, <1>7
<1>9. Best(eligible) \in eligible
  BY <1>8, Zenon DEF Best
<1> QED
  BY <1>1, <1>9, EvaluationTypes DEF eligible

\* The spread the cycle looks at is a listed one, at a price.
LEMMA CandidateTypes ==
  ASSUME NEW in \in Inputs, OwnBook(book), day \in 1..NumDays
  PROVE  LET c == Candidate(in)
         IN  /\ c.expiry \in Expiries /\ c.expiry = ExpiryOf(in)
             /\ c.quote \in Quotes /\ c.quote = in.market[c.expiry]
             /\ c.credit = Priced(c.quote) /\ c.credit \in Int
             /\ c.lane = LaneAt(c.expiry, c.credit)
<1> DEFINE c == Candidate(in)
<1>1. ExpiryOf(in) \in Expiries
  BY BestIsEligible, PickedIsListed DEF ExpiryOf
<1>2. /\ c.expiry = ExpiryOf(in) /\ c.quote = in.market[ExpiryOf(in)]
      /\ c.credit = Priced(in.market[ExpiryOf(in)])
      /\ c.lane = LaneAt(ExpiryOf(in), Priced(in.market[ExpiryOf(in)]))
  BY DEF Candidate
<1>3. in.market[ExpiryOf(in)] \in Quotes
  BY <1>1, ReadingTypes
<1>4. Priced(in.market[ExpiryOf(in)]) \in Int
  BY <1>3, PriceIsAnInteger
<1> HIDE DEF c
<1> QED
  BY <1>1, <1>2, <1>3, <1>4 DEF c

-----------------------------------------------------------------------------
(* The order of a cycle.                                                   *)

\* The daily gate: what it leaves fits what is left of the day's budget.
LEMMA DayQtyFits ==
  ASSUME NEW qty \in Nat, NEW equity, NEW credit, NEW lost, NEW todayStop
  PROVE  LET q == DayQty(qty, equity, credit, lost, todayStop)
         IN  /\ q \in 0..qty
             /\ q > 0 => lost + todayStop + PlannedStop(Wing, credit) * q <= equity * DayPct
<1> DEFINE Fits(q) == lost + todayStop + PlannedStop(Wing, credit) * q =< equity * DayPct
           fitting == {q \in 1..qty : Fits(q)}
           result == DayQty(qty, equity, credit, lost, todayStop)
<1>1. CASE fitting = {}
  <2>1. ~\E q \in 1..qty : Fits(q)
    BY <1>1
  <2>2. result = 0
    BY <2>1, Zenon DEF DayQty
  <2> HIDE DEF result
  <2>3. result \in 0..qty /\ ~(result > 0)
    BY <2>2
  <2> QED
    BY <2>3 DEF result
<1>2. CASE fitting # {}
  <2>1. Max(fitting) \in fitting /\ \A y \in fitting : Max(fitting) >= y
    <3>1. fitting \subseteq Nat /\ \A q \in fitting : q <= qty
      OBVIOUS
    <3> HIDE DEF fitting
    <3> QED
      BY <1>2, <3>1, MaxIsGreatest
  <2>2. \E q \in 1..qty : Fits(q)
    BY <1>2
  <2>3. \E q \in 1..qty : Fits(q) /\ \A r \in (q + 1)..qty : ~Fits(r)
    <3> DEFINE top == Max(fitting)
    <3>1. top \in 1..qty /\ Fits(top)
      BY <2>1
    <3>2. ASSUME NEW r \in (top + 1)..qty PROVE ~Fits(r)
      <4>1. r \in 1..qty /\ ~(top >= r)
        BY <3>1
      <4>2. r \notin fitting
        BY <2>1, <4>1
      <4> HIDE DEF Fits
      <4> QED
        BY <4>1, <4>2
    <3> HIDE DEF Fits, top
    <3> QED
      BY <3>1, <3>2
  <2>4. result = CHOOSE q \in 1..qty : Fits(q) /\ \A r \in (q + 1)..qty : ~Fits(r)
    BY <2>2, Zenon DEF DayQty
  <2>5. result \in 1..qty /\ Fits(result)
    <3> HIDE DEF Fits, result
    <3> QED
      BY <2>3, <2>4, Zenon
  <2> HIDE DEF result
  <2>6. result \in 0..qty
    BY <2>5
  <2> QED
    BY <2>5, <2>6 DEF result
<1> QED
  BY <1>1, <1>2

\* Past the quotes there is an order.
LEMMA OrderedQuotes ==
  ASSUME NEW c, QuoteReason(c) = "go"
  PROVE  HasOrder(c.quote)
BY DEF QuoteReason

\* What is asked for, what fits and what is ordered.
LEMMA SizingTypes ==
  ASSUME NEW in \in Inputs, OwnBook(book), day \in 1..NumDays, NEW c, c = Candidate(in),
         QuoteReason(c) = "go", ~SizingRaises(in, c)
  PROVE  LET s == Sizing(in, c)
             caps == CapsOf(in, c.quote.short, c.expiry, Wing, c.credit)
         IN  /\ s.requested \in Nat /\ s.fits \in Nat /\ s.order \in Nat
             /\ s.order <= s.fits
             /\ AggregateRiskBudget =>
                  /\ s.fits = SizeToLimits(s.requested, caps).qty /\ s.fits <= s.requested
                  /\ s.order = Daily(in, c, s.fits)
                  /\ s.requested > 0 => PlannedStop(Wing, c.credit) > 0
             /\ ~AggregateRiskBudget => Structural(Wing, c.quote.natural) > 0
<1> DEFINE s == Sizing(in, c)
           caps == CapsOf(in, c.quote.short, c.expiry, Wing, c.credit)
           requested == ApplyQuality(SizeQty(in.equity, Wing, c.credit), c.lane.percent,
                                     c.lane.limited, c.lane.most)
           sized == SizeToLimits(requested, caps)
           legacy == LegacyQty(in, c)
<1>1. /\ c.expiry \in Expiries /\ c.quote \in Quotes /\ c.credit \in Int
      /\ c.lane = LaneAt(c.expiry, c.credit) /\ c.credit = Priced(c.quote)
  BY CandidateTypes
<1>2. in.equity \in Int /\ Wing \in Int
  BY ReadingTypes, ConstantTypes
<1>3. CASE AggregateRiskBudget
  <2>1. Caps(in, c, Wing, c.credit) = caps
    BY DEF Caps, CapsOf, BudgetsOf, GapsOf, Foreign
  <2>2. /\ s.requested = requested /\ s.fits = sized.qty /\ s.order = Daily(in, c, sized.qty)
    BY <1>3, <2>1 DEF Sizing
  <2>3. requested \in Nat /\ (requested > 0 => PlannedStop(Wing, c.credit) > 0)
    <3>1. c.lane.percent \in Nat /\ c.lane.limited \in BOOLEAN /\ c.lane.most = 1
      BY <1>1, LaneTypes
    <3> QED
      BY <1>1, <1>2, <3>1, RequestedIsNatural
  <2>4. sized.qty \in Nat /\ sized.qty <= requested
    <3>1. c.quote.short \in Strikes
      BY <1>1, OrderedQuotes, PriceIsAnInteger
    <3> HIDE DEF requested
    <3>2. CapsAre(in, c.quote.short, c.expiry, Wing, c.credit, caps)
      BY <1>1, <1>2, <3>1, CapsAreSound, Zenon
    <3> HIDE DEF caps
    <3>3. DOMAIN caps \subseteq Nat /\ \A i \in DOMAIN caps : caps[i].most \in Nat
      BY <3>2, MostIsNatural DEF CapsAre, SoundList
    <3> QED
      BY <2>3, <3>3, EveryCapHolds, Zenon
  <2> DEFINE fits == sized.qty
  <2>5. Daily(in, c, fits) \in Nat /\ Daily(in, c, fits) <= fits
    <3>0. fits \in Nat
      BY <2>4
    <3> HIDE DEF fits
    <3>1. Daily(in, c, fits) \in 0..fits
      BY <3>0, DayQtyFits, Zenon DEF Daily
    <3> QED
      BY <3>0, <3>1
  <2>6. s.fits = SizeToLimits(s.requested, caps).qty
    BY <2>2
  <2> HIDE DEF s, requested, sized, caps
  <2>7. /\ s.requested \in Nat /\ s.fits \in Nat /\ s.order \in Nat
        /\ s.order <= s.fits /\ s.fits <= s.requested
        /\ s.order = Daily(in, c, s.fits)
        /\ s.requested > 0 => PlannedStop(Wing, c.credit) > 0
    BY <2>2, <2>3, <2>4, <2>5
  <2> QED
    BY <1>3, <2>6, <2>7, Zenon DEF s, caps
<1>4. CASE ~AggregateRiskBudget
  <2>1. /\ s.requested = legacy /\ s.fits = legacy /\ s.order = legacy
    BY <1>4 DEF Sizing
  <2>2. Structural(Wing, c.quote.natural) > 0 /\ Structural(Wing, c.quote.natural) \in Int
    <3>1. ~(Structural(Wing, c.quote.natural) =< 0)
      BY <1>4, Zenon DEF SizingRaises
    <3>2. Structural(Wing, c.quote.natural) \in Int
      BY <1>1, <1>2, PriceIsAnInteger DEF Structural
    <3> QED
      BY <3>1, <3>2
  <2> DEFINE percent == RegimeAdjusted(BasePct, in.vixHigh)
             most == Structural(Wing, c.quote.natural)
  <2>3. percent \in Int
    BY ConstantTypes, SMTT(30) DEF RegimeAdjusted
  <2>4. legacy = Larger(1, (in.equity * percent) \div most)
    BY DEF LegacyQty, ContractsForRisk
  <2> HIDE DEF percent, most, legacy
  <2>5. (in.equity * percent) \div most \in Int
    <3>1. most \in Int /\ most > 0 /\ in.equity * percent \in Int
      BY <1>2, <2>2, <2>3 DEF most
    <3> QED
      BY <3>1, SMTT(30)
  <2>6. legacy \in Nat
    BY <2>4, <2>5 DEF Larger
  <2> HIDE DEF s
  <2> QED
    BY <1>4, <2>1, <2>2, <2>6 DEF s
<1> QED
  BY <1>3, <1>4

-----------------------------------------------------------------------------
(* The step that opens a position.                                         *)

\* The last gate before the order is RiskGate's.
LEMMA GatePasses ==
  ASSUME NEW in, NEW c, NEW s, SizeReason(in, c, s) = "go"
  PROVE  /\ s.fits # 0 /\ s.order # 0
         /\ GateRefusal(Structural(Wing, c.quote.natural), s.order, in.equity,
                        Cardinality(book)) = "ok"
<1> DEFINE none == s.fits = 0
           daily == s.order = 0
           lost == AggregateRiskBudget /\ TodaysPnl(in) =< -(HaltPct * in.equity)
           refused == GateRefusal(Structural(Wing, c.quote.natural), s.order, in.equity,
                                  Cardinality(book)) # "ok"
           gates == << Gate(none, "risk_budget"), Gate(daily, "daily_risk"),
                       Gate(lost, "day_loss_halt"), Gate(refused, "risk_gate") >>
<1>1. FirstReason(gates) = "go"
  BY DEF SizeReason
<1> HIDE DEF none, daily, lost, refused
<1>2. DOMAIN gates = 1..4 /\ \A i \in 1..4 : gates[i].reason # "go"
  BY DEF Gate
<1>3. gates[1].blocks = none /\ gates[2].blocks = daily /\ gates[4].blocks = refused
  BY DEF Gate
<1>4. \A i \in 1..4 : ~gates[i].blocks
  <2>1. DOMAIN gates \subseteq Nat /\ \A i \in DOMAIN gates : gates[i].reason # "go"
    BY <1>2
  <2> HIDE DEF gates
  <2> QED
    BY <1>1, <1>2, <2>1, GoPassesEveryGate
<1>5. ~none /\ ~daily /\ ~refused
  <2>1. ~gates[1].blocks /\ ~gates[2].blocks /\ ~gates[4].blocks
    BY <1>4
  <2> HIDE DEF gates
  <2> QED
    BY <1>3, <2>1, Zenon
<1> QED
  BY <1>5, Zenon DEF none, daily, refused

\* The first gates: there is room for a position and for an entry.
LEMMA EarlyPasses ==
  ASSUME NEW in, EarlyReason(in) = "go"
  PROVE  ~(Cardinality(book) >= MaxOpen) /\ ~(EntriesSoFar >= MaxEntries)
<1> DEFINE weekday == day \notin EntryDays
           hours == window = 0
           full == Cardinality(book) >= MaxOpen
           enough == EntriesSoFar >= MaxEntries
           poor == bot = "live" /\ in.equity < MinEquity
           gates == << Gate(halted, "halted"), Gate(weekday, "wrong_weekday"),
                       Gate(hours, "off_hours"), Gate(full, "max_open"),
                       Gate(enough, "max_entries"), Gate(in.riskOff, "trend_paused"),
                       Gate(poor, "min_equity") >>
<1>1. FirstReason(gates) = "go"
  BY DEF EarlyReason
<1> HIDE DEF weekday, hours, full, enough, poor
<1>2. DOMAIN gates = 1..7 /\ \A i \in 1..7 : gates[i].reason # "go"
  BY DEF Gate
<1>3. gates[4].blocks = full /\ gates[5].blocks = enough
  BY DEF Gate
<1>4. \A i \in 1..7 : ~gates[i].blocks
  <2>1. DOMAIN gates \subseteq Nat /\ \A i \in DOMAIN gates : gates[i].reason # "go"
    BY <1>2
  <2> HIDE DEF gates
  <2> QED
    BY <1>1, <1>2, <2>1, GoPassesEveryGate
<1>5. ~full /\ ~enough
  <2>1. ~gates[4].blocks /\ ~gates[5].blocks
    BY <1>4
  <2> HIDE DEF gates
  <2> QED
    BY <1>3, <2>1, Zenon
<1> QED
  BY <1>5, Zenon DEF full, enough

\* An order for c, sized s, is answered with a fill that is booked.
Opening(in, c, s, fill) ==
  /\ c = Candidate(in) /\ s = Sizing(in, c)
  /\ EarlyReason(in) = "go" /\ QuoteReason(c) = "go" /\ CreditReason(in, c) = "go"
  /\ ~SizingRaises(in, c) /\ SizeReason(in, c, s) = "go"
  /\ fill \in Fills(c, s) /\ fill.qty > 0
  /\ Record(c, fill.qty, BookedCredit(c, fill)) /\ Submit(c, s, fill)
  /\ \E reason : decision' = SizedRow(in, c, s, reason)

\* What a cycle may do to each group of variables.
CycleParts(in) ==
  /\ StartCycle
  /\ UNCHANGED creditVars \/ Observe(Candidate(in))
  /\ UNCHANGED << signals, lastMarkout >> \/ \E c, filled : Signal(c, filled)
  /\ UNCHANGED dayVars \/ \E s : DayStarts(s)
  /\ halted' = halted \/ \E fill : halted' = (halted \/ ~fill.balanced)
  /\ NoRecord \/ \E c, s, fill : Opening(in, c, s, fill)

\* Every cycle does one of these to each group.
LEMMA CycleHasParts ==
  ASSUME NEW in \in Inputs, Cycle(in)
  PROVE  CycleParts(in)
<1>1. CASE BlockedEarly(in)
  BY <1>1, Zenon DEF BlockedEarly, CycleParts, NoRecord, bookVars
<1>2. CASE Considered(in)
  <2>1. PICK c : /\ c = Candidate(in) /\ EarlyReason(in) = "go"
                 /\ BlockedByQuotes(in, c) \/ BlockedByCredit(in, c) \/ Sized(in, c)
    BY <1>2, Zenon DEF Considered
  <2>2. CASE BlockedByQuotes(in, c)
    <3>1. UNCHANGED << signals, lastMarkout >> \/ Signal(c, FALSE)
      BY <2>2, Zenon DEF BlockedByQuotes
    <3> QED
      BY <2>2, <3>1, Zenon DEF BlockedByQuotes, CycleParts, NoRecord, bookVars
  <2>3. CASE BlockedByCredit(in, c)
    BY <2>1, <2>3, Zenon DEF BlockedByCredit, CycleParts, NoRecord, bookVars
  <2>4. CASE Sized(in, c)
    <3>1. PICK s : s = Sizing(in, c) /\ (BlockedBySize(in, c, s) \/ Answered(in, c, s))
      BY <2>4, Zenon DEF Sized
    <3>2. CASE BlockedBySize(in, c, s)
      BY <2>1, <3>2, Zenon DEF BlockedBySize, CycleParts, NoRecord, bookVars
    <3>3. CASE Answered(in, c, s)
      <4>1. PICK fill \in Fills(c, s) : \/ Filled(in, c, s, fill) \/ FilledOneLeg(in, c, s, fill)
                                        \/ FilledInPart(in, c, s, fill) \/ NotFilled(in, c, s, fill)
        BY <3>3, Zenon DEF Answered
      <4>2. Submit(c, s, fill) /\ \E filled : Signal(c, filled)
        BY <4>1, Zenon DEF Filled, FilledOneLeg, FilledInPart, NotFilled
      <4>3. CASE Filled(in, c, s, fill) \/ FilledInPart(in, c, s, fill)
        <5>1. fill.qty > 0 /\ Record(c, fill.qty, BookedCredit(c, fill))
              /\ \E reason : decision' = SizedRow(in, c, s, reason)
          BY <4>3, Zenon DEF Filled, FilledInPart, Log
        <5>2. SizeReason(in, c, s) = "go"
          BY <3>3, Zenon DEF Answered
        <5>3. QuoteReason(c) = "go" /\ CreditReason(in, c) = "go" /\ ~SizingRaises(in, c)
          BY <2>4, Zenon DEF Sized
        <5>4. Opening(in, c, s, fill)
          BY <2>1, <3>1, <4>1, <4>2, <5>1, <5>2, <5>3, Zenon DEF Opening
        <5> QED
          BY <2>1, <4>2, <5>4, Zenon DEF CycleParts, Submit
      <4>4. CASE FilledOneLeg(in, c, s, fill) \/ NotFilled(in, c, s, fill)
        <5>1. NoRecord
          BY <4>4, Zenon DEF FilledOneLeg, NotFilled
        <5> QED
          BY <2>1, <4>2, <5>1, Zenon DEF CycleParts, Submit
      <4> QED
        BY <4>1, <4>3, <4>4
    <3> QED
      BY <3>1, <3>2, <3>3
  <2> QED
    BY <2>1, <2>2, <2>3, <2>4
<1> QED
  BY <1>1, <1>2 DEF Cycle

\* A cycle that changes the book opens a position.
LEMMA OpeningStep ==
  ASSUME NEW in \in Inputs, Cycle(in), book' # book
  PROVE  \E c, s, fill : Opening(in, c, s, fill)
BY CycleHasParts, Zenon DEF CycleParts, NoRecord

\* What an opening step books: at most what was ordered, at a price of the order.
LEMMA OpenedPosition ==
  ASSUME NEW in \in Inputs, OwnBook(book), day \in 1..NumDays, NEW c, NEW s, NEW fill,
         Opening(in, c, s, fill)
  PROVE  LET new == [Proposal(c.quote.short, c.expiry, BookedCredit(c, fill))
                       EXCEPT !.qty = fill.qty]
         IN  /\ book' = book \cup {new} /\ new \in OwnPositions
             /\ new = [short |-> c.quote.short, expiry |-> c.expiry, day |-> day,
                       qty |-> fill.qty, credit |-> BookedCredit(c, fill)]
             /\ \A p \in book : ~(p.short = new.short /\ p.expiry = new.expiry)
             /\ fill.qty \in Nat /\ fill.qty > 0 /\ fill.qty <= s.order
             /\ ~ActualFillAccounting => new.credit = c.quote.natural
<1> DEFINE new == [Proposal(c.quote.short, c.expiry, BookedCredit(c, fill))
                     EXCEPT !.qty = fill.qty]
           credit == BookedCredit(c, fill)
<1>1. c.expiry \in Expiries /\ c.quote \in Quotes /\ c.credit = Priced(c.quote)
  BY CandidateTypes DEF Opening
<1>2. /\ c.quote.short \in Strikes /\ c.quote.natural \in Int /\ c.quote.natural > 0
      /\ c.credit \in Int /\ c.credit > 0
  BY <1>1, OrderedQuotes, PriceIsAnInteger DEF Opening
<1>3. s.order \in Nat
  BY SizingTypes DEF Opening
<1>4. fill.qty \in Nat /\ fill.qty > 0 /\ fill.qty <= s.order
      /\ fill.price \in {c.quote.natural, c.credit}
  <2>1. fill \in Fills(c, s) /\ fill.qty > 0
    BY DEF Opening
  <2>2. fill.qty \in 0..s.order /\ fill.price \in {c.quote.natural, c.credit}
    BY <2>1 DEF Fills
  <2> QED
    BY <1>3, <2>1, <2>2
<1>5. credit \in Nat \ {0} /\ (~ActualFillAccounting => credit = c.quote.natural)
  BY <1>2, <1>4 DEF BookedCredit
<1>6. new = [short |-> c.quote.short, expiry |-> c.expiry, day |-> day,
             qty |-> fill.qty, credit |-> credit]
  BY DEF Proposal
<1>7. book' = book \cup {new}
  BY DEF Opening, Record
<1> HIDE DEF new, credit
<1>8. new \in OwnPositions
  BY <1>1, <1>2, <1>4, <1>5, <1>6 DEF OwnPositions
<1>9. new.short = c.quote.short /\ new.expiry = c.expiry /\ new.credit = credit
  BY <1>6
<1>10. \A p \in book : ~(p.short = new.short /\ p.expiry = new.expiry)
  BY <1>9, NoDuplicateStrikes DEF Opening
<1> QED
  BY <1>4, <1>5, <1>6, <1>7, <1>8, <1>9, <1>10 DEF new, credit
\* _record_open after the gate of the strikes.
LEMMA RecordKeepsApart ==
  ASSUME NEW in, NEW c, NEW qty, NEW credit, NeverStacked,
         CreditReason(in, c) = "go", Record(c, qty, credit)
  PROVE  NeverStacked'
<1> DEFINE new == [Proposal(c.quote.short, c.expiry, credit) EXCEPT !.qty = qty]
<1>1. book' = book \cup {new}
  BY DEF Record
<1>2. new.short = c.quote.short /\ new.expiry = c.expiry
  BY DEF Proposal
<1>3. \A p \in book : ~(p.short = new.short /\ p.expiry = new.expiry)
  BY <1>2, NoDuplicateStrikes
<1> HIDE DEF new
<1> QED
  BY <1>1, <1>3, Zenon DEF NeverStacked

\* Every cycle keeps the strikes apart.
LEMMA CycleKeepsApart ==
  ASSUME NEW in \in Inputs, NeverStacked, Cycle(in)
  PROVE  NeverStacked'
<1>1. CASE book' = book
  BY <1>1, Zenon DEF NeverStacked
<1>2. ASSUME NEW c, NEW s, NEW fill, Opening(in, c, s, fill) PROVE NeverStacked'
  BY <1>2, RecordKeepsApart, Zenon DEF Opening
<1> QED
  BY <1>1, <1>2, OpeningStep, Zenon

\* orchestrator.py:1250-1256: two open positions never share strikes and
\* expiration, whatever the market, the fills and the other programs do.
THEOREM StrikesAreApart == Spec => []NeverStacked
<1>1. Init => NeverStacked
  BY DEF Init, NeverStacked
<1>2. NeverStacked /\ [Next]_vars => NeverStacked'
  <2> SUFFICES ASSUME NeverStacked, [Next]_vars PROVE NeverStacked'
    OBVIOUS
  <2>1. ASSUME NEW in \in Inputs, Cycle(in) PROVE NeverStacked'
    BY <2>1, CycleKeepsApart
  <2>2. CASE Between
    <3>1. book' \subseteq book
      BY <2>2, Zenon DEF Between, Elapse, OperatorClears, Close, bookVars
    <3> QED
      BY <3>1, Zenon DEF NeverStacked
  <2>3. CASE UNCHANGED vars
    BY <2>3, Zenon DEF vars, bookVars, NeverStacked
  <2> QED
    BY <2>1, <2>2, <2>3, Zenon DEF Next
<1> QED
  BY <1>1, <1>2, PTL DEF Spec

-----------------------------------------------------------------------------
(* The limits of the whole book.                                           *)

\* A position added to the book adds its structural risk and its gap loss.
LEMMA SumsWithOne ==
  ASSUME NEW b, Sums(b), NEW p \in Positions, p \notin b
  PROVE  /\ StructuralOf(b \cup {p}, Wing)
              = Structural(Wing, p.credit) * p.qty + StructuralOf(b, Wing)
         /\ \A s \in Scenarios :
              GapLossOf(b \cup {p}, s) = GapLoss(p, Wing, s) + GapLossOf(b, s)
<1>0. /\ IsFiniteSet(b)
      /\ \A q \in b \cup {p} : q.credit \in Nat /\ q.qty \in Nat /\ q.short \in Strikes
  BY DEF Sums, Positions
<1>1. StructuralOf(b \cup {p}, Wing) = Structural(Wing, p.credit) * p.qty + StructuralOf(b, Wing)
  <2> DEFINE f == [q \in b |-> Structural(Wing, q.credit) * q.qty]
             g == [q \in b \cup {p} |-> Structural(Wing, q.credit) * q.qty]
  <2>1. \A q \in b \cup {p} : g[q] \in Int
    BY <1>0, ConstantTypes DEF Structural
  <2>2. /\ DOMAIN f = b /\ DOMAIN g = b \cup {p} /\ \A q \in b : f[q] = g[q]
        /\ g[p] = Structural(Wing, p.credit) * p.qty
    OBVIOUS
  <2> HIDE DEF f, g
  <2>3. SumFunction(g) = g[p] + SumFunction(f)
    BY <1>0, <2>1, <2>2, TotalWithOne
  <2> QED
    BY <2>2, <2>3 DEF f, g, StructuralOf
<1>2. ASSUME NEW s \in Scenarios
      PROVE  GapLossOf(b \cup {p}, s) = GapLoss(p, Wing, s) + GapLossOf(b, s)
  <2> DEFINE f == [q \in b |-> GapLoss(q, Wing, s)]
             g == [q \in b \cup {p} |-> GapLoss(q, Wing, s)]
  <2>1. \A q \in b \cup {p} : g[q] \in Int
    <3> SUFFICES ASSUME NEW q \in b \cup {p} PROVE GapLoss(q, Wing, s) \in Int
      OBVIOUS
    <3>1. Debit(q, s) \in Nat
      BY <1>0, ConstantTypes DEF Debit
    <3> QED
      BY <1>0, <3>1, ConstantTypes DEF GapLoss, Smaller
  <2>2. /\ DOMAIN f = b /\ DOMAIN g = b \cup {p} /\ \A q \in b : f[q] = g[q]
        /\ g[p] = GapLoss(p, Wing, s)
    OBVIOUS
  <2> HIDE DEF f, g
  <2>3. SumFunction(g) = g[p] + SumFunction(f)
    BY <1>0, <2>1, <2>2, TotalWithOne
  <2> QED
    BY <2>2, <2>3 DEF f, g, GapLossOf
<1> QED
  BY <1>1, <1>2

\* The gap loss of a position is that of one contract, as often as it has them.
LEMMA GapOfQty ==
  ASSUME NEW p, p.short \in Strikes, p.credit \in Int, p.qty \in Nat, NEW s \in Scenarios
  PROVE  /\ GapOfOne(p.short, p.credit, Wing, s) \in Int
         /\ GapLoss(p, Wing, s) = GapOfOne(p.short, p.credit, Wing, s) * p.qty
         /\ GapLoss(p, Wing, s) <= Larger(0, GapOfOne(p.short, p.credit, Wing, s)) * p.qty
<1> DEFINE one == GapOfOne(p.short, p.credit, Wing, s)
<1>1. Stress[p.short][s] \in Nat
  BY ConstantTypes
<1>2. one \in Int
  BY <1>1, ConstantTypes DEF GapOfOne, Smaller
<1>3. GapLoss(p, Wing, s) = one * p.qty
  BY DEF GapLoss, GapOfOne, Debit
<1> HIDE DEF one
<1>4. one * p.qty <= Larger(0, one) * p.qty
  <2>1. CASE one >= 0
    BY <1>2, <2>1 DEF Larger
  <2>2. CASE one < 0
    <3>1. one * p.qty <= 0
      BY <1>2, <2>2, SMTT(30)
    <3>2. Larger(0, one) = 0
      BY <1>2, <2>2 DEF Larger
    <3> QED
      BY <3>1, <3>2
  <2> QED
    BY <1>2, <2>1, <2>2
<1> QED
  BY <1>2, <1>3, <1>4 DEF one

\* What the row of a sized candidate says.
LEMMA RowFields ==
  ASSUME NEW in, NEW c, NEW s, NEW reason
  PROVE  LET row == SizedRow(in, c, s, reason)
         IN  /\ row.credit = c.credit /\ row.read = << in >> /\ row.expiry = c.expiry
             /\ row.requested = s.requested /\ row.fits = s.fits /\ row.order = s.order
             /\ row.reason = reason
BY DEF SizedRow, RowOf, Row

\* The other programs' spreads, worked out from the books.
LEMMA OthersAreForeign ==
  ASSUME NEW in \in Inputs, OwnBook(book), NEW new, new \notin book
  PROVE  LET mine == (book \cup {new}) \ {new}
         IN  mine = book /\ Everything(in, mine) \ mine = Foreign(in)
<1>1. (book \cup {new}) \ {new} = book
  OBVIOUS
<1>2. Everything(in, book) = book \cup Foreign(in)
  BY Zenon DEF Everything, Foreign, ForeignSpreads
<1>3. Foreign(in) \cap book = {}
  BY ForeignSums DEF Foreign
<1> QED
  BY <1>1, <1>2, <1>3

\* The daily gate drops yesterday's result before it reads it.
LEMMA DayStartsKeepsLoss ==
  ASSUME realized \in Int, NEW s, s.fits > 0, AggregateRiskBudget, DayStarts(s)
  PROVE  (IF riskDay' = day /\ realized' < 0 THEN -realized' ELSE 0) = LostToday
<1>1. CASE riskDay = day
  <2>1. UNCHANGED dayVars
    BY <1>1, Zenon DEF DayStarts
  <2> QED
    BY <2>1 DEF dayVars, LostToday
<1>2. CASE riskDay # day
  <2>1. realized' = 0
    BY <1>2, Zenon DEF DayStarts
  <2> QED
    BY <1>2, <2>1 DEF LostToday
<1> QED
  BY <1>1, <1>2

\* Risk grows with the contracts.
LEMMA MoreCostsMore ==
  ASSUME NEW each \in Int, each >= 0, NEW few \in Int, NEW many \in Int, few <= many
  PROVE  each * few <= each * many
<1>1. each * (many - few) >= 0
  BY SMTT(30)
<1>2. each * (many - few) = each * many - each * few
  BY SMTT(30)
<1> QED
  BY <1>1, <1>2, SMTT(30)

\* The order of a cycle, whole or in part, keeps the limits.
LEMMA OrderedWithinLimits ==
  ASSUME NEW in \in Inputs, OwnBook(book), day \in 1..NumDays, realized \in Int,
         AggregateRiskBudget,
         NEW c, c = Candidate(in), NEW s, s = Sizing(in, c), QuoteReason(c) = "go",
         NEW qty \in Nat, qty > 0, qty <= s.order
  PROVE  /\ WithinLimits(in, c.quote.short, c.expiry, c.credit, qty)
         /\ LostToday + StopOf({p \in book : p.day = day}, Marks(in))
              + PlannedStop(Wing, c.credit) * qty <= in.equity * DayPct
<1> DEFINE caps == CapsOf(in, c.quote.short, c.expiry, Wing, c.credit)
<1>1. /\ c.expiry \in Expiries /\ c.quote \in Quotes /\ c.credit \in Int
      /\ c.quote.short \in Strikes
  BY CandidateTypes, OrderedQuotes, PriceIsAnInteger
<1>2. /\ s.requested \in Nat /\ s.fits \in Nat /\ s.order \in Nat
      /\ s.order <= s.fits /\ s.fits <= s.requested
      /\ s.fits = SizeToLimits(s.requested, caps).qty
      /\ s.order = Daily(in, c, s.fits)
      /\ s.requested > 0 => PlannedStop(Wing, c.credit) > 0
  <2>1. ~SizingRaises(in, c)
    BY Zenon DEF SizingRaises
  <2> QED
    BY <2>1, SizingTypes
<1>3. WithinLimits(in, c.quote.short, c.expiry, c.credit, qty)
  <2>1. s.requested \in Nat /\ qty <= SizeToLimits(s.requested, caps).qty
    BY <1>2
  <2> QED
    BY <1>1, <2>1, SizedWithinLimits
<1>4. LostToday + StopOf({p \in book : p.day = day}, Marks(in))
        + PlannedStop(Wing, c.credit) * s.order <= in.equity * DayPct
  <2>1. s.fits \in Nat /\ s.order > 0
    BY <1>2
  <2> QED
    BY <1>2, <2>1, DayQtyFits, Zenon DEF Daily
<1>5. /\ PlannedStop(Wing, c.credit) * qty <= PlannedStop(Wing, c.credit) * s.order
      /\ PlannedStop(Wing, c.credit) * qty \in Int
      /\ PlannedStop(Wing, c.credit) * s.order \in Int
  <2>1. PlannedStop(Wing, c.credit) \in Int
    <3>1. Wing \in Int
      BY ConstantTypes
    <3> QED
      BY <1>1, <3>1, StopsAreIntegers, Zenon
  <2>2. PlannedStop(Wing, c.credit) > 0
    BY <1>2
  <2> QED
    BY <1>2, <2>1, <2>2, MoreCostsMore
<1>6. LostToday + StopOf({p \in book : p.day = day}, Marks(in)) \in Int
  <2> DEFINE today == {p \in book : p.day = day}
  <2>1. Sums(today) /\ \A p \in today : Marks(in)[p] \in Int
    BY OwnBookSums, SubsetSums, MarksAreIntegers
  <2>2. StopOf(today, Marks(in)) \in Int
    <3> HIDE DEF today
    <3> QED
      BY <2>1, TotalsAreIntegers
  <2>3. LostToday \in Int
    BY DEF LostToday
  <2> QED
    BY <2>2, <2>3
<1>7. in.equity * DayPct \in Int
  BY ReadingTypes, ConstantTypes
<1>8. LostToday + StopOf({p \in book : p.day = day}, Marks(in))
        + PlannedStop(Wing, c.credit) * qty <= in.equity * DayPct
  BY <1>4, <1>5, <1>6, <1>7
<1> QED
  BY <1>3, <1>8

\* With a position of that order in it, the book keeps the totals' limits.
LEMMA BookWithOrder ==
  ASSUME NEW in \in Inputs, OwnBook(book), NEW judged \in Positions, judged \notin book,
         judged.day # 0,
         WithinLimits(in, judged.short, judged.expiry, judged.credit, judged.qty)
  PROVE  /\ StructuralOf(book \cup {judged}, Wing) + StructuralOf(Foreign(in), Wing)
              <= StructuralPct * in.equity
         /\ \A s \in Scenarios :
              GapLossOf(book \cup {judged} \cup Foreign(in), s) <= GapPct[s] * in.equity
<1>0. /\ judged.short \in Strikes /\ judged.credit \in Nat /\ judged.qty \in Nat
      /\ in.equity \in Int
  BY ReadingTypes DEF Positions
<1>1. /\ Sums(book \cup Foreign(in)) /\ Sums(book) /\ Sums(Foreign(in))
      /\ judged \notin Foreign(in)
  BY WholeBookSums, ForeignSums DEF Foreign
<1>2. StructuralOf(book \cup {judged}, Wing) + StructuralOf(Foreign(in), Wing)
        <= StructuralPct * in.equity
  <2> DEFINE each == Structural(Wing, judged.credit)
             booked == StructuralOf(book, Wing)
             others == StructuralOf(Foreign(in), Wing)
  <2>1. StructuralOf(book \cup {judged}, Wing) = each * judged.qty + booked
    BY <1>1, SumsWithOne
  <2>2. (booked + others) + each * judged.qty <= in.equity * StructuralPct
    BY Zenon DEF WithinLimits, ForeignStructural
  <2>3. booked \in Int /\ others \in Int /\ each \in Int
    BY <1>0, <1>1, TotalsAreIntegers, ConstantTypes DEF Structural
  <2>4. StructuralPct * in.equity = in.equity * StructuralPct
    BY <1>0, ConstantTypes
  <2>5. each * judged.qty \in Int
    BY <1>0, <2>3
  <2> HIDE DEF each, booked, others
  <2> QED
    BY <2>1, <2>2, <2>3, <2>4, <2>5 DEF others
<1>3. ASSUME NEW s \in Scenarios
      PROVE  GapLossOf(book \cup {judged} \cup Foreign(in), s) <= GapPct[s] * in.equity
  <2> DEFINE whole == book \cup Foreign(in)
             more == Larger(0, GapOfOne(judged.short, judged.credit, Wing, s)) * judged.qty
  <2>1. book \cup {judged} \cup Foreign(in) = whole \cup {judged} /\ judged \notin whole
    BY <1>1
  <2>2. GapLossOf(whole \cup {judged}, s) = GapLoss(judged, Wing, s) + GapLossOf(whole, s)
    BY <1>1, <2>1, SumsWithOne
  <2>3. GapLossOf(whole, s) + more <= in.equity * GapPct[s]
    BY Zenon DEF WithinLimits
  <2>4. /\ GapLoss(judged, Wing, s) <= more
        /\ GapOfOne(judged.short, judged.credit, Wing, s) \in Int
        /\ GapLoss(judged, Wing, s) = GapOfOne(judged.short, judged.credit, Wing, s) * judged.qty
    BY <1>0, GapOfQty
  <2>5. GapLoss(judged, Wing, s) \in Int /\ GapLossOf(whole, s) \in Int /\ more \in Int
    BY <1>0, <1>1, <2>4, TotalsAreIntegers DEF Larger
  <2>6. GapPct[s] * in.equity = in.equity * GapPct[s] /\ in.equity * GapPct[s] \in Int
    <3>1. GapPct[s] \in Int
      BY ConstantTypes
    <3> QED
      BY <1>0, <3>1
  <2>7. GapLossOf(book \cup {judged} \cup Foreign(in), s)
          = GapLoss(judged, Wing, s) + GapLossOf(whole, s)
    BY <2>1, <2>2, Zenon
  <2> DEFINE loss == GapLoss(judged, Wing, s)
             booked == GapLossOf(whole, s)
             limit == in.equity * GapPct[s]
  <2>8. loss + booked <= limit
    <3>1. /\ loss <= more /\ booked + more <= limit
          /\ loss \in Int /\ booked \in Int /\ more \in Int /\ limit \in Int
      BY <2>3, <2>4, <2>5, <2>6, Zenon
    <3> HIDE DEF loss, booked, limit, more
    <3> QED
      BY <3>1
  <2> QED
    BY <2>6, <2>7, <2>8, Zenon
<1> QED
  BY <1>2, <1>3

\* The legacy bot's order keeps the per-trade cap, although it is never sized
\* below one contract.
LEMMA LegacyKeepsCap ==
  ASSUME NEW in \in Inputs, OwnBook(book), day \in 1..NumDays, ~AggregateRiskBudget,
         NEW c, NEW s, NEW fill, Opening(in, c, s, fill),
         NEW qty \in Nat, qty <= s.order
  PROVE  Structural(Wing, c.quote.natural) * qty <= GatePct * in.equity
<1> DEFINE each == Structural(Wing, c.quote.natural)
<1>1. s.order \in Nat /\ each > 0
  BY SizingTypes DEF Opening
<1>2. each \in Int /\ in.equity \in Int /\ GatePct \in Nat
  <2>1. c.quote \in Quotes
    BY CandidateTypes DEF Opening
  <2>2. c.quote.natural \in Int /\ Wing \in Int
    BY <2>1, PriceIsAnInteger, ConstantTypes
  <2> QED
    BY <2>2, ReadingTypes, ConstantTypes DEF Structural
<1>3. ~(each * s.order > in.equity * GatePct)
  <2>1. GateRefusal(each, s.order, in.equity, Cardinality(book)) = "ok"
    BY GatePasses DEF Opening
  <2>2. "per-trade risk exceeds cap" # "ok"
    OBVIOUS
  <2> HIDE DEF each
  <2> QED
    BY <2>1, <2>2, Zenon DEF GateRefusal
<1> HIDE DEF each
<1>4. each * qty <= each * s.order
  BY <1>1, <1>2, MoreCostsMore
<1>5. /\ each * qty \in Int /\ each * s.order \in Int
      /\ GatePct * in.equity = in.equity * GatePct /\ in.equity * GatePct \in Int
  BY <1>1, <1>2
<1> QED
  BY <1>3, <1>4, <1>5 DEF each

\* run_entry_cycle's promise, for the step that opens a position.
LEMMA OpeningKeepsLimits ==
  ASSUME NEW in \in Inputs, OwnBook(book), day \in 1..NumDays, realized \in Int,
         NEW c, NEW s, NEW fill, Opening(in, c, s, fill), NEW new \in book' \ book
  PROVE  KeepsLimits(decision'.read[1], decision', new)
<1> DEFINE judged == [new EXCEPT !.credit = c.credit]
           stop == PlannedStop(Wing, c.credit) * new.qty
           others == Everything(in, book' \ {new}) \ (book' \ {new})
           lost == IF riskDay' = day /\ realized' < 0 THEN -realized' ELSE 0
           sameDay == StopOf({p \in book : p.day = day}, Marks(in))
           sameExpiry == StopOf({p \in book : p.expiry = new.expiry}, Marks(in))
<1>1. /\ book' = book \cup {new} /\ new \in OwnPositions
      /\ new = [short |-> c.quote.short, expiry |-> c.expiry, day |-> day,
                qty |-> fill.qty, credit |-> BookedCredit(c, fill)]
      /\ \A p \in book : ~(p.short = new.short /\ p.expiry = new.expiry)
      /\ fill.qty \in Nat /\ fill.qty > 0 /\ fill.qty <= s.order
      /\ ~ActualFillAccounting => new.credit = c.quote.natural
  <2> DEFINE opened == [Proposal(c.quote.short, c.expiry, BookedCredit(c, fill))
                          EXCEPT !.qty = fill.qty]
  <2>1. /\ book' = book \cup {opened} /\ opened \in OwnPositions
        /\ opened = [short |-> c.quote.short, expiry |-> c.expiry, day |-> day,
                     qty |-> fill.qty, credit |-> BookedCredit(c, fill)]
        /\ \A p \in book : ~(p.short = opened.short /\ p.expiry = opened.expiry)
        /\ fill.qty \in Nat /\ fill.qty > 0 /\ fill.qty <= s.order
        /\ ~ActualFillAccounting => opened.credit = c.quote.natural
    BY OpenedPosition
  <2> HIDE DEF opened
  <2>2. new = opened
    BY <2>1, Zenon
  <2> QED
    BY <2>1, <2>2, Zenon
<1>2. /\ new.short = c.quote.short /\ new.expiry = c.expiry /\ new.qty = fill.qty
      /\ new.day = day
  BY <1>1
<1>3. decision'.read[1] = in /\ decision'.credit = c.credit
  <2>1. PICK reason : decision' = SizedRow(in, c, s, reason)
    BY DEF Opening
  <2> DEFINE row == SizedRow(in, c, s, reason)
  <2>2. row.credit = c.credit /\ row.read = << in >>
    BY RowFields
  <2> HIDE DEF row
  <2>3. decision' = row
    BY <2>1 DEF row
  <2> QED
    BY <2>2, <2>3
<1>4. c = Candidate(in) /\ s = Sizing(in, c) /\ QuoteReason(c) = "go"
  BY DEF Opening
<1>5. c.credit \in Int /\ c.credit > 0 /\ in.equity \in Int
  <2>1. c.quote \in Quotes /\ c.credit = Priced(c.quote)
    BY <1>4, CandidateTypes
  <2> QED
    BY <1>4, <2>1, OrderedQuotes, PriceIsAnInteger, ReadingTypes
<1>6. CASE ~AggregateRiskBudget
  <2>1. new.credit = c.quote.natural
    BY <1>1, <1>6 DEF AggregateRiskBudget, ActualFillAccounting
  <2>2. Structural(Wing, new.credit) * new.qty <= GatePct * in.equity
    BY <1>1, <1>2, <1>6, <2>1, LegacyKeepsCap
  <2> QED
    BY <1>3, <1>6, <2>2 DEF KeepsLimits
<1>7. CASE AggregateRiskBudget
  <2>1. /\ WithinLimits(in, new.short, new.expiry, c.credit, new.qty)
        /\ LostToday + sameDay + stop <= in.equity * DayPct
    BY <1>1, <1>2, <1>4, <1>7, OrderedWithinLimits
  <2>2. lost = LostToday
    <3>1. DayStarts(s) /\ s.fits > 0
      <4>1. DayStarts(s) /\ s.fits # 0 /\ s.fits \in Nat
        BY <1>4, SizingTypes, GatePasses DEF Opening, Submit
      <4> QED
        BY <4>1
    <3> QED
      BY <1>7, <3>1, DayStartsKeepsLoss
  <2>3. new \notin book /\ others = Foreign(in)
    <3>1. LET mine == (book \cup {new}) \ {new}
          IN  mine = book /\ Everything(in, mine) \ mine = Foreign(in)
      BY OthersAreForeign
    <3> QED
      BY <1>1, <3>1
  <2>4. judged \in Positions /\ judged \notin book /\ judged.day # 0
        /\ WithinLimits(in, judged.short, judged.expiry, judged.credit, judged.qty)
    <3>1. judged = [short |-> new.short, expiry |-> new.expiry, day |-> new.day,
                    qty |-> new.qty, credit |-> c.credit]
      BY <1>1
    <3> HIDE DEF judged
    <3>2. /\ judged.short = new.short /\ judged.expiry = new.expiry
          /\ judged.day = new.day /\ judged.qty = new.qty /\ judged.credit = c.credit
      BY <3>1
    <3>3. judged \in Positions /\ judged.day # 0
      BY <1>1, <1>5, <3>1, ConstantTypes DEF OwnPositions, Positions
    <3>4. judged \notin book
      BY <1>1, <3>2
    <3> QED
      BY <2>1, <3>2, <3>3, <3>4
  <2>5. /\ StructuralOf(book \cup {judged}, Wing) + StructuralOf(others, Wing)
             <= StructuralPct * in.equity
        /\ \A g \in Scenarios :
             GapLossOf(book \cup {judged} \cup others, g) <= GapPct[g] * in.equity
    <3> HIDE DEF judged, others
    <3> QED
      BY <2>3, <2>4, BookWithOrder
  <2>6. /\ sameExpiry + stop <= in.equity * ExpiryPct
        /\ (StopOf(book, Marks(in)) + ForeignStop(others)) + stop <= in.equity * StopPct
        /\ HasCeiling => new.qty <= 1
    BY <2>1, <2>3, Zenon DEF WithinLimits
  <2>7. /\ sameDay \in Int /\ sameExpiry \in Int /\ StopOf(book, Marks(in)) \in Int
        /\ ForeignStop(others) \in Int /\ stop \in Int /\ LostToday \in Int
    <3>1. Sums(book) /\ Sums(others) /\ \A p \in book : Marks(in)[p] \in Int
      BY <2>3, WholeBookSums, MarksAreIntegers
    <3>2. \A b \in SUBSET book : StopOf(b, Marks(in)) \in Int
      <4> SUFFICES ASSUME NEW b \in SUBSET book PROVE StopOf(b, Marks(in)) \in Int
        OBVIOUS
      <4>1. Sums(b) /\ \A p \in b : Marks(in)[p] \in Int
        BY <3>1, SubsetSums
      <4> QED
        BY <4>1, TotalsAreIntegers
    <3>3. ForeignStop(others) \in Int
      <4> HIDE DEF others
      <4> QED
        BY <3>1, TotalsAreIntegers
    <3>4. stop \in Int
      <4>1. Wing \in Int
        BY ConstantTypes
      <4>2. PlannedStop(Wing, c.credit) \in Int
        BY <1>5, <4>1, StopsAreIntegers, Zenon
      <4> QED
        BY <1>1, <1>2, <4>2
    <3>5. LostToday \in Int
      BY DEF LostToday
    <3> QED
      BY <3>2, <3>3, <3>4, <3>5
  <2>8. /\ DayPct * in.equity = in.equity * DayPct
        /\ ExpiryPct * in.equity = in.equity * ExpiryPct
        /\ StopPct * in.equity = in.equity * StopPct
        /\ in.equity * DayPct \in Int /\ in.equity * ExpiryPct \in Int
        /\ in.equity * StopPct \in Int
    BY <1>5, ConstantTypes
  <2>9. /\ lost + (stop + sameDay) <= DayPct * in.equity
        /\ stop + sameExpiry <= ExpiryPct * in.equity
        /\ (stop + StopOf(book, Marks(in))) + ForeignStop(others) <= StopPct * in.equity
    <3> HIDE DEF stop, sameDay, sameExpiry, lost, others
    <3> QED
      BY <2>1, <2>2, <2>6, <2>7, <2>8
  <2> QED
    BY <1>3, <1>7, <2>5, <2>6, <2>9, Zenon DEF KeepsLimits
<1> QED
  BY <1>6, <1>7

-----------------------------------------------------------------------------
(* The account of the day.                                                 *)

ClockOK == bot \in Bots /\ day \in 1..NumDays /\ window \in 0..NumWindows

BookOK ==
  /\ OwnBook(book) /\ Cardinality(book) <= MaxOpen /\ halted \in BOOLEAN
  /\ entriesToday \in 0..MaxEntries /\ lastEntry \in 0..NumDays

DayOK == realized \in Int /\ riskDay \in 0..NumDays

ObservedOK ==
  /\ history \in [Buckets -> Seq(Int)] /\ \A b \in Buckets : Len(history[b]) <= MaxHistory
  /\ lastSeen = [b \in Buckets |-> lastSeen[b]]
  /\ \A b \in Buckets : Len(lastSeen[b]) <= 1
  /\ \A s, t \in seen : s.key = t.key => s = t

CountedOK ==
  /\ cycles \in Nat /\ raw \in 0..cycles /\ unique \in 0..raw /\ signals \in 0..cycles

\* The inductive invariant: what TypeOK says, and that the book is finite and
\* the observations are sequences.
AccountInv == ClockOK /\ BookOK /\ DayOK /\ ObservedOK /\ CountedOK

\* The invariant holds at the start.
LEMMA AccountInit == ASSUME Init PROVE AccountInv
<1>0. NumDays \in Nat /\ NumDays > 0 /\ NumWindows \in Nat /\ MaxOpen \in Nat /\ MaxEntries \in Nat
      /\ MaxHistory \in Nat
  <2>1. NumDays > 0 /\ MaxHistory \in Nat
    BY EntryAssumption, CreditAssumption DEF EntryAssumption, CreditAssumption
  <2> QED
    BY <2>1, ConstantTypes
<1>1. ClockOK
  BY <1>0 DEF Init, ClockOK
<1>2. BookOK
  <2>1. book = {} /\ IsFiniteSet(book) /\ Cardinality(book) = 0
    BY FS_EmptySet, Zenon DEF Init
  <2>2. halted \in BOOLEAN /\ entriesToday = 0 /\ lastEntry = 0
    BY Zenon DEF Init
  <2>4. OwnBook(book)
    BY <2>1, Zenon DEF OwnBook
  <2>5. Cardinality(book) <= MaxOpen
    BY <1>0, <2>1
  <2> QED
    BY <1>0, <2>1, <2>2, <2>4, <2>5 DEF BookOK
<1>3. DayOK
  BY <1>0 DEF Init, DayOK
<1>4. ObservedOK
  BY <1>0 DEF Init, ObservedOK
<1>5. CountedOK
  BY <1>0 DEF Init, CountedOK
<1> QED
  BY <1>1, <1>2, <1>3, <1>4, <1>5 DEF AccountInv

\* An observation extends the history of its bucket, and no history grows
\* beyond what is kept.
LEMMA LastOfIsBounded ==
  ASSUME NEW old \in Seq(Int), NEW credit \in Int
  PROVE  LastOf(Append(old, credit)) \in Seq(Int)
         /\ Len(LastOf(Append(old, credit))) <= MaxHistory
<1> DEFINE longer == Append(old, credit)
           most == MaxHistory
<1>0. most \in Nat /\ most > 0
  BY CreditAssumption DEF CreditAssumption
<1>1. longer \in Seq(Int) /\ Len(longer) \in Nat
  OBVIOUS
<1> HIDE DEF longer
<1>2. CASE Len(longer) <= most
  <2>1. LastOf(longer) = longer
    BY <1>2 DEF LastOf
  <2> QED
    BY <1>1, <1>2, <2>1 DEF longer
<1>3. CASE Len(longer) > most
  <2> DEFINE first == Len(longer) - most + 1
             rest == SubSeq(longer, first, Len(longer))
  <2>1. first \in 1..(Len(longer) + 1) /\ Len(longer) \in (first - 1)..Len(longer)
    BY <1>0, <1>1, <1>3
  <2>2. rest \in Seq(Int) /\ Len(rest) = IF first <= Len(longer) THEN Len(longer) - first + 1 ELSE 0
    BY <1>1, <2>1, SubSeqProperties
  <2>3. LastOf(longer) = rest
    BY <1>0, <1>1, <1>3 DEF LastOf
  <2>4. Len(rest) <= most
    BY <1>0, <1>1, <2>1, <2>2
  <2> QED
    BY <2>2, <2>3, <2>4 DEF longer
<1> QED
  BY <1>0, <1>1, <1>2, <1>3

\* The observation of a candidate keeps the records of them.
LEMMA ObserveKeeps ==
  ASSUME ObservedOK, CountedOK, NEW c, c.credit \in Int, Observe(c), cycles' = cycles + 1
  PROVE  ObservedOK' /\ raw' \in 0..cycles' /\ unique' \in 0..raw'
<1> DEFINE key == KeyOf(c)
           bucket == Bucket(c.expiry - day)
           sight == [key |-> key, credit |-> c.credit]
<1>1. bucket \in Buckets
  BY DEF Bucket, Buckets
<1>2. history' = history \/ history' = [history EXCEPT ![bucket] = LastOf(Append(@, c.credit))]
  BY DEF Observe
<1>3. lastSeen' = lastSeen \/ lastSeen' = [lastSeen EXCEPT ![bucket] = << sight >>]
  BY DEF Observe
<1>4. seen' = {s \in seen : s.key # key /\ s.key.day = day} \cup {sight}
  BY DEF Observe, Sighted
<1>5. raw' \in 0..cycles' /\ unique' \in 0..raw'
  BY DEF Observe, CountedOK
<1>6. sight.key = key /\ Len(<< sight >>) <= 1
  OBVIOUS
<1> HIDE DEF bucket, key, sight
<1>7. history' \in [Buckets -> Seq(Int)] /\ \A b \in Buckets : Len(history'[b]) <= MaxHistory
  <2> DEFINE longer == LastOf(Append(history[bucket], c.credit))
  <2>1. longer \in Seq(Int) /\ Len(longer) <= MaxHistory
    BY <1>1, LastOfIsBounded DEF ObservedOK
  <2>2. history' = history \/ history' = [history EXCEPT ![bucket] = longer]
    BY <1>2
  <2> HIDE DEF longer
  <2> QED
    BY <1>1, <2>1, <2>2 DEF ObservedOK
<1>8. lastSeen' = [b \in Buckets |-> lastSeen'[b]] /\ \A b \in Buckets : Len(lastSeen'[b]) <= 1
  <2> DEFINE one == << sight >>
  <2>1. Len(one) <= 1 /\ (lastSeen' = lastSeen \/ lastSeen' = [lastSeen EXCEPT ![bucket] = one])
    BY <1>3, <1>6
  <2> HIDE DEF one
  <2> QED
    BY <1>1, <2>1 DEF ObservedOK
<1>9. \A s, t \in seen' : s.key = t.key => s = t
  BY <1>4, <1>6, Zenon DEF ObservedOK
<1> QED
  BY <1>5, <1>7, <1>8, <1>9 DEF ObservedOK

\* A position is booked only where there is room for one, and an entry left.
LEMMA OpeningKeepsBook ==
  ASSUME ClockOK, BookOK, NEW in \in Inputs, NEW c, NEW s, NEW fill, Opening(in, c, s, fill)
  PROVE  /\ OwnBook(book') /\ Cardinality(book') <= MaxOpen
         /\ entriesToday' \in 0..MaxEntries /\ lastEntry' \in 0..NumDays
<1>0. /\ day \in 1..NumDays /\ OwnBook(book) /\ Cardinality(book) <= MaxOpen
      /\ entriesToday \in 0..MaxEntries
  BY DEF ClockOK, BookOK
<1>1. Cardinality(book) \in Nat /\ MaxOpen \in Nat /\ MaxEntries \in Nat /\ NumDays \in Nat
  BY <1>0, FS_CardinalityType, ConstantTypes DEF OwnBook
<1>2. ~(Cardinality(book) >= MaxOpen) /\ ~(EntriesSoFar >= MaxEntries)
  BY EarlyPasses DEF Opening
<1>3. PICK new \in OwnPositions : book' = book \cup {new}
  <2> DEFINE opened == [Proposal(c.quote.short, c.expiry, BookedCredit(c, fill))
                          EXCEPT !.qty = fill.qty]
  <2>1. book' = book \cup {opened} /\ opened \in OwnPositions
    BY <1>0, OpenedPosition
  <2> HIDE DEF opened
  <2> QED
    BY <2>1, Zenon
<1>4. OwnBook(book') /\ Cardinality(book') <= MaxOpen
  <2>1. /\ IsFiniteSet(book \cup {new})
        /\ Cardinality(book \cup {new}) = Cardinality(book)
             \/ Cardinality(book \cup {new}) = Cardinality(book) + 1
    BY <1>0, FS_AddElement DEF OwnBook
  <2>2. OwnBook(book')
    BY <1>0, <1>3, <2>1 DEF OwnBook
  <2> QED
    BY <1>1, <1>2, <1>3, <2>1, <2>2
<1>5. lastEntry' = day /\ entriesToday' = EntriesSoFar + 1
  BY Zenon DEF Opening, Record
<1>6. EntriesSoFar \in 0..MaxEntries
  BY <1>0, <1>1 DEF EntriesSoFar
<1> QED
  BY <1>0, <1>1, <1>2, <1>4, <1>5, <1>6

\* Every entry cycle keeps the invariant.
LEMMA CycleKeepsAccount ==
  ASSUME AccountInv, NEW in \in Inputs, Cycle(in)
  PROVE  AccountInv'
<1>0. ClockOK /\ BookOK /\ DayOK /\ ObservedOK /\ CountedOK /\ CycleParts(in)
  BY CycleHasParts DEF AccountInv
<1>1. StartCycle /\ cycles' = cycles + 1 /\ bot' = bot /\ day' = day /\ window' = window
  BY <1>0, Zenon DEF CycleParts, StartCycle, clockVars
<1>2. ClockOK'
  BY <1>0, <1>1 DEF ClockOK
<1>3. BookOK'
  <2>1. halted' \in BOOLEAN
    BY <1>0, Zenon DEF CycleParts, BookOK
  <2>2. /\ OwnBook(book') /\ Cardinality(book') <= MaxOpen
        /\ entriesToday' \in 0..MaxEntries /\ lastEntry' \in 0..NumDays
    <3>1. CASE NoRecord
      <4>1. book' = book /\ lastEntry' = lastEntry /\ entriesToday' = EntriesSoFar
        BY <3>1, Zenon DEF NoRecord
      <4>2. EntriesSoFar \in 0..MaxEntries
        BY <1>0, ConstantTypes DEF BookOK, EntriesSoFar
      <4> QED
        BY <1>0, <4>1, <4>2, Zenon DEF BookOK
    <3>2. ASSUME NEW c, NEW s, NEW fill, Opening(in, c, s, fill)
          PROVE  /\ OwnBook(book') /\ Cardinality(book') <= MaxOpen
                 /\ entriesToday' \in 0..MaxEntries /\ lastEntry' \in 0..NumDays
      BY <1>0, <3>2, OpeningKeepsBook, Zenon
    <3> QED
      BY <1>0, <3>1, <3>2, Zenon DEF CycleParts
  <2> QED
    BY <2>1, <2>2, Zenon DEF BookOK
<1>4. DayOK'
  <2>1. CASE UNCHANGED dayVars
    BY <1>0, <2>1, Zenon DEF DayOK, dayVars
  <2>2. ASSUME NEW s, DayStarts(s) PROVE DayOK'
    <3>1. (realized' = 0 /\ riskDay' = day) \/ UNCHANGED dayVars
      BY <2>2, Zenon DEF DayStarts
    <3> QED
      BY <1>0, <3>1, ConstantTypes DEF DayOK, dayVars, ClockOK
  <2> QED
    BY <1>0, <2>1, <2>2, Zenon DEF CycleParts
<1>5. ObservedOK' /\ raw' \in 0..cycles' /\ unique' \in 0..raw'
  <2>1. CASE UNCHANGED creditVars
    <3>1. /\ history' = history /\ lastSeen' = lastSeen /\ seen' = seen
          /\ raw' = raw /\ unique' = unique
      BY <2>1, Zenon DEF creditVars
    <3>2. ObservedOK'
      BY <1>0, <3>1, Zenon DEF ObservedOK
    <3> QED
      BY <1>0, <1>1, <3>1, <3>2 DEF CountedOK
  <2>2. CASE Observe(Candidate(in))
    <3>1. Candidate(in).credit \in Int
      BY <1>0, CandidateTypes DEF BookOK, ClockOK
    <3> QED
      BY <1>0, <1>1, <2>2, <3>1, ObserveKeeps
  <2> QED
    BY <1>0, <2>1, <2>2, Zenon DEF CycleParts
<1>6. cycles' \in Nat /\ signals' \in 0..cycles'
  <2>1. signals' = signals \/ signals' = signals + 1
    BY <1>0, Zenon DEF CycleParts, Signal
  <2> QED
    BY <1>0, <1>1, <2>1 DEF CountedOK
<1>7. CountedOK'
  BY <1>5, <1>6 DEF CountedOK
<1> QED
  BY <1>2, <1>3, <1>4, <1>5, <1>7 DEF AccountInv

\* The clock, a close and the operator keep the invariant.
LEMMA BetweenKeepsAccount == ASSUME AccountInv, Between PROVE AccountInv'
<1>0. ClockOK /\ BookOK /\ DayOK /\ ObservedOK /\ CountedOK
  BY DEF AccountInv
<1>1. Idle /\ /\ bot' = bot /\ history' = history /\ lastSeen' = lastSeen /\ seen' = seen
              /\ raw' = raw /\ unique' = unique /\ cycles' = cycles /\ signals' = signals
  BY Zenon DEF Between, Elapse, OperatorClears, Close, Idle, creditVars
<1>2. ObservedOK' /\ CountedOK'
  <2>1. ObservedOK'
    BY <1>0, <1>1, Zenon DEF ObservedOK
  <2>2. CountedOK'
    BY <1>0, <1>1, Zenon DEF CountedOK
  <2> QED
    BY <2>1, <2>2
<1>3. CASE Elapse
  <2>1. /\ book' = book /\ halted' = halted /\ lastEntry' = lastEntry
        /\ entriesToday' = entriesToday /\ realized' = realized /\ riskDay' = riskDay
    BY <1>3, Zenon DEF Elapse, bookVars, dayVars
  <2>2. BookOK' /\ DayOK'
    BY <1>0, <2>1, Zenon DEF BookOK, DayOK
  <2>3. ClockOK'
    BY <1>0, <1>1, <1>3, ConstantTypes DEF ClockOK, Elapse
  <2> QED
    BY <1>2, <2>2, <2>3 DEF AccountInv
<1>4. CASE OperatorClears
  <2>1. /\ book' = book /\ halted' \in BOOLEAN /\ lastEntry' = lastEntry
        /\ entriesToday' = entriesToday /\ realized' = realized /\ riskDay' = riskDay
        /\ day' = day /\ window' = window
    BY <1>4, Zenon DEF OperatorClears, clockVars, dayVars
  <2>2. BookOK' /\ DayOK' /\ ClockOK'
    BY <1>0, <1>1, <2>1, Zenon DEF BookOK, DayOK, ClockOK
  <2> QED
    BY <1>2, <2>2 DEF AccountInv
<1>5. ASSUME NEW p \in book, NEW loss \in Losses, Close(p, -loss) PROVE AccountInv'
  <2>1. /\ book' = book \ {p} /\ halted' = halted /\ lastEntry' = lastEntry
        /\ entriesToday' = entriesToday /\ day' = day /\ window' = window
        /\ realized' = (IF riskDay = day THEN realized ELSE 0) + (-loss) /\ riskDay' = day
    BY <1>5, Zenon DEF Close, clockVars
  <2>2. OwnBook(book') /\ Cardinality(book') <= MaxOpen
    <3>1. IsFiniteSet(book) /\ book \subseteq OwnPositions /\ Cardinality(book) <= MaxOpen
      BY <1>0 DEF BookOK, OwnBook
    <3>2. IsFiniteSet(book') /\ Cardinality(book') = Cardinality(book) - 1
      BY <2>1, <3>1, FS_RemoveElement
    <3>3. Cardinality(book) \in Nat /\ MaxOpen \in Nat
      BY <3>1, FS_CardinalityType, ConstantTypes
    <3> QED
      BY <2>1, <3>1, <3>2, <3>3 DEF OwnBook
  <2>3. BookOK'
    BY <1>0, <2>1, <2>2, Zenon DEF BookOK
  <2>4. DayOK'
    <3>1. loss \in Int
      BY EntryAssumption DEF EntryAssumption
    <3> QED
      BY <1>0, <2>1, <3>1, ConstantTypes DEF DayOK, ClockOK
  <2>5. ClockOK'
    BY <1>0, <1>1, <2>1, Zenon DEF ClockOK
  <2> QED
    BY <1>2, <2>3, <2>4, <2>5 DEF AccountInv
<1> QED
  BY <1>3, <1>4, <1>5, Zenon DEF Between

\* The invariant holds in every state.
LEMMA AccountInvariant == Spec => []AccountInv
<1>1. ASSUME AccountInv, [Next]_vars PROVE AccountInv'
  <2>1. ASSUME NEW in \in Inputs, Cycle(in) PROVE AccountInv'
    BY <1>1, <2>1, CycleKeepsAccount
  <2>2. CASE Between
    BY <1>1, <2>2, BetweenKeepsAccount
  <2>3. CASE UNCHANGED vars
    <3>1. ClockOK' /\ BookOK'
      BY <1>1, <2>3, Zenon DEF AccountInv, ClockOK, BookOK, vars, clockVars, bookVars
    <3>2. DayOK' /\ ObservedOK'
      BY <1>1, <2>3, Zenon DEF AccountInv, DayOK, ObservedOK, vars, dayVars, creditVars
    <3>3. CountedOK'
      BY <1>1, <2>3, Zenon DEF AccountInv, CountedOK, vars, creditVars
    <3> QED
      BY <3>1, <3>2, <3>3, Zenon DEF AccountInv
  <2> QED
    BY <1>1, <2>1, <2>2, <2>3, Zenon DEF Next
<1> QED
  BY <1>1, AccountInit, PTL DEF Spec

\* The account has one quantity at each strikes and expiration, and what is
\* foreign of it is what the bot does not hold.
LEMMA ForeignIsTheRest ==
  ASSUME OwnBook(book), NEW in \in Inputs, NEW a \in in.account
  PROVE  LET own == Quantity(book, a.short, a.expiry)
             foreign == Quantity(ForeignSpreads(in.account, book), a.short, a.expiry)
         IN  own + foreign = Larger(own, Quantity(in.account, a.short, a.expiry))
<1> DEFINE own == Quantity(book, a.short, a.expiry)
           rest == [a EXCEPT !.qty = @ - own]
           spreads == ForeignSpreads(in.account, book)
           At(b) == {q \in b : q.short = a.short /\ q.expiry = a.expiry}
           total(b) == [p \in At(b) |-> p.qty]
<1>0. /\ in.account \subseteq AccountSpreads
      /\ \A b, d \in in.account : b.short = d.short /\ b.expiry = d.expiry => b = d
  BY ReadingTypes
<1>1. own \in Int /\ a.qty \in Nat /\ a.qty > 0
  BY <1>0, OwnBookSums, TotalsAreIntegers DEF AccountSpreads
<1>2. \A b : Quantity(b, a.short, a.expiry) = SumFunction(total(b))
  BY DEF Quantity
<1>3. rest.short = a.short /\ rest.expiry = a.expiry /\ rest.qty = a.qty - own
  BY <1>0 DEF AccountSpreads
<1>4. spreads = {[p EXCEPT !.qty = @ - Quantity(book, p.short, p.expiry)] :
                   p \in {b \in in.account : b.qty > Quantity(book, b.short, b.expiry)}}
  BY DEF ForeignSpreads
<1>5. Quantity(in.account, a.short, a.expiry) = a.qty
  <2>1. At(in.account) = {a}
    BY <1>0
  <2> DEFINE f == total(in.account)
  <2>2. DOMAIN f = {a} /\ f[a] = a.qty
    BY <2>1
  <2>3. SumFunction(f) = SumFunction(total(in.account))
    OBVIOUS
  <2> HIDE DEF f
  <2>4. SumFunction(f) = a.qty
    BY <1>1, <2>2, TotalOfOne
  <2> QED
    BY <1>2, <2>3, <2>4
<1>6. ASSUME NEW p \in in.account, p.short = a.short, p.expiry = a.expiry PROVE p = a
  BY <1>0, <1>6
<1>7. \A p \in in.account :
        LET left == [p EXCEPT !.qty = @ - Quantity(book, p.short, p.expiry)]
        IN  left.short = p.short /\ left.expiry = p.expiry
  BY <1>0 DEF AccountSpreads
<1>8. CASE a.qty > own
  <2>1. At(spreads) = {rest}
    <3>1. rest \in spreads
      BY <1>4, <1>8
    <3>2. \A q \in At(spreads) : q = rest
      BY <1>4, <1>6, <1>7
    <3> HIDE DEF rest, spreads
    <3> QED
      BY <1>3, <3>1, <3>2
  <2> DEFINE f == total(spreads)
  <2>2. DOMAIN f = {rest} /\ f[rest] = a.qty - own
    BY <1>3, <2>1
  <2>3. SumFunction(f) = Quantity(spreads, a.short, a.expiry)
    BY <1>2
  <2> HIDE DEF f, rest, own
  <2>4. SumFunction(f) = a.qty - own
    BY <1>1, <2>2, TotalOfOne
  <2> HIDE DEF spreads
  <2> QED
    BY <1>1, <1>5, <1>8, <2>3, <2>4 DEF Larger, own, spreads
<1>9. CASE ~(a.qty > own)
  <2>1. At(spreads) = {}
    <3>1. \A q \in At(spreads) : FALSE
      BY <1>4, <1>6, <1>7, <1>9
    <3> QED
      BY <3>1
  <2> DEFINE f == total(spreads)
  <2>2. DOMAIN f = {}
    BY <2>1
  <2>3. SumFunction(f) = Quantity(spreads, a.short, a.expiry)
    BY <1>2
  <2> HIDE DEF f, rest, own
  <2>4. SumFunction(f) = 0
    BY <2>2, TotalOfNone
  <2> HIDE DEF spreads
  <2> QED
    BY <1>1, <1>5, <1>9, <2>3, <2>4 DEF Larger, own, spreads
<1> QED
  BY <1>8, <1>9

\* The bot's account of the day, its caps and its observations hold together,
\* and of the account's other spreads each contract is counted once.
THEOREM DayAccountIsSound == Spec => []AccountIsSound
<1>1. ASSUME AccountInv PROVE AccountIsSound
  <2>0. ClockOK /\ BookOK /\ DayOK /\ ObservedOK /\ CountedOK /\ OwnBook(book)
    BY <1>1, Zenon DEF AccountInv, BookOK
  <2>1. ForeignCountedOnce
    BY <2>0, ForeignIsTheRest DEF ForeignCountedOnce
  <2>2. TypeOK
    BY <2>0, Zenon DEF TypeOK, ClockOK, BookOK, DayOK, ObservedOK, CountedOK, OwnBook, OwnPositions
  <2> QED
    BY <2>1, <2>2 DEF AccountIsSound
<1> QED
  BY <1>1, AccountInvariant, PTL

\* orchestrator.py:1264-1266: whatever the market, the fills and the other
\* programs do, an entry leaves every limit of the book kept.
THEOREM EntriesKeepLimits == Spec => EntryWithinLimits
<1> DEFINE Kept == Opens => \A new \in book' \ book :
                     KeepsLimits(decision'.read[1], decision', new)
<1>1. ASSUME AccountInv, [Next]_vars PROVE [Kept]_vars
  <2>1. ASSUME NEW in \in Inputs, Cycle(in), Opens PROVE Kept
    <3>1. book' # book
      BY <2>1, Zenon DEF Opens
    <3>2. PICK c, s, fill : Opening(in, c, s, fill)
      BY <2>1, <3>1, OpeningStep, Zenon
    <3>3. OwnBook(book) /\ day \in 1..NumDays /\ realized \in Int
      BY <1>1, Zenon DEF AccountInv, BookOK, ClockOK, DayOK
    <3> QED
      BY <3>2, <3>3, OpeningKeepsLimits
  <2>2. CASE Between
    BY <2>2, Zenon DEF Between, Elapse, OperatorClears, Close, Idle, Opens
  <2> QED
    BY <1>1, <2>1, <2>2, Zenon DEF Next
<1> QED
  BY <1>1, AccountInvariant, PTL DEF Spec, EntryWithinLimits

-----------------------------------------------------------------------------
(* The two copies of the gates.                                            *)

\* A list of gates that does not pass names one of its gates that blocks.
LEMMA ReasonBlocks ==
  ASSUME NEW gates, DOMAIN gates \subseteq Nat, FirstReason(gates) # "go"
  PROVE  \E i \in DOMAIN gates : gates[i].blocks /\ FirstReason(gates) = gates[i].reason
<1> DEFINE blocking == {i \in DOMAIN gates : gates[i].blocks}
<1>1. blocking # {}
  BY Zenon DEF FirstReason
<1>2. FirstReason(gates) = gates[Min(blocking)].reason
  BY <1>1, Zenon DEF FirstReason
<1>3. Min(blocking) \in blocking
  <2>1. blocking \subseteq Nat
    OBVIOUS
  <2> HIDE DEF blocking
  <2> QED
    BY <1>1, <2>1, MinIsLeast
<1> QED
  BY <1>2, <1>3

\* An order with sound quotes passes the gates of the quotes.
LEMMA QuotesPass ==
  ASSUME NEW c, HasOrder(c.quote), ~c.quote.crossed, ~TooWide(c.quote)
  PROVE  QuoteReason(c) = "go"
<1> DEFINE crossed == CreditTiers /\ c.quote.crossed
           wide == CreditTiers /\ TooWide(c.quote)
           gates == << Gate(crossed, "quote_invalid"), Gate(wide, "quote_wide") >>
<1>1. QuoteReason(c) = FirstReason(gates)
  BY Zenon DEF QuoteReason
<1>2. ~crossed /\ ~wide
  BY Zenon
<1> HIDE DEF crossed, wide
<1>3. DOMAIN gates = 1..2 /\ gates[1] = Gate(crossed, "quote_invalid")
      /\ gates[2] = Gate(wide, "quote_wide")
  OBVIOUS
<1>4. ~gates[1].blocks /\ ~gates[2].blocks
  <2>1. ~Gate(crossed, "quote_invalid").blocks /\ ~Gate(wide, "quote_wide").blocks
    BY <1>2, Zenon DEF Gate
  <2> HIDE DEF gates
  <2> QED
    BY <1>3, <2>1, Zenon
<1> HIDE DEF gates
<1>5. FirstReason(gates) = "go"
  <2>1. DOMAIN gates \subseteq Nat /\ \A i \in DOMAIN gates : ~gates[i].blocks
    BY <1>3, <1>4
  <2> QED
    BY <2>1, ReasonBlocks
<1> QED
  BY <1>1, <1>5

\* A candidate that pays its costs is turned down for its credit or its strikes.
LEMMA CreditReasons ==
  ASSUME NEW in, NEW c, PaysCosts(c.credit)
  PROVE  CreditReason(in, c) \in {"go", "credit_too_low", "duplicate_strikes"}
<1> DEFINE safe == LowCreditLane /\ LowCreditSafe(c.quote, c.credit, in.riskOff)
           rejects == c.lane.tier = "reject"
           unsafe == c.lane.tier = "low_credit_safety" /\ ~safe
           costs == CreditTiers /\ ~PaysCosts(c.credit)
           doubles == \E p \in book : p.short = c.quote.short /\ p.expiry = c.expiry
           gates == << Gate(rejects, "credit_too_low"), Gate(unsafe, "credit_too_low"),
                       Gate(costs, "cost_gate"), Gate(doubles, "duplicate_strikes") >>
<1>1. CreditReason(in, c) = FirstReason(gates)
  BY DEF CreditReason
<1>2. ~costs
  BY Zenon
<1> HIDE DEF rejects, unsafe, costs, doubles
<1>3. /\ DOMAIN gates = 1..4 /\ gates[1].reason = "credit_too_low"
      /\ gates[2].reason = "credit_too_low" /\ gates[4].reason = "duplicate_strikes"
      /\ gates[3] = Gate(costs, "cost_gate")
  BY DEF Gate
<1>4. ~gates[3].blocks
  <2>1. ~Gate(costs, "cost_gate").blocks
    BY <1>2, Zenon DEF Gate
  <2> HIDE DEF gates
  <2> QED
    BY <1>3, <2>1, Zenon
<1> HIDE DEF gates
<1>5. ASSUME FirstReason(gates) # "go"
      PROVE  FirstReason(gates) \in {"credit_too_low", "duplicate_strikes"}
  <2>1. DOMAIN gates \subseteq Nat
    BY <1>3
  <2>2. PICK i \in DOMAIN gates : gates[i].blocks /\ FirstReason(gates) = gates[i].reason
    BY <1>5, <2>1, ReasonBlocks
  <2>3. i = 1 \/ i = 2 \/ i = 4
    BY <1>3, <1>4, <2>2
  <2> QED
    BY <1>3, <2>2, <2>3
<1> QED
  BY <1>1, <1>5

\* An order that the limits leave is turned down by a later gate.
LEMMA SizeReasons ==
  ASSUME NEW in, NEW c, NEW s, s.fits # 0
  PROVE  SizeReason(in, c, s) \in {"go", "daily_risk", "day_loss_halt", "risk_gate"}
<1> DEFINE none == s.fits = 0
           daily == s.order = 0
           lost == AggregateRiskBudget /\ TodaysPnl(in) =< -(HaltPct * in.equity)
           refused == GateRefusal(Structural(Wing, c.quote.natural), s.order, in.equity,
                                  Cardinality(book)) # "ok"
           gates == << Gate(none, "risk_budget"), Gate(daily, "daily_risk"),
                       Gate(lost, "day_loss_halt"), Gate(refused, "risk_gate") >>
<1>1. SizeReason(in, c, s) = FirstReason(gates)
  BY DEF SizeReason
<1>2. ~none
  OBVIOUS
<1> HIDE DEF none, daily, lost, refused
<1>3. /\ DOMAIN gates = 1..4 /\ gates[2].reason = "daily_risk"
      /\ gates[3].reason = "day_loss_halt" /\ gates[4].reason = "risk_gate"
      /\ gates[1] = Gate(none, "risk_budget")
  BY DEF Gate
<1>4. ~gates[1].blocks
  <2>1. ~Gate(none, "risk_budget").blocks
    BY <1>2, Zenon DEF Gate
  <2> HIDE DEF gates
  <2> QED
    BY <1>3, <2>1, Zenon
<1> HIDE DEF gates
<1>5. ASSUME FirstReason(gates) # "go"
      PROVE  FirstReason(gates) \in {"daily_risk", "day_loss_halt", "risk_gate"}
  <2>1. DOMAIN gates \subseteq Nat
    BY <1>3
  <2>2. PICK i \in DOMAIN gates : gates[i].blocks /\ FirstReason(gates) = gates[i].reason
    BY <1>5, <2>1, ReasonBlocks
  <2>3. i = 2 \/ i = 3 \/ i = 4
    BY <1>3, <1>4, <2>2
  <2> QED
    BY <1>3, <2>2, <2>3
<1> QED
  BY <1>1, <1>5

\* What the pre-selection found of the expiration it picked, the cycle finds too.
LEMMA PickedAgain ==
  ASSUME NEW in \in Inputs, OwnBook(book), AlternateExpirations, Eligible(in) # {},
         NEW c, c = Candidate(in), NEW s, s = Sizing(in, c)
  PROVE  /\ QuoteReason(c) = "go" /\ PaysCosts(c.credit)
         /\ s.fits = Evaluate(in, c.expiry).qty /\ s.fits # 0
<1> DEFINE e == Best(Eligible(in)).expiry
           quote == in.market[e]
           credit == Priced(quote)
           lane == LaneAt(e, credit)
           requested == ApplyQuality(SizeQty(in.equity, Wing, credit), lane.percent,
                                     lane.limited, lane.most)
           caps == CapsOf(in, quote.short, e, Wing, credit)
           clears == /\ HasOrder(quote) /\ ~quote.crossed /\ ~TooWide(quote)
                     /\ lane.tier # "reject"
                     /\ lane.tier = "low_credit_safety" => LowCreditLane
                     /\ PaysCosts(credit)
                     /\ requested > 0
           qty == IF clears THEN SizeToLimits(requested, caps).qty ELSE 0
           value == [expiry |-> e, qty |-> qty, credit |-> credit,
                     net |-> IF qty > 0 THEN NetTarget(credit) * qty ELSE 0]
<1>1. Evaluate(in, e) = value
  BY DEF Evaluate, CapsOf, BudgetsOf, GapsOf, Foreign
<1>2. Evaluate(in, e).qty > 0
  <2>1. Best(Eligible(in)) \in Eligible(in) /\ Evaluate(in, e) = Best(Eligible(in))
    BY BestIsEligible
  <2>2. Best(Eligible(in)).qty > 0
    BY <2>1, Zenon DEF Eligible
  <2> QED
    BY <2>1, <2>2
<1>3. ExpiryOf(in) = e
  BY Zenon DEF ExpiryOf
<1>4. c.expiry = e /\ c.quote = quote /\ c.credit = credit /\ c.lane = lane
  BY <1>3 DEF Candidate
<1> HIDE DEF e, quote, credit, lane
<1>5. Evaluate(in, e).qty = qty
  BY <1>1
<1>6. clears /\ qty = SizeToLimits(requested, caps).qty
  <2>1. qty > 0
    BY <1>2, <1>5
  <2> HIDE DEF requested, caps
  <2>2. (clears /\ qty = SizeToLimits(requested, caps).qty) \/ qty = 0
    BY Zenon
  <2> HIDE DEF qty
  <2> QED
    BY <2>1, <2>2
<1>7. QuoteReason(c) = "go" /\ PaysCosts(c.credit)
  BY <1>4, <1>6, QuotesPass
<1>8. s.fits = SizeToLimits(requested, caps).qty
  <2>1. AggregateRiskBudget
    BY DEF AlternateExpirations, AggregateRiskBudget
  <2>2. Caps(in, c, Wing, c.credit) = caps
    BY <1>4, Zenon DEF Caps, CapsOf, BudgetsOf, GapsOf, Foreign
  <2>3. SizeToLimits(ApplyQuality(SizeQty(in.equity, Wing, c.credit), c.lane.percent,
                                  c.lane.limited, c.lane.most),
                     Caps(in, c, Wing, c.credit)) = SizeToLimits(requested, caps)
    BY <1>4, <2>2, Zenon
  <2> HIDE DEF requested, caps
  <2> QED
    BY <2>1, <2>3 DEF Sizing
<1> HIDE DEF qty, clears
<1> QED
  BY <1>2, <1>4, <1>5, <1>6, <1>7, <1>8

\* What the row of a cycle says when the pre-selection had picked an expiration.
Agrees(in, row) ==
  /\ row.reason \notin {"no_order", "quote_invalid", "quote_wide", "cost_gate", "risk_budget"}
  /\ row.requested > 0 => row.fits = Evaluate(in, row.expiry).qty

\* A cycle agrees with the pre-selection, however it ends.
LEMMA CycleAgrees ==
  ASSUME NEW in \in Inputs, OwnBook(book), AlternateExpirations, Eligible(in) # {},
         Considered(in)
  PROVE  Agrees(in, decision')
<1>1. PICK c : /\ c = Candidate(in)
               /\ BlockedByQuotes(in, c) \/ BlockedByCredit(in, c) \/ Sized(in, c)
  BY Zenon DEF Considered
<1> DEFINE s == Sizing(in, c)
<1>2. /\ QuoteReason(c) = "go" /\ PaysCosts(c.credit)
      /\ s.fits = Evaluate(in, c.expiry).qty /\ s.fits # 0
  BY <1>1, PickedAgain
<1> HIDE DEF s
<1>3. CASE BlockedByQuotes(in, c)
  BY <1>2, <1>3, Zenon DEF BlockedByQuotes
<1>4. CASE BlockedByCredit(in, c)
  <2> DEFINE reason == CreditReason(in, c)
             row == RowOf(in, c, reason)
  <2>1. decision' = row /\ reason # "go"
    BY <1>4, Zenon DEF BlockedByCredit, Log
  <2>2. reason \in {"go", "credit_too_low", "duplicate_strikes"}
    BY <1>2, CreditReasons
  <2> HIDE DEF reason
  <2>3. row.reason = reason /\ row.requested = 0
    BY DEF RowOf, Row
  <2> HIDE DEF row
  <2> QED
    BY <2>1, <2>2, <2>3 DEF Agrees
<1>5. CASE Sized(in, c)
  <2>1. PICK reason : /\ decision' = SizedRow(in, c, s, reason)
                      /\ reason \in {"daily_risk", "day_loss_halt", "risk_gate", "filled",
                                     "unmatched_legs_zero_covered", "partial_fill", "not_filled"}
    <3>1. BlockedBySize(in, c, s) \/ Answered(in, c, s)
      BY <1>5, Zenon DEF Sized, s
    <3>2. CASE BlockedBySize(in, c, s)
      <4>1. decision' = SizedRow(in, c, s, SizeReason(in, c, s)) /\ SizeReason(in, c, s) # "go"
        BY <3>2, Zenon DEF BlockedBySize, Log
      <4>2. SizeReason(in, c, s) \in {"daily_risk", "day_loss_halt", "risk_gate"}
        BY <1>2, <4>1, SizeReasons
      <4> QED
        BY <4>1, <4>2
    <3>3. CASE Answered(in, c, s)
      <4>1. \/ decision' = SizedRow(in, c, s, "filled")
            \/ decision' = SizedRow(in, c, s, "unmatched_legs_zero_covered")
            \/ decision' = SizedRow(in, c, s, "partial_fill")
            \/ decision' = SizedRow(in, c, s, "not_filled")
        BY <3>3, Zenon DEF Answered, Filled, FilledOneLeg, FilledInPart, NotFilled, Log
      <4> QED
        BY <4>1
    <3> QED
      BY <3>1, <3>2, <3>3
  <2> DEFINE row == SizedRow(in, c, s, reason)
  <2>2. row.reason = reason /\ row.fits = s.fits /\ row.expiry = c.expiry
    BY RowFields
  <2> HIDE DEF row
  <2>3. decision' = row
    BY <2>1 DEF row
  <2> QED
    BY <1>2, <2>1, <2>2, <2>3 DEF Agrees
<1> QED
  BY <1>1, <1>3, <1>4, <1>5

\* The row of a cycle that reads nothing has no reading in it, the others their own.
LEMMA RowsName ==
  ASSUME NEW in \in Inputs, Cycle(in), decision'.read # << >>
  PROVE  Considered(in) /\ decision'.read[1] = in
<1>1. ~BlockedEarly(in)
  <2> SUFFICES ASSUME BlockedEarly(in) PROVE FALSE
    OBVIOUS
  <2> DEFINE row == Row(EarlyReason(in))
  <2>1. decision' = row
    BY Zenon DEF BlockedEarly, Log
  <2>2. row.read = << >>
    BY DEF Row
  <2> HIDE DEF row
  <2> QED
    BY <2>1, <2>2
<1>2. Considered(in)
  BY <1>1 DEF Cycle
<1>3. PICK c : BlockedByQuotes(in, c) \/ BlockedByCredit(in, c) \/ Sized(in, c)
  BY <1>2, Zenon DEF Considered
<1>4. decision'.read = << in >>
  <2>1. CASE BlockedByQuotes(in, c) \/ BlockedByCredit(in, c)
    <3>1. PICK reason : decision' = RowOf(in, c, reason)
      BY <2>1, Zenon DEF BlockedByQuotes, BlockedByCredit, Log
    <3> DEFINE row == RowOf(in, c, reason)
    <3>2. row.read = << in >>
      BY DEF RowOf, Row
    <3> HIDE DEF row
    <3>3. decision' = row
      BY <3>1 DEF row
    <3> QED
      BY <3>2, <3>3
  <2>2. CASE Sized(in, c)
    <3>1. PICK s, reason : decision' = SizedRow(in, c, s, reason)
      BY <2>2, Zenon DEF Sized, BlockedBySize, Answered, Filled, FilledOneLeg, FilledInPart,
                         NotFilled, Log
    <3> DEFINE row == SizedRow(in, c, s, reason)
    <3>2. row.read = << in >>
      BY RowFields
    <3> HIDE DEF row
    <3>3. decision' = row
      BY <3>1 DEF row
    <3> QED
      BY <3>2, <3>3
  <2> QED
    BY <1>3, <2>1, <2>2
<1> QED
  BY <1>2, <1>4

\* expirations.py:100-218: when the pre-selection picks an expiration, no gate
\* that it runs too turns the candidate down, and the size is the same.
THEOREM PreselectionStands == Spec => PreselectionHolds
<1> DEFINE Held ==
             AlternateExpirations /\ cycles' # cycles /\ decision'.read # << >>
             => LET in == decision'.read[1]
                IN  Eligible(in) # {} => Agrees(in, decision')
<1>1. ASSUME AccountInv, [Next]_vars PROVE [Held]_vars
  <2>1. ASSUME NEW in \in Inputs, Cycle(in), AlternateExpirations, decision'.read # << >>,
               Eligible(decision'.read[1]) # {}
        PROVE  Agrees(decision'.read[1], decision')
    <3>1. Considered(in) /\ decision'.read[1] = in
      BY <2>1, RowsName
    <3>2. OwnBook(book)
      BY <1>1, Zenon DEF AccountInv, BookOK
    <3> QED
      BY <2>1, <3>1, <3>2, CycleAgrees
  <2>2. CASE Between
    BY <2>2, Zenon DEF Between, Elapse, OperatorClears, Close, Idle
  <2> QED
    BY <1>1, <2>1, <2>2, Zenon DEF Next
<1>2. [Held]_vars =>
        [ /\ AlternateExpirations /\ cycles' # cycles
          /\ decision'.read # << >>
          => LET in == decision'.read[1]
                 picked == Evaluate(in, decision'.expiry)
             IN  Eligible(in) # {} =>
                   /\ decision'.reason \notin {"no_order", "quote_invalid", "quote_wide",
                                              "cost_gate", "risk_budget"}
                   /\ decision'.requested > 0 => decision'.fits = picked.qty ]_vars
  BY Zenon DEF Agrees
<1> QED
  BY <1>1, <1>2, AccountInvariant, PTL DEF Spec, PreselectionHolds
=============================================================================
