------------------------------- MODULE LegBook -------------------------------
(***************************************************************************)
(* Spreads as the bot books them, and legs as the broker nets them.        *)
(*                                                                         *)
(* The account holds a signed quantity per option; build_execution_result  *)
(* (wiring.py) turns an order's legs into a number of contracts,           *)
(* run_entry_cycle and run_management_cycle book that number, and          *)
(* run_reconcile_cycle compares the book with the spreads                  *)
(* reconstruct_spreads (feeds.py) finds among the account's legs.  The     *)
(* module Orchestrator takes both readings as given; here they are worked  *)
(* out leg by leg, next to another program's spreads.                      *)
(*                                                                         *)
(* All spreads have one width, Wing.  own[k] is what the bot's orders left *)
(* in the account of spread k, short contracts and long contracts apart.   *)
(***************************************************************************)
EXTENDS Integers, FiniteSets, FiniteSetsExt

CONSTANTS
  Expiries, Shorts,  \* the spreads: an expiration and a short strike
  Wing,              \* distance to the long strike
  MaxQty, MaxOpen,   \* contracts of an order; deps.max_open
  Exits,             \* what the monitor may close for: "TAKE_PROFIT", "STOP"
  UnevenCloses       \* whether a close may fill its two legs unequally

ASSUME LegAssumption ==
  /\ Shorts \subseteq Nat /\ IsFiniteSet(Shorts)
  /\ Wing \in Nat \ {0}
  /\ MaxQty \in Nat \ {0} /\ MaxOpen \in Nat
  /\ UnevenCloses \in BOOLEAN

VARIABLES
  shared,            \* deps.shared_account, fixed when the program starts
  own, foreign,      \* the account: the bot's contracts, another program's
  book,              \* open_positions: contracts tracked, 0 = not tracked
  streak,            \* missing_streak
  halt               \* halt_reason; "none" when not halted

vars == << shared, own, foreign, book, streak, halt >>

Keys == [expiry : Expiries, short : Shorts]
Strikes == Shorts \cup {s - Wing : s \in Shorts}
Owned == {"failed close", "reconcile drift"}
RemoveThreshold == 2
Tracked == {k \in Keys : book[k] > 0}
Lesser(a, b) == IF a < b THEN a ELSE b

\* The contracts of k that are whole spreads.
Covered(k) == Lesser(own[k].short, own[k].long)

(***************************************************************************)
(* What the account shows.                                                 *)
(***************************************************************************)
ShortOf(e, s) ==
  IF s \in Shorts THEN LET k == [expiry |-> e, short |-> s] IN own[k].short + foreign[k] ELSE 0
LongOf(e, s) ==
  IF s \in Shorts THEN LET k == [expiry |-> e, short |-> s] IN own[k].long + foreign[k] ELSE 0

\* One option, one signed quantity: a long and a short of it cancel out.
Legs(e) == [x \in Strikes |-> LongOf(e, x + Wing) - ShortOf(e, x)]

\* Mutant: the long furthest below is taken.
PairFurthest(legs, pairs, s) ==
  LET free == {x \in Strikes : x < s /\ legs[x] = -legs[s] /\ \A p \in pairs : p.long # x}
  IN  IF free = {} THEN pairs
      ELSE pairs \cup {[short |-> s, long |-> Min(free), qty |-> -legs[s]]}

PairWith(legs, pairs, s) ==
  LET free == {x \in Strikes : /\ x < s
                               /\ legs[x] > 0
                               /\ legs[x] = -legs[s]
                               /\ \A p \in pairs : p.long # x}
  IN  IF free = {} THEN pairs
      ELSE pairs \cup {[short |-> s, long |-> Max(free), qty |-> -legs[s]]}

ShortLegs(legs) == {x \in Strikes : legs[x] < 0}

\* Mutant: the lowest short strike first.
ReconstructLowFirst(legs) ==
  MapThenFoldSet(LAMBDA s, pairs : PairWith(legs, pairs, s), {},
                 LAMBDA s : s, Max, ShortLegs(legs))

\* Highest short first, with the nearest long of the same quantity: what is
\* chosen of a set, its lowest, comes after the rest.
Reconstruct(legs) ==
  MapThenFoldSet(LAMBDA s, pairs : PairWith(legs, pairs, s), {},
                 LAMBDA s : s, Min, ShortLegs(legs))

Seen == [e \in Expiries |-> Reconstruct(Legs(e))]

SeenQty(seen, k) ==
  LET same == {p \in seen[k.expiry] : p.short = k.short /\ p.long = k.short - Wing}
  IN  IF same = {} THEN 0 ELSE (CHOOSE p \in same : TRUE).qty

IsTracked(e, p) ==
  \E k \in Tracked : k.expiry = e /\ k.short = p.short /\ p.long = k.short - Wing

Missing(seen) == {k \in Tracked : SeenQty(seen, k) = 0}
Untracked(seen) ==
  IF shared THEN {} ELSE {e \in Expiries : \E p \in seen[e] : ~IsTracked(e, p)}
Mismatch(seen) ==
  {k \in Tracked \ Missing(seen) :
     IF shared THEN SeenQty(seen, k) < book[k] ELSE SeenQty(seen, k) # book[k]}

(***************************************************************************)
(* What an order reports.  The broker's payload has a readable leg array,  *)
(* one that cannot be read, or, in the sandbox, none.                      *)
(***************************************************************************)
Payloads == {"legs", "unreadable", "flat"}

ExecutionResult(payload, fill, status, asked) ==
  CASE payload = "legs" ->
         [contracts |-> Lesser(fill.short, fill.long), balanced |-> fill.short = fill.long]
    [] payload = "unreadable" -> [contracts |-> 0, balanced |-> FALSE]
    [] payload = "flat" -> [contracts |-> fill.short, balanced |-> TRUE]

\* A sandbox order fills both legs alike; "filled" means no more is coming.
MayReport(payload, fill, status, asked) ==
  /\ payload = "flat" => fill.short = fill.long
  /\ status = "filled" => asked \in {fill.short, fill.long}

(* The account is empty and so is the book.                                *)
Init ==
  /\ shared \in BOOLEAN
  /\ own = [k \in Keys |-> [short |-> 0, long |-> 0]]
  /\ foreign = [k \in Keys |-> 0]
  /\ book = [k \in Keys |-> 0]
  /\ streak = [k \in Keys |-> 0]
  /\ halt = "none"

(***************************************************************************)
(* The entry's order and what it books.                                    *)
(***************************************************************************)
\* Mutant: a filled order is booked as asked, whatever its legs.
BooksAsAsked(result, status, asked) == IF status = "filled" THEN asked ELSE result.contracts

Booked(result, status, asked) ==
  IF status = "filled" /\ result.balanced THEN asked ELSE result.contracts

Open(k) ==
  /\ halt = "none"
  /\ book[k] = 0
  /\ Cardinality(Tracked) < MaxOpen
  /\ own[k] = [short |-> 0, long |-> 0]       \* bound: nothing left over of k
  /\ \E asked \in 1..MaxQty, payload \in Payloads, status \in {"filled", "canceled"} :
       \E fill \in [short : 0..asked, long : 0..asked] :
         LET result == ExecutionResult(payload, fill, status, asked)
         IN  /\ MayReport(payload, fill, status, asked)
             /\ own' = [own EXCEPT ![k] = fill]
             /\ book' = [book EXCEPT ![k] = Booked(result, status, asked)]
             /\ halt' = IF result.balanced THEN halt ELSE "unmatched legs"
  /\ UNCHANGED << shared, foreign, streak >>

(***************************************************************************)
(* A close of the tracked quantity and what run_management_cycle does with *)
(* its result: filled, or filling as much as is tracked, is the whole      *)
(* position; less reduces it; nothing is a failed close.                   *)
(***************************************************************************)
Close(k, exit) ==
  /\ k \in Tracked
  /\ \E payload \in Payloads, status \in {"filled", "canceled"} :
       \E fill \in [short : 0..Lesser(book[k], own[k].short),
                    long : 0..Lesser(book[k], own[k].long)] :
         LET result == ExecutionResult(payload, fill, status, book[k])
             whole == status = "filled" \/ result.contracts >= book[k]
         IN  /\ MayReport(payload, fill, status, book[k])
             /\ fill.short = fill.long \/ UnevenCloses
             /\ own' = [own EXCEPT ![k] = [short |-> @.short - fill.short,
                                           long |-> @.long - fill.long]]
             /\ book' = [book EXCEPT ![k] = IF whole THEN 0 ELSE @ - result.contracts]
             /\ halt' = IF ~whole /\ result.contracts = 0 /\ exit = "STOP"
                        THEN "failed close" ELSE halt
  /\ UNCHANGED << shared, foreign, streak >>

(***************************************************************************)
(* run_reconcile_cycle.                                                    *)
(***************************************************************************)
\* Mutant: the label is set whatever it was, so a clean read may lift it.
HaltRelabelled(drift, removed) ==
  IF drift THEN "reconcile drift" ELSE IF halt = "reconcile drift" THEN "none" ELSE halt

\* drift halts and relabels the reasons it owns; a clean read lifts its own.
HaltAfter(drift, removed) ==
  LET lifted == IF removed # {} /\ halt \in Owned THEN "none" ELSE halt
  IN  IF drift THEN IF lifted = "none" \/ lifted \in Owned THEN "reconcile drift" ELSE lifted
      ELSE IF lifted = "reconcile drift" THEN "none" ELSE lifted

Removed(seen) == {k \in Missing(seen) : streak[k] + 1 >= RemoveThreshold}

Reconcile ==
  LET seen == Seen
      removed == Removed(seen)
  IN  /\ streak' = [k \in Keys |->
                      IF k \in removed THEN 0
                      ELSE IF k \in Missing(seen) THEN streak[k] + 1
                      ELSE IF k \in Tracked THEN 0 ELSE streak[k]]
      /\ book' = [k \in Keys |-> IF k \in removed THEN 0 ELSE book[k]]
      /\ halt' = HaltAfter(Untracked(seen) # {} \/ Mismatch(seen) # {}, removed)
      /\ UNCHANGED << shared, own, foreign >>

(***************************************************************************)
(* Others with access to the account.                                      *)
(***************************************************************************)
\* Another program opens or closes a spread of its own; bound: one at a time.
ForeignOpens(k) ==
  /\ \A j \in Keys : foreign[j] = 0
  /\ \E q \in 1..MaxQty : foreign' = [foreign EXCEPT ![k] = q]
  /\ UNCHANGED << shared, own, book, streak, halt >>

ForeignCloses(k) ==
  /\ foreign[k] > 0
  /\ foreign' = [foreign EXCEPT ![k] = 0]
  /\ UNCHANGED << shared, own, book, streak, halt >>

\* Something closes a spread of the bot: an operator, a late fill.
ClosedElsewhere(k) ==
  /\ own[k].short > 0 /\ own[k].short = own[k].long
  /\ own' = [own EXCEPT ![k] = [short |-> 0, long |-> 0]]
  /\ UNCHANGED << shared, foreign, book, streak, halt >>

\* The operator squares what the bot does not track and calls clear_halt.
OperatorClears ==
  /\ halt # "none"
  /\ own' = [k \in Keys |-> LET left == Lesser(book[k], Covered(k))
                             IN  [short |-> left, long |-> left]]
  /\ halt' = "none"
  /\ UNCHANGED << shared, foreign, book, streak >>

Next ==
  \/ \E k \in Keys : \/ Open(k)
                     \/ \E exit \in Exits : Close(k, exit)
                     \/ ForeignOpens(k)
                     \/ ForeignCloses(k)
                     \/ ClosedElsewhere(k)
  \/ Reconcile
  \/ OperatorClears

Spec == Init /\ [][Next]_vars

-----------------------------------------------------------------------------
TypeOK ==
  /\ shared \in BOOLEAN
  /\ own \in [Keys -> [short : 0..MaxQty, long : 0..MaxQty]]
  /\ foreign \in [Keys -> 0..MaxQty]
  /\ book \in [Keys -> 0..MaxQty]
  /\ streak \in [Keys -> 0..RemoveThreshold - 1]
  /\ halt \in {"none", "unmatched legs"} \cup Owned

Even(k) == own[k].short = own[k].long
Held(k) == own[k].short + foreign[k]

\* One spread's short leg is another's long leg: the broker nets the two.
Netted ==
  \E j, k \in Keys : /\ j.expiry = k.expiry /\ j.short = k.short + Wing
                     /\ own[j].long + foreign[j] > 0 /\ own[k].short + foreign[k] > 0

(* What reconstruct_spreads' descending order and nearest long are for: as
   long as no two spreads share a strike and both legs of each are there, the
   account reads as exactly the spreads in it, however they overlap. *)
ReadsExactly ==
  (~Netted /\ \A k \in Keys : Even(k)) =>
    \A e \in Expiries :
      Seen[e] = {[short |-> k.short, long |-> k.short - Wing, qty |-> Held(k)] :
                    k \in {j \in Keys : j.expiry = e /\ Held(j) > 0}}

(* What an order's result does to the book: an open never books a contract
   without both its legs, a close never drops one that is still there. *)
FillsBooked ==
  [][\A k \in Keys :
       /\ book'[k] > book[k] => book'[k] =< Covered(k)'
       /\ own[k] # own'[k] /\ book'[k] < book[k] /\ book[k] =< Covered(k)
            => book[k] - book'[k] =< Covered(k) - Covered(k)']_vars

(* The debounce of run_reconcile_cycle against what reconstruct_spreads can
   get wrong: a read never drops a position that is still in the account. *)
KeepsHeld ==
  [][\A k \in Tracked :
       (/\ book'[k] = 0 /\ UNCHANGED own
        /\ \A j \in Keys : Even(j)
        /\ ~Netted) => Held(k) = 0]_vars

(* The comparison of run_reconcile_cycle: after a read that leaves the bot
   running and nothing debounced, the book is the account (in a shared
   account: no larger than it). *)
NoBlindRead ==
  [][Reconcile /\ halt' = "none" /\ ~Netted /\ (\A k \in Keys : Even(k)) =>
       \A k \in Keys : \/ streak'[k] > 0
                       \/ book'[k] = Held(k)
                       \/ shared /\ book'[k] =< Held(k)]_vars

(* What the reads of the account may do to the book. *)
ReadsKeepBooks == KeepsHeld /\ NoBlindRead

(* spread_fill.py: unequal legs set "balanced=False so the caller halts and
   reconciles"; while a short of the bot has no long below it, the halt
   stays until an operator clears it. *)
UncoveredShortHalts ==
  \A k \in Keys : own[k].short > own[k].long => halt = "unmatched legs"
=============================================================================
