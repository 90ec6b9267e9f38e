----------------------------- MODULE OrderOutcomes -----------------------------
(***************************************************************************)
(* What one call of deps.close_spread or deps.open_spread may come to.     *)
(* Orchestrator takes any of these outcomes as the effect of a call;       *)
(* OrderSubmit and PriceLadder model the calls themselves and are checked  *)
(* to end in one of them.  kind "none" is the normal course, every other   *)
(* kind is a fault an instance may allow.                                  *)
(***************************************************************************)
EXTENDS Integers

Lesser(a, b) == IF a < b THEN a ELSE b

(* fill is what the broker executed, reported the filled_quantity the bot is
   told, status "filled" or any other ("canceled"), works what is left live at
   the broker.  Unreadable legs report nothing, whatever the status. *)
CloseOutcome(kind, fill, reported, status, works) ==
  [kind |-> kind, fill |-> fill, reported |-> reported, status |-> status, works |-> works]

(* A close of q contracts on an account that holds h of them. *)
CloseOutcomesOf(q, h) ==
  LET feasible == {f \in 0..q : f <= h}
      all == feasible \cap {q}
      short == feasible \ {q}
  IN  {CloseOutcome("none", f, f, "filled", 0) : f \in all}
      \cup {CloseOutcome(IF h < q THEN "none" ELSE "unfilled", 0, 0, "canceled", 0)}
      \cup {CloseOutcome("partial", f, f, "canceled", 0) : f \in short \ {0}}
      \cup {CloseOutcome("late", p[1], p[2], "canceled", w)
              : p \in {pair \in feasible \X (0..q) : pair[2] <= pair[1]}, w \in 0..q}
      \cup {CloseOutcome("unreadable", f, 0, "canceled", 0) : f \in short \ {0}}
      \cup {CloseOutcome("unreadable", f, 0, "filled", 0) : f \in all}
      \cup {CloseOutcome("error", f, 0, "canceled", w) : f \in feasible, w \in 0..q}

(* The same for an entry: matched is the covered count the broker executed,
   excess its unpaired legs, booked what the bot is told it may book. *)
OpenOutcome(kind, booked, matched, excess, works, balanced) ==
  [kind |-> kind, booked |-> booked, matched |-> matched, excess |-> excess,
   works |-> works, balanced |-> balanced]

SettledEntries(q) ==
  {OpenOutcome("none", q, q, 0, 0, TRUE), OpenOutcome("none", 0, 0, 0, 0, TRUE)}
    \cup {OpenOutcome("partial", f, f, 0, 0, TRUE) : f \in 1..(q - 1)}

LateEntries(q) ==
  {OpenOutcome("late", p[1], p[2], 0, w, TRUE)
     : p \in {pair \in (0..q) \X (0..q) : pair[1] <= pair[2]}, w \in 0..q}

OverfilledEntries(q) ==
  {OpenOutcome("overfill", b, q + e, 0, w, TRUE) : b \in 0..q, e \in 1..q, w \in 0..q}

UnreadableEntries(q) ==
  {OpenOutcome("unreadable", 0, f, 0, w, FALSE) : f \in 0..(2 * q), w \in 0..q}

UnpairedEntries(q) ==
  {OpenOutcome("legs", Lesser(l[1], l[2]), Lesser(l[1], l[2]), l[1] - l[2], 0, FALSE)
     : l \in {p \in (0..q) \X (0..q) : p[1] # p[2]}}

OpenOutcomesOf(q) ==
  SettledEntries(q) \cup LateEntries(q) \cup OverfilledEntries(q) \cup UnreadableEntries(q)
    \cup UnpairedEntries(q)
================================================================================
