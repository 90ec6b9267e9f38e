------------------------------- MODULE Markouts -------------------------------
(***************************************************************************)
(* Research follow-ups of entry signals (research/markouts.py) inside the  *)
(* loop that drives them: run_entry_cycle records a signal                 *)
(* (_record_markout), run_markout_cycle measures what is due and writes    *)
(* rows to a CSV file, runner saves the state after the tick, and a        *)
(* restart begins from what was saved.                                     *)
(*                                                                         *)
(* Signals are numbered in the order they happen; age[n] is how old signal *)
(* n is.  Minutes, marks and credits are small integers.                   *)
(***************************************************************************)
EXTENDS Integers, Sequences, SequencesExt, FiniteSetsExt, BagsExt, Functions

CONSTANTS
  Spreads,           \* the candidate spreads
  Horizons,          \* minutes after the signal at which it is measured
  Marks, Credit,     \* what a spread may be worth, and its credit
  None,              \* no value
  MaxSignals,        \* bound: signals in a behaviour
  MaxFaults          \* bound: crashes, failed writes and failed spot reads

ASSUME MarkoutAssumption ==
  /\ Horizons \subseteq Nat \ {0} /\ Horizons # {} /\ IsFiniteSet(Horizons)
  /\ Marks \subseteq Int /\ Credit \in Int
  /\ MaxSignals \in Nat /\ MaxFaults \in Nat

AgeCap == Max(Horizons)      \* older signals look alike
Due == Min(Horizons)

VARIABLES
  gated,             \* whether market_gated_tick wraps tick
  session,           \* "open", or "after" 16:00
  age,               \* ages of the signals so far
  pending, seq, last,\* markout_pending, markout_seq, markout_obs_last
  disk,              \* the state file
  rows,              \* the CSV file, as a bag of rows
  pc,                \* where the tick is: "idle", "observe", "save"
  faults             \* faults so far

vars == << gated, session, age, pending, seq, last, disk, rows, pc, faults >>
world == << gated, session, age, faults >>

TakeProfit == Credit - 1     \* spread values at which a filled position
StopLoss == Credit + 1       \* would be closed

Keys == [spread : Spreads, filled : BOOLEAN]
Fresh == [h \in Horizons |-> None]

(***************************************************************************)
(* MarkoutTracker.                                                         *)
(***************************************************************************)
Signal(id, n, key) ==
  [id |-> id, signal |-> n, spread |-> key.spread, filled |-> key.filled,
   taken |-> Fresh, mfe |-> None, mae |-> None, mfeAtStop |-> None, maeAtTp |-> None, written |-> FALSE]

\* The best and the worst the position has been worth so far.
Excursions(item, mark) ==
  LET gain == Credit - mark
  IN  IF mark = None THEN item
      ELSE [item EXCEPT !.mfe = IF @ = None \/ gain > @ THEN gain ELSE @,
                        !.mae = IF @ = None \/ gain < @ THEN gain ELSE @]

\* Mutant: a horizon is measured again as long as the signal is pending.
MeasureAgain(item, mark) ==
  [item EXCEPT !.taken = [h \in Horizons |->
     IF age[item.signal] >= h THEN << mark >> ELSE item.taken[h]]]

\* Mutant: a horizon is measured in its own minute only.
MeasureOnTheMinute(item, mark) ==
  [item EXCEPT !.taken = [h \in Horizons |->
     IF item.taken[h] = None /\ age[item.signal] = h THEN << mark >> ELSE item.taken[h]]]

\* Each horizon once, at the first look at it; a missing mark is a measure too.
Measure(item, mark) ==
  [item EXCEPT !.taken = [h \in Horizons |->
     IF item.taken[h] = None /\ age[item.signal] >= h THEN << mark >> ELSE item.taken[h]]]

\* The excursion so far, kept once: at the take-profit and at the stop level.
Crossings(item, mark) ==
  [item EXCEPT
     !.maeAtTp = IF item.filled /\ @ = None /\ mark # None /\ mark =< TakeProfit THEN item.mae ELSE @,
     !.mfeAtStop = IF item.filled /\ @ = None /\ mark # None /\ mark >= StopLoss THEN item.mfe ELSE @]

\* A row: what it is about and what the report reads from it.
Row(event, item) ==
  [event |-> event, id |-> item.id, signal |-> item.signal, filled |-> item.filled]

AllTaken(item) == \A h \in Horizons : item.taken[h] # None
Checkpoint(item) == AllTaken(item) /\ ~item.written

\* resolve_due_batched: a spread is quoted when one of its signals is due.
Quoted(items) == {items[i].spread : i \in {j \in DOMAIN items : age[items[j].signal] >= Due}}

Advance(items, marks) ==
  [i \in DOMAIN items |->
     LET mark == IF items[i].spread \in Quoted(items) THEN marks[items[i].spread] ELSE None
     IN  Crossings(Measure(Excursions(items[i], mark), mark), mark)]

\* Mutant: the checkpoint is not remembered.
ForgetsCheckpoint(items) == items

MarkWritten(items) ==
  [i \in DOMAIN items |-> [items[i] EXCEPT !.written = @ \/ Checkpoint(items[i])]]

CheckpointRows(items) ==
  LET due == SelectSeq(items, Checkpoint) IN [i \in DOMAIN due |-> Row("MARKOUT", due[i])]
EodRows(items) == [i \in DOMAIN items |-> Row("EOD", items[i])]

AppendRows(some) == FoldLeft(LAMBDA file, row : BagAdd(file, row), rows, some)

(***************************************************************************)
(* One tick, as far as markouts go.                                        *)
(***************************************************************************)
Init ==
  /\ gated \in BOOLEAN
  /\ session = "open"
  /\ age = << >>
  /\ pending = << >> /\ seq = 0 /\ last = None
  /\ disk = [pending |-> << >>, seq |-> 0, last |-> None]
  /\ rows = EmptyBag
  /\ pc = "idle"
  /\ faults = 0

Ticking == pc = "idle" /\ (session = "open" \/ ~gated)

\* An entry cycle without a signal, or with the last one of its quarter-hour.
NoSignal ==
  /\ Ticking
  /\ pc' = "observe"
  /\ UNCHANGED << world, pending, seq, last, disk, rows >>

RecordSignal(key) ==
  /\ Ticking /\ session = "open"             \* run_entry_cycle enters from 10 to 16
  /\ Len(age) < MaxSignals
  /\ key # last
  /\ seq' = seq + 1
  /\ age' = Append(age, 0)
  /\ pending' = Append(pending, Signal(seq + 1, Len(age) + 1, key))
  /\ last' = key
  /\ pc' = "observe"
  /\ UNCHANGED << gated, session, disk, rows, faults >>

\* run_markout_cycle: the pending list is replaced only when all writes went well.
Observe(marks) ==
  LET items == Advance(pending, marks)
      checked == MarkWritten(items)
      out == CheckpointRows(items) \o (IF session = "after" THEN EodRows(checked) ELSE << >>)
  IN  /\ pc = "observe"
      /\ rows' = AppendRows(out)
      /\ pending' = IF session = "after" THEN << >> ELSE checked
      /\ pc' = "save"
      /\ UNCHANGED << world, seq, last, disk >>

\* A row that cannot be written, or no spot: what was measured is dropped.
ObserveFails(marks) ==
  LET items == Advance(pending, marks)
      out == CheckpointRows(items) \o
               (IF session = "after" THEN EodRows(MarkWritten(items)) ELSE << >>)
  IN  /\ pc = "observe"
      /\ faults < MaxFaults
      /\ faults' = faults + 1
      /\ \E done \in 0..Len(out) :
           /\ done < Len(out) \/ done = 0
           /\ rows' = AppendRows(SubSeq(out, 1, done))
      /\ pc' = "save"
      /\ UNCHANGED << gated, session, age, pending, seq, last, disk >>

SaveState ==
  /\ pc = "save"
  /\ disk' = [pending |-> pending, seq |-> seq, last |-> last]
  /\ pc' = "idle"
  /\ UNCHANGED << world, pending, seq, last, rows >>

(***************************************************************************)
(* Restarts and the calendar.                                              *)
(***************************************************************************)
RestoredSeq(file) == file.seq

Restored(file) == file.pending

Crash ==
  /\ faults < MaxFaults
  /\ faults' = faults + 1
  /\ pending' = Restored(disk)
  /\ seq' = RestoredSeq(disk)
  /\ last' = disk.last
  /\ pc' = "idle"
  /\ UNCHANGED << gated, session, age, disk, rows >>

Older(some, by) == [n \in DOMAIN some |-> Min({some[n] + by, AgeCap})]

\* A minute passes; a key of an earlier quarter-hour equals no later one.
Minute ==
  /\ pc = "idle" /\ session = "open"
  /\ age' = Older(age, 1)
  /\ \/ UNCHANGED << last, disk >>
     \/ last' = None /\ disk' = [disk EXCEPT !.last = None]
  /\ UNCHANGED << gated, session, pending, seq, rows, pc, faults >>

MarketCloses ==
  /\ pc = "idle" /\ session = "open"
  /\ session' = "after"
  /\ UNCHANGED << gated, age, pending, seq, last, disk, rows, pc, faults >>

NextMorning ==
  /\ pc = "idle" /\ session = "after"
  /\ session' = "open"
  /\ age' = Older(age, AgeCap)
  /\ last' = None /\ disk' = [disk EXCEPT !.last = None]
  /\ UNCHANGED << gated, pending, seq, rows, pc, faults >>

SomeMarks == [Spreads -> Marks \cup {None}]

Clock == Minute \/ MarketCloses \/ NextMorning

Next ==
  \/ NoSignal
  \/ \E key \in Keys : RecordSignal(key)
  \/ \E marks \in SomeMarks : Observe(marks)
  \/ \E marks \in SomeMarks : ObserveFails(marks)
  \/ SaveState
  \/ Crash
  \/ Clock

Spec == Init /\ [][Next]_vars

(***************************************************************************)
(* The runner polls many times a session and never stops, and it sleeps    *)
(* between two polls: neither the ticks nor the clock starves the other.   *)
(***************************************************************************)
FairSpec ==
  /\ Spec
  /\ SF_pc(Ticking /\ pc' = "observe")
  /\ WF_pc(pc = "observe" /\ pc' = "save")
  /\ WF_pc(pc = "save" /\ pc' = "idle")
  /\ SF_vars(Clock)

-----------------------------------------------------------------------------
Items ==
  [id : Nat, signal : 1..MaxSignals, spread : Spreads, filled : BOOLEAN,
   taken : [Horizons -> {None} \cup {<< m >> : m \in Marks \cup {None}}],
   mfe : {None} \cup Int, mae : {None} \cup Int,
   mfeAtStop : {None} \cup Int, maeAtTp : {None} \cup Int, written : BOOLEAN]

TypeOK ==
  /\ gated \in BOOLEAN
  /\ session \in {"open", "after"}
  /\ Len(age) =< MaxSignals /\ \A n \in DOMAIN age : age[n] \in 0..AgeCap
  /\ \A file \in {pending, disk.pending} : \A i \in DOMAIN file : file[i] \in Items
  /\ seq \in 0..MaxSignals /\ disk.seq \in 0..seq
  /\ {last, disk.last} \subseteq Keys \cup {None}
  /\ IsABag(rows)
  /\ pc \in {"idle", "observe", "save"}
  /\ faults \in 0..MaxFaults

(* The rows of the log can be joined by signal_id: two rows with one id are
   about one signal, though the number is given out before it is saved and a
   crash takes it back. *)
OneSignalPerId ==
  \A r, t \in BagToSet(rows) :
    r.id = t.id => r.signal = t.signal

(* A row is written once, unless a failed write or a crash lost the memory
   of it: horizons_written goes through the state file. *)
RowsNotRepeated == \A r \in BagToSet(rows) : CopiesIn(r, rows) =< 1 + faults

(* The excursions bracket every measured mark, and what was kept of them when
   a threshold was crossed lies between the entry and the final value. *)
ExcursionsBracket ==
  \A i \in DOMAIN pending :
    LET item == pending[i]
    IN  /\ \A h \in Horizons :
             item.taken[h] \notin {None, << None >>} =>
               /\ item.mae # None /\ item.mfe # None
               /\ Credit - item.taken[h][1] \in item.mae..item.mfe
        /\ item.maeAtTp # None => item.maeAtTp \in item.mae..item.mfe
        /\ item.mfeAtStop # None => item.mfeAtStop \in item.mae..item.mfe

(* The rows of the log and what is pending can be trusted. *)
RowsAreSound == TypeOK /\ OneSignalPerId /\ RowsNotRepeated /\ ExcursionsBracket

(* What the state file says was measured is never measured again, whatever
   is lost between two saves. *)
SavedMeasuresStand ==
  [][\A i \in DOMAIN disk.pending, j \in DOMAIN disk.pending' :
       disk.pending[i].signal = disk.pending'[j].signal =>
         /\ disk.pending[i].written => disk.pending'[j].written
         /\ \A h \in Horizons :
              disk.pending[i].taken[h] # None =>
                disk.pending'[j].taken[h] = disk.pending[i].taken[h]]_vars

(* No survivorship bias: every signal that reached the state file, filled or
   rejected, ends up in the log, through restarts, nights and failed writes. *)
Saved(n) == \E i \in DOMAIN disk.pending : disk.pending[i].signal = n
Logged(n) == \E r \in BagToSet(rows) : r.signal = n
FollowedUp == \A n \in 1..MaxSignals : Saved(n) ~> Logged(n)
=============================================================================
