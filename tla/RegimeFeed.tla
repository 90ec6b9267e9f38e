------------------------------ MODULE RegimeFeed ------------------------------
(***************************************************************************)
(* regime_provider of bot/app/wiring.py inside the tick that calls it: one *)
(* feed after the other is read, each of which may fail, the VIX through a *)
(* cache and a thread that may be abandoned (vix_term, timeoututil); the   *)
(* regime is published, the flow bias is remembered for the next tick, and *)
(* the shadow monitor writes its row.  What lives in the process (equity   *)
(* peak, VIX cache) is lost with it, the flow bias is saved.               *)
(***************************************************************************)
EXTENDS ShadowSignals

CONSTANTS
  Equities, Histories, Tides, Books,  \* what the broker and Unusual Whales may answer
  Downloads,                          \* what yfinance may answer: [vix, third]
  ShadowReads,                        \* what shadow_data may read
  Ttl,                                \* _TERM_TTL
  MaxClock,                           \* bound: of the clock, in ticks at their shortest
  MaxRestarts                         \* bound

Biases == {"bullish", "bearish", "neutral"}

ASSUME FeedAssumption ==
  /\ None \notin Biases
  /\ Equities \subseteq Nat /\ Ttl \in Nat \ {0} /\ {MaxClock, MaxRestarts} \subseteq Nat

\* What an answer looks like: a number that is missing is None, and a download without a VIX raises.
Quote == [sym : Basket, last : Maybe(Nat), high : Maybe(Nat), change : Maybe(Int)]
Bar == [high : Nat, low : Nat, close : Nat, volume : Nat]
Option == [put : BOOLEAN, strike : Nat, delta : Maybe(Int), bid : Maybe(Nat), ask : Maybe(Nat),
           mid : Maybe(Nat), smv : Maybe(Nat)]
Reading == [spot : Maybe(Nat), atr : Maybe(Nat), quotes : Seq(Quote), bars : Seq(Bar), chain : Seq(Option)]

ASSUME AnswerAssumption ==
  /\ Books \subseteq Seq([expiry : Nat, short : Nat])
  /\ \A d \in Downloads : d.vix \in Seq(Nat) \ {<< >>} /\ d.third \in Seq(Nat)
  /\ ShadowReads \subseteq Reading
  /\ None \notin [strike : Nat, delta : Nat, iv : Maybe(Nat)]

VARIABLES
  clock,
  pc,          \* where the tick is
  peak, cache, \* of the process: _peak, _TERM_CACHE
  hung,        \* downloads that were abandoned
  equity, bars, flow, term, \* read in this tick
  failed,      \* a feed raised in this tick
  regime,      \* published in this tick
  prevFlow,    \* state.prev_flow_bias; None before the first tick
  saved,       \* and in the state file
  row,         \* the SHADOW record of this tick
  readings,    \* history: equities this process has read,
  downloaded,  \* terms it has downloaded,
  started,     \* downloads ever started, the last one when,
  lastStart,
  tide,        \* what Unusual Whales said in the last tick,
  savedTide,   \* and in the last tick that was saved
  restarts

process == <<peak, cache, hung, readings, downloaded>>
tick == <<equity, bars, flow, term, failed, regime>>
history == <<readings, downloaded, started, lastStart, tide, savedTide, restarts>>
vars == <<clock, pc, peak, cache, hung, tick, prevFlow, saved, row, history>>

NoCache == [at |-> 0, gen |-> 0, term |-> NoTerm]
Forget ==
  /\ equity' = 0 /\ bars' = << >> /\ flow' = NoFlow /\ term' = NoTerm
  /\ failed' = FALSE /\ regime' = Neutral

-----------------------------------------------------------------------------
(* The feeds, in the order they are read. *)

StartTick ==
  /\ pc = "idle" /\ clock < MaxClock
  /\ pc' = "equity"
  /\ UNCHANGED <<clock, peak, cache, hung, tick, prevFlow, saved, row, history>>

\* Mutant: only the last equity is remembered.
ReadEquityForgets ==
  /\ pc = "equity"
  /\ equity' \in Equities
  /\ peak' = equity'
  /\ readings' = readings \cup {equity'}
  /\ pc' = "history"
  /\ UNCHANGED <<clock, cache, hung, bars, flow, term, failed, regime, prevFlow, saved, row,
                 downloaded, started, lastStart, tide, savedTide, restarts>>

ReadEquity ==
  /\ pc = "equity"
  /\ equity' \in Equities
  /\ peak' = Max({peak, equity'})
  /\ readings' = readings \cup {equity'}
  /\ pc' = "history"
  /\ UNCHANGED <<clock, cache, hung, bars, flow, term, failed, regime, prevFlow, saved, row,
                 downloaded, started, lastStart, tide, savedTide, restarts>>

ReadHistory ==
  /\ pc = "history"
  /\ bars' \in Histories
  /\ pc' = "flow"
  /\ UNCHANGED <<clock, peak, cache, hung, equity, flow, term, failed, regime, prevFlow, saved, row, history>>

\* No token and a failed request are neutral.
ReadFlow ==
  /\ pc = "flow"
  /\ flow' \in {MarketTide(rows) : rows \in Tides} \cup {NoFlow}
  /\ pc' = "vix"
  /\ UNCHANGED <<clock, peak, cache, hung, equity, bars, term, failed, regime, prevFlow, saved, row, history>>

CacheIsFresh == clock - cache.at < Ttl /\ cache.term.level # None

ServeCached ==
  /\ pc = "vix" /\ CacheIsFresh
  /\ term' = cache.term
  /\ pc' = "legs"
  /\ UNCHANGED <<clock, peak, cache, hung, equity, bars, flow, failed, regime, prevFlow, saved, row, history>>

StartDownload ==
  /\ pc = "vix" /\ ~CacheIsFresh
  /\ started' = started + 1 /\ lastStart' = clock
  /\ pc' = "download"
  /\ UNCHANGED <<clock, peak, cache, hung, tick, prevFlow, saved, row, readings, downloaded,
                 tide, savedTide, restarts>>

Downloaded ==
  /\ pc = "download"
  /\ \E d \in Downloads :
       LET got == Term(d.vix, d.third)
       IN  /\ term' = got
           /\ cache' = [at |-> clock, gen |-> started, term |-> got]
           /\ downloaded' = downloaded \cup {got}
  /\ pc' = "legs"
  /\ UNCHANGED <<clock, peak, hung, equity, bars, flow, failed, regime, prevFlow, saved, row,
                 readings, started, lastStart, tide, savedTide, restarts>>

\* The last good value, which counts as new.
FallBack ==
  /\ term' = cache.term
  /\ cache' = IF cache.term.level # None THEN [cache EXCEPT !.at = clock] ELSE cache

DownloadRaises ==
  /\ pc = "download"
  /\ FallBack
  /\ pc' = "legs"
  /\ UNCHANGED <<clock, peak, hung, equity, bars, flow, failed, regime, prevFlow, saved, row, history>>

\* Mutant: the thread is joined without a timeout.
TimesOutNever == FALSE /\ UNCHANGED vars

\* run_with_timeout: the thread is left behind.
TimesOut ==
  /\ pc = "download"
  /\ FallBack
  /\ hung' = hung \cup {started}
  /\ pc' = "legs"
  /\ UNCHANGED <<clock, peak, equity, bars, flow, failed, regime, prevFlow, saved, row, history>>

\* Mutant: an abandoned download stores what it got.
LateAnswerStored ==
  /\ \E gen \in hung, d \in Downloads :
       /\ hung' = hung \ {gen}
       /\ cache' = [cache EXCEPT !.gen = gen, !.term = Term(d.vix, d.third)]
  /\ UNCHANGED <<clock, pc, peak, tick, prevFlow, saved, row, history>>

\* An abandoned download ends: nobody looks into its box any more.
LateAnswer ==
  /\ \E gen \in hung : hung' = hung \ {gen}
  /\ UNCHANGED <<clock, pc, peak, cache, tick, prevFlow, saved, row, history>>

ReadLegs ==
  /\ pc = "legs"
  /\ \E book \in Books : regime' = RegimeOf(term, bars, book, equity, peak, flow)
  /\ pc' = "act"
  /\ UNCHANGED <<clock, peak, cache, hung, equity, bars, flow, term, failed, prevFlow, saved, row, history>>

\* A request of the broker raises: nothing is known in this tick.
FeedRaises ==
  /\ pc \in {"equity", "history", "legs"}
  /\ regime' = Neutral /\ failed' = TRUE
  /\ pc' = "act"
  /\ UNCHANGED <<clock, peak, cache, hung, equity, bars, flow, term, prevFlow, saved, row, history>>

-----------------------------------------------------------------------------
(* The rest of the tick. *)

\* run_flow_degross_cycle would close what was opened today and does not pay.
FlowFlips == pc = "act" /\ prevFlow = "bullish" /\ regime.flow.bias = "bearish"

\* Mutant: a tick without flow leaves the last bias.
RememberedUnlessNeutral == IF regime.flow.bias = "neutral" THEN prevFlow ELSE regime.flow.bias

Remembered == regime.flow.bias

ShadowRow(read) ==
  LET signals == Signals(ShadowData(read.spot, read.atr, read.quotes, read.bars, read.chain))
      score == CautionScore(signals)
  IN  [read |-> read, signals |-> signals, score |-> score, action |-> Action(score)]

EndTick ==
  /\ pc = "act"
  /\ \E read \in ShadowReads : row' = ShadowRow(read)
  /\ prevFlow' = Remembered
  /\ tide' = IF failed THEN "neutral" ELSE flow.bias
  /\ pc' = "save"
  /\ Forget
  /\ UNCHANGED <<clock, peak, cache, hung, saved, readings, downloaded, started, lastStart,
                 savedTide, restarts>>

Save ==
  /\ pc = "save"
  /\ saved' = prevFlow /\ savedTide' = tide
  /\ clock' \in {clock + 1, clock + 2}
  /\ pc' = "idle" /\ row' = None
  /\ UNCHANGED <<peak, cache, hung, tick, prevFlow, readings, downloaded, started, lastStart,
                 tide, restarts>>

Restart ==
  /\ restarts < MaxRestarts
  /\ restarts' = restarts + 1
  /\ pc' = "idle" /\ row' = None
  /\ peak' = 0 /\ cache' = NoCache /\ hung' = {} /\ readings' = {} /\ downloaded' = {}
  /\ prevFlow' = saved /\ tide' = savedTide
  /\ Forget
  /\ UNCHANGED <<clock, saved, started, lastStart, savedTide>>

Init ==
  /\ clock = 0 /\ pc = "idle"
  /\ peak = 0 /\ cache = NoCache /\ hung = {} /\ readings = {} /\ downloaded = {}
  /\ equity = 0 /\ bars = << >> /\ flow = NoFlow /\ term = NoTerm
  /\ failed = FALSE /\ regime = Neutral /\ row = None
  /\ prevFlow = None /\ saved = None /\ tide = "neutral" /\ savedTide = "neutral"
  /\ started = 0 /\ lastStart = 0 /\ restarts = 0

Step == \/ ReadEquity \/ ReadHistory \/ ReadFlow \/ ServeCached \/ StartDownload \/ TimesOut
        \/ ReadLegs \/ FeedRaises \/ EndTick \/ Save

Next == StartTick \/ Step \/ Downloaded \/ DownloadRaises \/ LateAnswer \/ Restart

\* The loop goes on unless it waits for the next tick or for a download: all other requests have
\* timeouts of their own.  This is weak fairness of every Step but TimesOut, of which one is
\* enabled wherever pc is.
GoesOn == []<>(pc \in {"idle", "download"}) \/ []<><<pc' # pc>>_vars

\* A download may never answer, so neither Downloaded nor DownloadRaises is fair.
Spec == Init /\ [][Next]_vars /\ WF_vars(TimesOut) /\ GoesOn

-----------------------------------------------------------------------------
\* Every variable has its type, and scores stay between nothing and everything.
TypeOK ==
  /\ clock \in 0..(MaxClock + 1) /\ peak \in Equities \cup {0}
  /\ pc \in {"idle", "equity", "history", "flow", "vix", "download", "legs", "act", "save"}
  /\ cache.gen \in 0..started /\ hung \subseteq 1..started
  /\ prevFlow \in Biases \cup {None} /\ saved \in Biases \cup {None}
  /\ {regime.stress, regime.concentration, regime.drawdown, regime.degross} \subseteq 0..Unit
  /\ regime.size \in (Unit \div 2)..Unit /\ regime.widen \in 0..(Unit \div 2)

\* kill, the call to close everything (scorer.DD_KILL), is a fall of a tenth from an equity this
\* process has read, whatever failed on the way ("a missing feed is never mistaken for a
\* signal", state.py:8), and no such fall of a tick that read everything is missed.
KillIsDrawdown ==
  pc = "act" =>
    /\ regime.kill => \E top \in readings : 10000 * (top - equity) >= 999 * top
    /\ ~failed /\ (\E top \in readings : top > 0 /\ 10 * (top - equity) >= top) => regime.kill

\* A failed download serves "the last good value rather than blanking the signal" (vix_term.py):
\* once the VIX was downloaded, every regime carries a VIX this process did download.
VixNeverBlank ==
  pc = "act" /\ ~failed /\ downloaded # {} => regime.term \in downloaded

\* A download that was given up never takes the place of a later one (run_with_timeout).
VixNeverGoesBack == [][cache'.gen >= cache.gen \/ cache' = NoCache]_vars

\* "Callers keep this rare via caching" (timeoututil.py:9): with a VIX at hand, downloads are a
\* Ttl apart even when all of them hang, or abandoned threads would pile up tick by tick.
DownloadsSpaced ==
  [][started' > started /\ cache.term.level # None => clock - lastStart >= Ttl]_vars

\* The flow de-gross "only acts on a positive bull->bear flip with a live regime": both sides were
\* read, in this tick and in the last saved one, across restarts and outages.
FlipIsTwoReads ==
  FlowFlips => ~failed /\ flow.bias = "bearish" /\ tide = "bullish"

\* "The tick loop can never stall here" (fetch_vix_term): a tick ends though every download hangs.
TickEnds == (pc # "idle") ~> (pc = "idle")

\* The shadow monitor judges the put an entry would sell: what _select_shadow_short finds in the
\* raw chain is what select_short_put finds in the parsed one (but for its volatility).
ShadowMirrors ==
  row # None /\ row.read.spot # None /\ row.read.atr # None =>
    LET sold == SelectShortPut(row.read.chain, row.read.spot, row.read.atr)
        shown == row.signals.short
    IN  IF sold = None \/ shown = None THEN sold = shown
        ELSE sold.strike = shown.strike /\ sold.delta = shown.delta

\* The caution score is no worse than the worst and no better than the best of the signals there
\* are: a missing feed neither raises nor lowers it, and without any it is normal.
ScoreWithinEvidence ==
  row # None =>
    LET parts == Range(Components(row.signals))
    IN  IF parts = {} THEN row.score = 0 /\ row.action = 1
        ELSE row.score \in Min(parts)..Max(parts)

\* "So the engine degrades gracefully" (fetch_vix_term): a feed that hangs neither blanks the VIX,
\* nor takes back what came later, nor leaves a thread behind in every tick.
HungFeedHarmless == []VixNeverBlank /\ VixNeverGoesBack /\ DownloadsSpaced

\* The shadow monitor's row says what there was to see.
ShadowIsSound == TypeOK /\ ShadowMirrors /\ ScoreWithinEvidence
=============================================================================
