----------------------------- MODULE RegimeProofs -----------------------------
(***************************************************************************)
(* What RegimeFeed's safety properties say, for every feed, every time to  *)
(* live of the cache and however often the process is restarted; and what  *)
(* the shadow monitor writes, for every chain, quote and bar it may read.  *)
(***************************************************************************)
EXTENDS RegimeFeed, FoldProofs, SequenceTheorems

-----------------------------------------------------------------------------
(* What is read of the scored regime. *)

LEMMA RegimeCarries ==
  ASSUME NEW bs, NEW book, NEW e, NEW p, NEW fl, NEW t
  PROVE  LET scored == RegimeOf(t, bs, book, e, p, fl)
         IN  /\ scored.term = t /\ scored.flow = fl
             /\ (scored.kill <=> DrawdownFromPeak(e, p) >= 1000)
<1>1. Unit \div 10 = 1000
  BY DEF Unit
<1> QED
  BY <1>1 DEF RegimeOf, Score

LEMMA LargerOfTwo ==
  ASSUME NEW a \in Int, NEW b \in Int
  PROVE  Max({a, b}) = IF a >= b THEN a ELSE b
<1> DEFINE larger == IF a >= b THEN a ELSE b
<1>1. larger \in {a, b} /\ \A y \in {a, b} : larger >= y
  OBVIOUS
<1>2. \A x \in {a, b} : (\A y \in {a, b} : x >= y) => x = larger
  OBVIOUS
<1> QED
  BY <1>1, <1>2 DEF Max

-----------------------------------------------------------------------------
(* The VIX.  The cache holds what was downloaded last, its time is that of
   the last attempt, and a tick carries what the cache held. *)

CacheInv ==
  /\ clock \in Nat /\ started \in Nat /\ lastStart \in Nat
  /\ cache = [at |-> cache.at, gen |-> cache.gen, term |-> cache.term]
  /\ cache.at \in Nat /\ cache.gen \in 0..started
  /\ downloaded # {} => cache.term \in downloaded
  /\ pc = "download" => lastStart = clock
  /\ pc # "download" /\ cache.term.level # None => lastStart <= cache.at

TermInv ==
  /\ pc # "act" => ~failed
  /\ pc = "legs" /\ downloaded # {} => term \in downloaded
  /\ pc = "act" /\ ~failed /\ downloaded # {} => regime.term \in downloaded

LEMMA NoCacheHas == NoCache.at = 0 /\ NoCache.gen = 0 /\ NoCache.term.level = None
BY DEF NoCache, NoTerm

(* A failed download leaves the cached term, with a new time if it is known. *)
LEMMA FallBackKeeps ==
  ASSUME CacheInv, FallBack
  PROVE  /\ term' = cache.term
         /\ cache' = [at |-> cache'.at, gen |-> cache'.gen, term |-> cache'.term]
         /\ cache'.gen = cache.gen /\ cache'.term = cache.term
         /\ cache'.at \in {cache.at, clock}
         /\ cache.term.level # None => cache'.at = clock
<1>1. CASE cache.term.level # None
  <2>1. cache' = [at |-> clock, gen |-> cache.gen, term |-> cache.term]
    BY <1>1 DEF CacheInv, FallBack
  <2> QED
    BY <1>1, <2>1 DEF FallBack
<1>2. CASE cache.term.level = None
  BY <1>2 DEF CacheInv, FallBack
<1> QED
  BY <1>1, <1>2

LEMMA CacheStarts == Init => CacheInv /\ TermInv
BY NoCacheHas DEF Init, CacheInv, TermInv, NoCache

LEMMA CacheStep == CacheInv /\ [Next]_vars => CacheInv'
<1> SUFFICES ASSUME CacheInv, [Next]_vars PROVE CacheInv'
  OBVIOUS
<1>1. CASE StartDownload
  BY <1>1 DEF StartDownload, CacheInv, CacheIsFresh
<1>2. CASE Downloaded
  <2>1. PICK d \in Downloads :
          /\ cache' = [at |-> clock, gen |-> started, term |-> Term(d.vix, d.third)]
          /\ downloaded' = downloaded \cup {Term(d.vix, d.third)}
    BY <1>2 DEF Downloaded
  <2>2. UNCHANGED <<clock, started, lastStart>> /\ pc = "download" /\ pc' = "legs"
    BY <1>2 DEF Downloaded
  <2> QED
    BY <2>1, <2>2 DEF CacheInv
<1>3. CASE DownloadRaises \/ TimesOut
  <2>1. FallBack /\ UNCHANGED <<clock, started, lastStart, downloaded>>
        /\ pc = "download" /\ pc' = "legs"
    BY <1>3 DEF DownloadRaises, TimesOut, history
  <2> QED
    BY <2>1, FallBackKeeps DEF CacheInv
<1>4. CASE Save
  <2>1. UNCHANGED <<cache, started, lastStart, downloaded>> /\ clock' \in {clock + 1, clock + 2}
        /\ pc = "save" /\ pc' = "idle"
    BY <1>4 DEF Save
  <2> QED
    BY <2>1 DEF CacheInv
<1>5. CASE Restart
  <2>1. cache' = NoCache /\ downloaded' = {} /\ UNCHANGED <<clock, started, lastStart>> /\ pc' = "idle"
    BY <1>5 DEF Restart
  <2> QED
    BY <2>1, NoCacheHas DEF CacheInv, NoCache
<1>6. CASE StartTick \/ ReadEquity \/ ReadHistory \/ ReadFlow \/ ServeCached \/ ReadLegs
           \/ FeedRaises \/ EndTick \/ LateAnswer \/ UNCHANGED vars
  <2>1. UNCHANGED <<clock, cache, started, lastStart, downloaded>>
        /\ (pc' = pc \/ (pc # "download" /\ pc' # "download"))
    BY <1>6 DEF StartTick, ReadEquity, ReadHistory, ReadFlow, ServeCached, ReadLegs, FeedRaises,
                EndTick, LateAnswer, vars, history
  <2> QED
    BY <2>1 DEF CacheInv
<1> QED
  BY <1>1, <1>2, <1>3, <1>4, <1>5, <1>6 DEF Next, Step

LEMMA TermStep == CacheInv /\ TermInv /\ [Next]_vars => TermInv'
<1> SUFFICES ASSUME CacheInv, TermInv, [Next]_vars PROVE TermInv'
  OBVIOUS
<1>1. CASE ServeCached
  BY <1>1 DEF ServeCached, CacheInv, TermInv, history
<1>2. CASE Downloaded
  BY <1>2 DEF Downloaded, TermInv
<1>3. CASE DownloadRaises \/ TimesOut
  <2>1. FallBack /\ UNCHANGED <<failed, downloaded>> /\ pc = "download" /\ pc' = "legs"
    BY <1>3 DEF DownloadRaises, TimesOut, history
  <2> QED
    BY <2>1, FallBackKeeps DEF CacheInv, TermInv
<1>4. CASE ReadLegs
  <2>1. PICK book \in Books : regime' = RegimeOf(term, bars, book, equity, peak, flow)
    BY <1>4 DEF ReadLegs
  <2>2. regime'.term = term
    BY <2>1, RegimeCarries
  <2>3. pc = "legs" /\ pc' = "act" /\ UNCHANGED <<failed, downloaded, term>>
    BY <1>4 DEF ReadLegs, history
  <2> QED
    BY <2>2, <2>3 DEF TermInv
<1>5. CASE FeedRaises
  BY <1>5 DEF FeedRaises, TermInv
<1>6. CASE EndTick \/ Restart
  <2>1. failed' = FALSE /\ pc' \in {"save", "idle"}
    BY <1>6 DEF EndTick, Restart, Forget
  <2> QED
    BY <2>1 DEF TermInv
<1>7. CASE StartTick \/ ReadEquity \/ ReadHistory \/ ReadFlow \/ StartDownload \/ Save
  <2>1. UNCHANGED failed /\ pc # "act" /\ pc' \notin {"legs", "act"}
    BY <1>7 DEF StartTick, ReadEquity, ReadHistory, ReadFlow, StartDownload, Save, tick
  <2> QED
    BY <2>1 DEF TermInv
<1>8. CASE LateAnswer \/ UNCHANGED vars
  <2>1. UNCHANGED <<pc, failed, term, regime, downloaded>>
    BY <1>8 DEF LateAnswer, vars, tick, history
  <2> QED
    BY <2>1 DEF TermInv
<1> QED
  BY <1>1, <1>2, <1>3, <1>4, <1>5, <1>6, <1>7, <1>8 DEF Next, Step

(* Once the VIX was downloaded, no regime is without one, or with one that was
   never downloaded: fetch_vix_term's fallback to the last good value. *)
THEOREM VixIsNeverBlank == Spec => []VixNeverBlank
<1>1. CacheInv /\ TermInv => VixNeverBlank
  BY DEF TermInv, VixNeverBlank
<1> QED
  BY CacheStarts, CacheStep, TermStep, <1>1, PTL DEF Spec

(* An abandoned download never replaces a later one: its answer goes into a
   box nobody opens any more (run_with_timeout). *)
THEOREM AbandonedNeverReturns == Spec => VixNeverGoesBack
<1>1. CacheInv /\ [Next]_vars => [cache'.gen >= cache.gen \/ cache' = NoCache]_vars
  <2> SUFFICES ASSUME CacheInv, Next PROVE cache'.gen >= cache.gen \/ cache' = NoCache
    BY DEF CacheInv
  <2>1. CASE Downloaded
    <3>1. cache'.gen = started
      BY <2>1 DEF Downloaded
    <3> QED
      BY <3>1 DEF CacheInv
  <2>2. CASE DownloadRaises \/ TimesOut
    <3>1. cache'.gen = cache.gen
      BY <2>2, FallBackKeeps DEF DownloadRaises, TimesOut
    <3> QED
      BY <3>1 DEF CacheInv
  <2>3. CASE Restart
    BY <2>3 DEF Restart
  <2>4. CASE StartTick \/ ReadEquity \/ ReadHistory \/ ReadFlow \/ ServeCached \/ StartDownload
             \/ ReadLegs \/ FeedRaises \/ EndTick \/ Save \/ LateAnswer
    <3>1. cache' = cache
      BY <2>4 DEF StartTick, ReadEquity, ReadHistory, ReadFlow, ServeCached, StartDownload,
                  ReadLegs, FeedRaises, EndTick, Save, LateAnswer
    <3> QED
      BY <3>1 DEF CacheInv
  <2> QED
    BY <2>1, <2>2, <2>3, <2>4 DEF Next, Step
<1> QED
  BY CacheStarts, CacheStep, <1>1, PTL DEF Spec, VixNeverGoesBack

(* With a VIX at hand, downloads are started a time to live apart though each
   of them hangs: the fallback counts as new. *)
THEOREM DownloadsAreSpaced == Spec => DownloadsSpaced
<1>1. CacheInv /\ [Next]_vars =>
        [started' > started /\ cache.term.level # None => clock - lastStart >= Ttl]_vars
  <2> SUFFICES ASSUME CacheInv, Next, started' > started, cache.term.level # None
               PROVE  clock - lastStart >= Ttl
    OBVIOUS
  <2>1. CASE StartDownload
    <3>1. pc = "vix" /\ ~(clock - cache.at < Ttl)
      BY <2>1 DEF StartDownload, CacheIsFresh
    <3>2. lastStart <= cache.at
      BY <3>1 DEF CacheInv
    <3> QED
      BY <3>1, <3>2, FeedAssumption DEF CacheInv
  <2>2. CASE StartTick \/ ReadEquity \/ ReadHistory \/ ReadFlow \/ ServeCached \/ TimesOut
             \/ ReadLegs \/ FeedRaises \/ EndTick \/ Save \/ LateAnswer \/ Restart
             \/ Downloaded \/ DownloadRaises
    <3>1. started' = started
      BY <2>2 DEF StartTick, ReadEquity, ReadHistory, ReadFlow, ServeCached, TimesOut, ReadLegs,
                  FeedRaises, EndTick, Save, LateAnswer, Restart, Downloaded, DownloadRaises, history
    <3> QED
      BY <3>1 DEF CacheInv
  <2> QED
    BY <2>1, <2>2 DEF Next, Step
<1> QED
  BY CacheStarts, CacheStep, <1>1, PTL DEF Spec, DownloadsSpaced

(* A feed that hangs does no harm, whatever its time to live and however often
   it hangs. *)
THEOREM HungFeedIsHarmless == Spec => HungFeedHarmless
BY VixIsNeverBlank, AbandonedNeverReturns, DownloadsAreSpaced, PTL DEF HungFeedHarmless

-----------------------------------------------------------------------------
(* The flow.  What is remembered as bullish was read as bullish, in the tick it
   was remembered in; a tick that failed publishes no bias. *)

FlowInv ==
  /\ pc # "act" => ~failed
  /\ prevFlow = "bullish" => tide = "bullish"
  /\ saved = "bullish" => savedTide = "bullish"
  /\ pc = "act" => (failed => regime.flow.bias = "neutral") /\ (~failed => regime.flow = flow)

LEMMA FlowStarts == Init => FlowInv
BY FeedAssumption DEF Init, FlowInv, Biases

LEMMA FlowStep == FlowInv /\ [Next]_vars => FlowInv'
<1> SUFFICES ASSUME FlowInv, [Next]_vars PROVE FlowInv'
  OBVIOUS
<1>1. CASE ReadLegs
  <2>1. PICK book \in Books : regime' = RegimeOf(term, bars, book, equity, peak, flow)
    BY <1>1 DEF ReadLegs
  <2>2. regime'.flow = flow
    BY <2>1, RegimeCarries
  <2>3. pc = "legs" /\ pc' = "act" /\ UNCHANGED <<failed, flow, prevFlow, saved, tide, savedTide>>
    BY <1>1 DEF ReadLegs, history
  <2> QED
    BY <2>2, <2>3 DEF FlowInv
<1>2. CASE FeedRaises
  <2>1. regime'.flow.bias = "neutral"
    BY <1>2 DEF FeedRaises, Neutral, NoFlow
  <2>2. failed' /\ pc' = "act" /\ UNCHANGED <<prevFlow, saved, tide, savedTide>>
    BY <1>2 DEF FeedRaises, history
  <2> QED
    BY <2>1, <2>2 DEF FlowInv
<1>3. CASE EndTick
  <2>1. /\ pc = "act" /\ pc' = "save" /\ failed' = FALSE /\ UNCHANGED <<saved, savedTide>>
        /\ prevFlow' = regime.flow.bias /\ tide' = IF failed THEN "neutral" ELSE flow.bias
    BY <1>3 DEF EndTick, Forget, Remembered
  <2>2. CASE failed
    <3>1. prevFlow' = "neutral"
      BY <2>1, <2>2 DEF FlowInv
    <3> QED
      BY <2>1, <3>1 DEF FlowInv
  <2>3. CASE ~failed
    BY <2>1, <2>3 DEF FlowInv
  <2> QED
    BY <2>2, <2>3
<1>4. CASE Save
  <2>1. pc = "save" /\ pc' = "idle" /\ UNCHANGED <<failed, prevFlow, tide>>
        /\ saved' = prevFlow /\ savedTide' = tide
    BY <1>4 DEF Save, tick
  <2> QED
    BY <2>1 DEF FlowInv
<1>5. CASE Restart
  <2>1. pc' = "idle" /\ failed' = FALSE /\ UNCHANGED <<saved, savedTide>>
        /\ prevFlow' = saved /\ tide' = savedTide
    BY <1>5 DEF Restart, Forget
  <2> QED
    BY <2>1 DEF FlowInv
<1>6. CASE StartTick \/ ReadEquity \/ ReadHistory \/ ReadFlow \/ ServeCached \/ StartDownload
           \/ Downloaded \/ DownloadRaises \/ TimesOut
  <2>1. pc # "act" /\ pc' # "act" /\ UNCHANGED <<failed, prevFlow, saved, tide, savedTide>>
    BY <1>6 DEF StartTick, ReadEquity, ReadHistory, ReadFlow, ServeCached, StartDownload,
                Downloaded, DownloadRaises, TimesOut, tick, history
  <2> QED
    BY <2>1 DEF FlowInv
<1>7. CASE LateAnswer \/ UNCHANGED vars
  <2>1. UNCHANGED <<pc, failed, regime, flow, prevFlow, saved, tide, savedTide>>
    BY <1>7 DEF LateAnswer, vars, tick, history
  <2> QED
    BY <2>1 DEF FlowInv
<1> QED
  BY <1>1, <1>2, <1>3, <1>4, <1>5, <1>6, <1>7 DEF Next, Step

(* run_flow_degross_cycle sees a flip only if the flow was read as bullish in
   the last tick that was saved or ran, and as bearish in this one: neither a
   tick without feeds nor a restart makes one up. *)
THEOREM FlipsAreRead == Spec => []FlipIsTwoReads
<1>1. FlowInv => FlipIsTwoReads
  BY DEF FlowInv, FlipIsTwoReads, FlowFlips
<1> QED
  BY FlowStarts, FlowStep, <1>1, PTL DEF Spec

-----------------------------------------------------------------------------
(* The kill switch.  The peak is the highest equity this process has read. *)

LEMMA RoundedReaches ==
  ASSUME NEW a \in Nat, NEW b \in Nat \ {0}
  PROVE  /\ Rounded(a, b) >= 1000 => a >= 999 * b
         /\ a >= 1000 * b => Rounded(a, b) >= 1000
<1> DEFINE down == a \div b
           rest == a % b
<1>1. down \in Nat /\ rest \in 0..(b - 1) /\ a = b * down + rest
  OBVIOUS
<1>2. Rounded(a, b) \in {down, down + 1}
  BY DEF Rounded
<1> HIDE DEF down, rest
<1>3. down >= 999 => b * down >= b * 999
  BY <1>1
<1>4. down <= 999 => b * down <= b * 999
  BY <1>1
<1>5. a >= 1000 * b => down >= 1000
  BY <1>1, <1>4
<1> QED
  BY <1>1, <1>2, <1>3, <1>5

PeakInv ==
  /\ peak \in Nat /\ readings \subseteq Nat
  /\ peak # 0 => peak \in readings
  /\ \A top \in readings : top <= peak
  /\ pc \notin {"idle", "equity", "save"} /\ ~failed => equity \in readings
  /\ pc # "act" => ~failed
  /\ pc = "act" /\ failed => ~regime.kill
  /\ pc = "act" /\ ~failed => (regime.kill <=> DrawdownFromPeak(equity, peak) >= 1000)

(* A drawdown the kill switch trips at (score). *)
DeepFall(e, p) == DrawdownFromPeak(e, p) >= 1000

(* A drawdown that kills is a tenth of the peak, to the rounding. *)
LEMMA DrawdownKills ==
  ASSUME NEW e \in Nat, NEW p \in Nat, e <= p
  PROVE  /\ DeepFall(e, p) => p > 0 /\ 10000 * (p - e) >= 999 * p
         /\ p > 0 /\ 10 * (p - e) >= p => DeepFall(e, p)
<1>1. Max({0, p - e}) = p - e
  BY LargerOfTwo
<1>2. CASE p = 0
  BY <1>2 DEF DrawdownFromPeak, DeepFall
<1>3. CASE p > 0
  <2>1. DrawdownFromPeak(e, p) = Rounded(10000 * (p - e), p)
    BY <1>1, <1>3 DEF DrawdownFromPeak, Unit
  <2>2. 10000 * (p - e) \in Nat /\ p \in Nat \ {0}
    BY <1>3
  <2> QED
    BY <1>3, <2>1, <2>2, RoundedReaches DEF DeepFall
<1> QED
  BY <1>2, <1>3

LEMMA PeakStarts == Init => PeakInv
BY DEF Init, PeakInv

LEMMA PeakStep == PeakInv /\ [Next]_vars => PeakInv'
<1> SUFFICES ASSUME PeakInv, [Next]_vars PROVE PeakInv'
  OBVIOUS
<1>1. CASE ReadEquity
  <2>1. /\ pc = "equity" /\ pc' = "history" /\ equity' \in Nat /\ UNCHANGED failed
        /\ peak' = Max({peak, equity'}) /\ readings' = readings \cup {equity'}
    BY <1>1, FeedAssumption DEF ReadEquity
  <2>2. peak' = IF peak >= equity' THEN peak ELSE equity'
    BY <2>1, LargerOfTwo DEF PeakInv
  <2> QED
    BY <2>1, <2>2 DEF PeakInv
<1>2. CASE ReadLegs
  <2>1. PICK book \in Books : regime' = RegimeOf(term, bars, book, equity, peak, flow)
    BY <1>2 DEF ReadLegs
  <2>2. regime'.kill <=> DrawdownFromPeak(equity, peak) >= 1000
    BY <2>1, RegimeCarries
  <2>3. pc = "legs" /\ pc' = "act" /\ UNCHANGED <<failed, equity, peak, readings>>
    BY <1>2 DEF ReadLegs, history
  <2> QED
    BY <2>2, <2>3 DEF PeakInv
<1>3. CASE FeedRaises
  <2>1. ~regime'.kill
    BY <1>3 DEF FeedRaises, Neutral
  <2>2. failed' /\ pc' = "act" /\ UNCHANGED <<peak, readings>>
    BY <1>3 DEF FeedRaises, history
  <2> QED
    BY <2>1, <2>2 DEF PeakInv
<1>4. CASE EndTick
  <2>1. pc' = "save" /\ failed' = FALSE /\ UNCHANGED <<peak, readings>>
    BY <1>4 DEF EndTick, Forget
  <2> QED
    BY <2>1 DEF PeakInv
<1>5. CASE Restart
  <2>1. pc' = "idle" /\ failed' = FALSE /\ peak' = 0 /\ readings' = {}
    BY <1>5 DEF Restart, Forget
  <2> QED
    BY <2>1 DEF PeakInv
<1>6. CASE StartTick \/ Save
  <2>1. pc \in {"idle", "save"} /\ pc' \in {"idle", "equity"} /\ UNCHANGED <<failed, peak, readings>>
    BY <1>6 DEF StartTick, Save, tick, history
  <2> QED
    BY <2>1 DEF PeakInv
<1>7. CASE ReadHistory \/ ReadFlow \/ ServeCached \/ StartDownload \/ Downloaded
           \/ DownloadRaises \/ TimesOut
  <2>1. pc \in {"history", "flow", "vix", "download"} /\ pc' # "act"
        /\ UNCHANGED <<failed, equity, peak, readings>>
    BY <1>7 DEF ReadHistory, ReadFlow, ServeCached, StartDownload, Downloaded, DownloadRaises,
                TimesOut, tick, history
  <2> QED
    BY <2>1 DEF PeakInv
<1>8. CASE LateAnswer \/ UNCHANGED vars
  <2>1. UNCHANGED <<pc, failed, regime, equity, peak, readings>>
    BY <1>8 DEF LateAnswer, vars, tick, history
  <2> QED
    BY <2>1 DEF PeakInv
<1> QED
  BY <1>1, <1>2, <1>3, <1>4, <1>5, <1>6, <1>7, <1>8 DEF Next, Step

(* The kill is a fall of a tenth from an equity this process has read, and no
   such fall of a tick that read everything is missed (regime_provider,
   drawdown_from_peak, score). *)
THEOREM KillsAreDrawdowns == Spec => []KillIsDrawdown
<1>1. PeakInv => KillIsDrawdown
  <2> SUFFICES ASSUME PeakInv, pc = "act"
               PROVE  /\ regime.kill => \E top \in readings : 10000 * (top - equity) >= 999 * top
                      /\ ~failed /\ (\E top \in readings : top > 0 /\ 10 * (top - equity) >= top)
                           => regime.kill
    BY DEF KillIsDrawdown
  <2>1. CASE failed
    BY <2>1 DEF PeakInv
  <2>2. CASE ~failed
    <3>1. peak \in Nat /\ equity \in Nat /\ equity <= peak
      BY <2>2 DEF PeakInv
    <3>4. regime.kill <=> DeepFall(equity, peak)
      BY <2>2 DEF PeakInv, DeepFall
    <3>5. /\ DeepFall(equity, peak) => peak > 0 /\ 10000 * (peak - equity) >= 999 * peak
          /\ peak > 0 /\ 10 * (peak - equity) >= peak => DeepFall(equity, peak)
      BY <3>1, DrawdownKills
    <3>2. ASSUME regime.kill
          PROVE  \E top \in readings : 10000 * (top - equity) >= 999 * top
      <4>0. DeepFall(equity, peak)
        BY ONLY <3>2, <3>4
      <4>1. peak > 0 /\ 10000 * (peak - equity) >= 999 * peak
        BY ONLY <3>5, <4>0
      <4>2. peak \in readings
        BY <4>1 DEF PeakInv
      <4> QED
        BY <4>1, <4>2
    <3>3. ASSUME NEW top \in readings, top > 0, 10 * (top - equity) >= top
          PROVE  regime.kill
      <4>1. top \in Nat /\ top <= peak
        BY DEF PeakInv
      <4>2. peak > 0 /\ 10 * (peak - equity) >= peak
        BY <3>1, <3>3, <4>1
      <4>3. DeepFall(equity, peak)
        BY <3>5, <4>2
      <4> QED
        BY ONLY <3>4, <4>3
    <3> QED
      BY <2>2, <3>2, <3>3
  <2> QED
    BY <2>1, <2>2
<1> QED
  BY PeakStarts, PeakStep, <1>1, PTL DEF Spec

-----------------------------------------------------------------------------
(* Roundings, averages and ranges. *)

\* What a quotient lies between, its rounding does.
LEMMA RoundedBetween ==
  ASSUME NEW a \in Int, NEW b \in Nat \ {0}, NEW lo \in Int, NEW hi \in Int,
         lo * b <= a, a <= hi * b
  PROVE  Rounded(a, b) \in lo..hi
<1> DEFINE down == a \div b
           rest == a % b
<1>1. down \in Int /\ rest \in 0..(b - 1) /\ a = b * down + rest
  OBVIOUS
<1>2. Rounded(a, b) \in {down, down + 1} /\ (rest = 0 => Rounded(a, b) = down)
  BY <1>1 DEF Rounded
<1> HIDE DEF down, rest
<1>3. down < lo => b * down <= b * (lo - 1)
  BY <1>1
<1>4. down > hi => b * down >= b * (hi + 1)
  BY <1>1
<1>5. b * (lo - 1) = lo * b - b /\ b * (hi + 1) = hi * b + b
  OBVIOUS
<1>6. lo <= down /\ down <= hi
  BY <1>1, <1>3, <1>4, <1>5
<1>7. down = hi => rest = 0
  <2> SUFFICES ASSUME down = hi PROVE rest = 0
    OBVIOUS
  <2>1. b * down = hi * b
    BY <1>1
  <2> QED
    BY <1>1, <2>1
<1> QED
  BY <1>1, <1>2, <1>6, <1>7

LEMMA RoundedType == ASSUME NEW a \in Int, NEW b \in Nat \ {0} PROVE Rounded(a, b) \in Int
<1>1. a \div b \in Int
  OBVIOUS
<1> QED
  BY <1>1 DEF Rounded

LEMMA SmallerOfTwo ==
  ASSUME NEW a \in Int, NEW b \in Int
  PROVE  Min({a, b}) = IF a <= b THEN a ELSE b
<1> DEFINE smaller == IF a <= b THEN a ELSE b
<1>1. smaller \in {a, b} /\ \A y \in {a, b} : smaller <= y
  OBVIOUS
<1>2. \A x \in {a, b} : (\A y \in {a, b} : x <= y) => x = smaller
  OBVIOUS
<1> QED
  BY <1>1, <1>2 DEF Min

LEMMA DistanceType == ASSUME NEW a \in Int, NEW b \in Int PROVE Distance(a, b) \in Nat
<1>1. a - b \in Int /\ b - a \in Int
  OBVIOUS
<1>2. Distance(a, b) = IF a - b >= b - a THEN a - b ELSE b - a
  BY <1>1, LargerOfTwo DEF Distance
<1> QED
  BY <1>2

LEMMA ClampIn == ASSUME NEW x \in Int PROVE Clamp(x) \in 0..Unit
<1>1. Min({Unit, x}) = IF Unit <= x THEN Unit ELSE x
  BY SmallerOfTwo DEF Unit
<1>2. Min({Unit, x}) \in Int /\ Min({Unit, x}) <= Unit /\ Unit \in Nat
  BY <1>1 DEF Unit
<1>3. Clamp(x) = IF 0 >= Min({Unit, x}) THEN 0 ELSE Min({Unit, x})
  BY <1>2, LargerOfTwo DEF Clamp
<1> QED
  BY <1>2, <1>3

\* The rounded mean of numbers lies between the least and the greatest of them.
LEMMA MeanBetween ==
  ASSUME NEW lo \in Int, NEW hi \in Int, NEW s \in Seq(lo..hi), s # << >>
  PROVE  Rounded(Total(s), Len(s)) \in lo..hi
<1>1. DOMAIN s = 1..Len(s) /\ Len(s) \in Nat \ {0} /\ \A i \in DOMAIN s : s[i] \in lo..hi
  OBVIOUS
<1>2. IsFiniteSet(DOMAIN s) /\ Cardinality(DOMAIN s) = Len(s)
  BY <1>1, FS_Interval
<1>3. /\ Total(s) \in Int
      /\ lo * Len(s) <= Total(s) /\ Total(s) <= hi * Len(s)
  BY <1>1, <1>2, SumBetween, Zenon DEF Total, SumFunction
<1> QED
  BY <1>1, <1>3, RoundedBetween

LEMMA TotalIsNumber ==
  ASSUME NEW s, NEW n \in Nat, DOMAIN s = 1..n, \A i \in 1..n : s[i] \in Int
  PROVE  Total(s) \in Int
<1>1. IsFiniteSet(DOMAIN s)
  BY FS_Interval
<1> QED
  BY <1>1, TotalType DEF Total

-----------------------------------------------------------------------------
(* The scored regime. *)

\* A term as the regime engine may see it: unknown, or ranked between none and all of its past.
Readable(t) == (t.rank = None \/ t.rank \in 0..Unit) /\ (t.slope = None \/ t.slope \in Int)

LEMMA WhenAdds ==
  ASSUME NEW S, NEW s \in Seq(S), NEW condition \in BOOLEAN, NEW x, condition => x \in S
  PROVE  s \o When(condition, x) \in Seq(S)
<1>1. When(condition, x) \in Seq(S)
  BY DEF When
<1> QED
  BY <1>1

LEMMA WhenIs ==
  ASSUME NEW S, NEW condition \in BOOLEAN, NEW x, condition => x \in S
  PROVE  When(condition, x) \in Seq(S)
BY DEF When

LEMMA PctRankIn ==
  ASSUME NEW latest, NEW series \in Seq(Nat)
  PROVE  PctRank(latest, series) = None \/ PctRank(latest, series) \in 0..Unit
<1>1. CASE series = << >>
  BY <1>1 DEF PctRank
<1>2. CASE series # << >>
  <2> DEFINE below == {i \in DOMAIN series : series[i] <= latest}
             n == Cardinality(below)
  <2>1. IsFiniteSet(DOMAIN series) /\ Cardinality(DOMAIN series) = Len(series)
        /\ Len(series) \in Nat \ {0}
    <3>1. DOMAIN series = 1..Len(series) /\ Len(series) \in Nat \ {0}
      BY <1>2
    <3> QED
      BY <3>1, FS_Interval
  <2>2. n \in Nat /\ n <= Len(series)
    BY <2>1, FS_Subset, FS_CardinalityType
  <2>3. PctRank(latest, series) = Rounded(Unit * n, Len(series))
    BY <1>2 DEF PctRank
  <2> HIDE DEF n
  <2>4. Unit * n \in Int /\ 0 * Len(series) <= Unit * n /\ Unit * n <= Unit * Len(series)
    BY <2>1, <2>2 DEF Unit
  <2>5. Unit \in Int
    BY DEF Unit
  <2> QED
    BY <2>1, <2>3, <2>4, <2>5, RoundedBetween
<1> QED
  BY <1>1, <1>2

LEMMA LatestIs ==
  ASSUME NEW S, NEW s \in Seq(S), NEW n \in Nat, Len(s) > 0
  PROVE  Latest(s, n) \in Seq(S)
<1> DEFINE from == Max({1, Len(s) - n + 1})
<1>1. Len(s) - n + 1 \in Int /\ Len(s) \in Int
  OBVIOUS
<1>2. from = IF 1 >= Len(s) - n + 1 THEN 1 ELSE Len(s) - n + 1
  BY <1>1, LargerOfTwo
<1>3. from \in Int /\ from >= 1
  BY <1>1, <1>2
<1>4. SubSeq(s, from, Len(s)) \in Seq(S)
  <2> HIDE DEF from
  <2>1. \A i \in from..Len(s) : s[i] \in S
    BY <1>1, <1>3
  <2> QED
    BY <1>1, <1>3, <2>1, SubSeqProperties, Zenon
<1> QED
  BY <1>4 DEF Latest

LEMMA TermReadable ==
  ASSUME NEW vix \in Seq(Nat) \ {<< >>}, NEW third \in Seq(Nat)
  PROVE  Readable(Term(vix, third))
<1> DEFINE t == Term(vix, third)
<1>1. t.rank = None \/ t.rank \in 0..Unit
  <2>1. Latest(vix, Lookback) \in Seq(Nat)
    BY LatestIs, SignalAssumption
  <2> QED
    BY <2>1, PctRankIn DEF Term
<1>2. t.slope \in Int
  <2>1. Last(vix) \in Nat /\ (third # << >> => Last(third) \in Nat)
    BY DEF Last
  <2>2. ASSUME NEW a \in Nat, NEW b \in Nat PROVE TermSlope(a, b) \in Int
    <3>1. a # 0 => Unit * (b - a) \in Int /\ a \in Nat \ {0}
      BY DEF Unit
    <3> QED
      BY <3>1, RoundedType DEF TermSlope
  <2>3. third # << >> => TermSlope(Last(vix), Last(third)) \in Int
    BY <2>1, <2>2
  <2> QED
    BY <2>3 DEF Term
<1> QED
  BY <1>1, <1>2 DEF Readable

LEMMA DrawdownIn ==
  ASSUME NEW e \in Nat, NEW p \in Nat
  PROVE  DrawdownFromPeak(e, p) \in 0..Unit
<1>1. CASE p = 0
  BY <1>1 DEF DrawdownFromPeak, Unit
<1>2. CASE p # 0
  <2> DEFINE m == Max({0, p - e})
  <2>1. m \in Nat /\ m <= p
    BY LargerOfTwo
  <2>2. DrawdownFromPeak(e, p) = Rounded(Unit * m, p)
    BY <1>2 DEF DrawdownFromPeak
  <2> HIDE DEF m
  <2>3. Unit * m \in Int /\ 0 * p <= Unit * m /\ Unit * m <= Unit * p /\ Unit \in Int
    BY <2>1 DEF Unit
  <2> QED
    BY <1>2, <2>2, <2>3, RoundedBetween
<1> QED
  BY <1>1, <1>2

LEMMA ConcentrationIn ==
  ASSUME NEW S, NEW book \in Seq(S)
  PROVE  ConcentrationScore(book) \in 0..Unit
<1>1. CASE book = << >>
  BY <1>1 DEF ConcentrationScore, Unit
<1>2. CASE book # << >>
  <2> DEFINE n == Len(book)
             crowd(i) == Cardinality({j \in DOMAIN book : Bucket(book[j]) = Bucket(book[i])})
             crowds == {crowd(i) : i \in DOMAIN book}
             m == Max(crowds)
  <2>1. DOMAIN book = 1..n /\ n \in Nat \ {0}
    BY <1>2
  <2>2. IsFiniteSet(DOMAIN book) /\ Cardinality(DOMAIN book) = n
    BY <2>1, FS_Interval
  <2>3. \A i \in DOMAIN book : crowd(i) \in Nat /\ crowd(i) <= n
    BY <2>2, FS_Subset, FS_CardinalityType
  <2>4. crowds \subseteq Nat /\ crowds # {} /\ \A c \in crowds : c <= n
    <3> HIDE DEF crowd
    <3>1. DOMAIN book # {}
      BY <2>1
    <3> HIDE DEF n
    <3> QED
      BY <2>3, <3>1
  <2>5. ConcentrationScore(book) = Rounded(Unit * m, n)
    BY <1>2 DEF ConcentrationScore
  <2> HIDE DEF crowds, n
  <2>6. m \in Nat /\ m <= n
    BY <2>1, <2>4, MaxIsGreatest
  <2> HIDE DEF m
  <2>7. Unit * m \in Int /\ 0 * n <= Unit * m /\ Unit * m <= Unit * n /\ Unit \in Int
    BY <2>1, <2>6 DEF Unit
  <2> QED
    BY <2>1, <2>5, <2>7, RoundedBetween
<1> QED
  BY <1>1, <1>2

LEMMA LevelIn == ASSUME NEW rank \in 0..Unit PROVE Max({0, 2 * rank - Unit}) \in 0..Unit
<1>1. rank \in Nat /\ rank <= Unit /\ Unit \in Nat
  BY DEF Unit
<1>2. Max({0, 2 * rank - Unit}) = IF 0 >= 2 * rank - Unit THEN 0 ELSE 2 * rank - Unit
  BY <1>1, LargerOfTwo
<1> QED
  BY <1>1, <1>2

LEMMA InvertedIn ==
  ASSUME NEW slope \in Int
  PROVE  Min({Unit, 10 * Distance(slope, 0)}) \in 0..Unit
<1> DEFINE deep == 10 * Distance(slope, 0)
<1>1. deep \in Nat /\ Unit \in Nat
  BY DistanceType DEF Unit
<1> HIDE DEF deep
<1>2. Min({Unit, deep}) = IF Unit <= deep THEN Unit ELSE deep
  BY <1>1, SmallerOfTwo
<1>3. Min({Unit, deep}) \in 0..Unit
  BY <1>1, <1>2
<1> QED
  BY <1>3 DEF deep

LEMMA StressIn ==
  ASSUME NEW t, Readable(t), NEW bias, NEW extreme \in BOOLEAN
  PROVE  StressComponents(t, bias, extreme) \in Seq(0..Unit)
<1> DEFINE level == Max({0, 2 * t.rank - Unit})
           inverted == Min({Unit, 10 * Distance(t.slope, 0)})
<1>1. t.rank # None => level \in 0..Unit
  <2>1. t.rank # None => t.rank \in 0..Unit
    BY Zenon DEF Readable
  <2> QED
    BY <2>1, LevelIn, Zenon
<1>2. t.slope # None => inverted \in 0..Unit
  <2>1. t.slope # None => t.slope \in Int
    BY Zenon DEF Readable
  <2> QED
    BY <2>1, InvertedIn, Zenon
<1>3. Unit \in 0..Unit
  BY DEF Unit
<1> DEFINE S == 0..Unit
           first == When(t.rank # None, level)
           second == first \o When(t.slope # None /\ t.slope < 0, inverted)
           third == second \o When(bias = "down", Unit)
<1> HIDE DEF S, level, inverted
<1>4. first \in Seq(S)
  BY <1>1, WhenIs DEF S
<1>5. second \in Seq(S)
  <2> DEFINE falls == t.slope # None /\ t.slope < 0
  <2>1. falls \in BOOLEAN /\ (falls => inverted \in S)
    BY <1>2 DEF S
  <2> HIDE DEF falls, first
  <2>2. first \o When(falls, inverted) \in Seq(S)
    BY <1>4, <2>1, WhenAdds
  <2> QED
    BY <2>2 DEF falls
<1>6. third \in Seq(S)
  <2> HIDE DEF second
  <2> QED
    BY <1>3, <1>5, WhenAdds DEF S
<1>7. third \o When(extreme, Unit) \in Seq(S)
  <2> HIDE DEF third
  <2> QED
    BY <1>3, <1>6, WhenAdds DEF S
<1> QED
  BY <1>7, Zenon DEF StressComponents, S, level, inverted

\* The scores of a regime are parts of the whole.
Scored(r) ==
  /\ {r.stress, r.concentration, r.drawdown, r.degross} \subseteq 0..Unit
  /\ r.size \in (Unit \div 2)..Unit /\ r.widen \in 0..(Unit \div 2)

LEMMA HalvesIn ==
  ASSUME NEW stress \in 0..Unit
  PROVE  Rounded(2 * Unit - stress, 2) \in (Unit \div 2)..Unit /\ Rounded(stress, 2) \in 0..(Unit \div 2)
<1> DEFINE half == Unit \div 2
           rest == 2 * Unit - stress
<1>1. stress \in Int /\ rest \in Int /\ half \in Int /\ Unit \in Int /\ 0 \in Int /\ 2 \in Nat \ {0}
  BY DEF Unit
<1>2. half * 2 <= rest /\ rest <= Unit * 2
  BY DEF Unit
<1>3. 0 * 2 <= stress /\ stress <= half * 2
  BY DEF Unit
<1> HIDE DEF half, rest
<1>4. Rounded(rest, 2) \in half..Unit
  BY <1>1, <1>2, RoundedBetween, Zenon
<1>5. Rounded(stress, 2) \in 0..half
  BY <1>1, <1>3, RoundedBetween, Zenon
<1> QED
  BY <1>4, <1>5 DEF half, rest

LEMMA NeutralIsScored == Scored(Neutral) /\ Neutral.flow.bias = "neutral"
<1>1. Unit \div 2 = 5000
  BY DEF Unit
<1> QED
  BY <1>1 DEF Scored, Neutral, NoFlow, Unit

\* Whatever is read, what the scorer makes of it stays in range.
LEMMA RegimeIsScored ==
  ASSUME NEW t, Readable(t), NEW bs, NEW S, NEW book \in Seq(S), NEW e \in Nat, NEW p \in Nat,
         NEW fl, fl.extreme \in BOOLEAN
  PROVE  Scored(RegimeOf(t, bs, book, e, p, fl))
<1> DEFINE bias == TrendBias(Closes(bs))
           parts == StressComponents(t, bias, fl.extreme)
           stress == IF parts = << >> THEN 0 ELSE Rounded(Total(parts), Len(parts))
           drawdown == DrawdownFromPeak(e, p)
           r == RegimeOf(t, bs, book, e, p, fl)
<1>1. parts \in Seq(0..Unit)
  BY StressIn
<1>2. stress \in 0..Unit
  <2>1. Unit \in Nat
    BY DEF Unit
  <2> HIDE DEF parts
  <2> QED
    BY <1>1, <2>1, MeanBetween
<1>3. drawdown \in 0..Unit
  BY DrawdownIn
<1>4. ConcentrationScore(book) \in 0..Unit
  BY ConcentrationIn
<1>5. Unit \div 2 \in 0..Unit /\ Unit \in 0..Unit /\ 0 \in 0..Unit
  BY DEF Unit
<1>6. /\ r.stress = stress /\ r.concentration = ConcentrationScore(book) /\ r.drawdown = drawdown
      /\ r.degross \in {Unit, Unit \div 2, 0}
      /\ r.size = Rounded(2 * Unit - stress, 2) /\ r.widen = Rounded(stress, 2)
  BY Zenon DEF RegimeOf, Score
<1> HIDE DEF stress, drawdown, r
<1>7. r.size \in (Unit \div 2)..Unit /\ r.widen \in 0..(Unit \div 2)
  BY <1>2, <1>6, HalvesIn, Zenon
<1>8. r.degross \in 0..Unit
  BY <1>5, <1>6
<1>9. r.stress \in 0..Unit /\ r.concentration \in 0..Unit /\ r.drawdown \in 0..Unit
  BY <1>2, <1>3, <1>4, <1>6, Zenon
<1>10. {r.stress, r.concentration, r.drawdown, r.degross} \subseteq 0..Unit
  BY <1>8, <1>9, Zenon
<1> QED
  BY <1>7, <1>10, Zenon DEF Scored, r

-----------------------------------------------------------------------------
(* The shadow monitor's signals and their score. *)

Evident(s) ==
  /\ s.fromVwap \in Maybe(Int) /\ s.fromHigh \in Maybe(Int) /\ s.vixRatio \in Maybe(Int)
  /\ s.qqqDia \in Maybe(Int) /\ s.soxxSpy \in Maybe(Int)

LEMMA MinusType ==
  ASSUME NEW a \in Maybe(Int), NEW b \in Maybe(Int)
  PROVE  Minus(a, b) \in Maybe(Int)
<1>1. a # None /\ b # None => a \in Int /\ b \in Int
  BY Zenon DEF Maybe
<1>2. a # None /\ b # None => a - b \in Int
  BY <1>1
<1> QED
  BY <1>2, Zenon DEF Minus, Maybe

LEMMA RatioType ==
  ASSUME NEW a \in Maybe(Int), NEW b \in Maybe(Nat)
  PROVE  Ratio(a, b) \in Maybe(Int)
<1> DEFINE known == a # None /\ b # None /\ b # 0
<1>1. known => a \in Int /\ b \in Nat
  BY Zenon DEF Maybe
<1>2. known => Unit * a \in Int /\ b \in Nat \ {0}
  BY <1>1 DEF Unit
<1>3. known => Rounded(Unit * a, b) \in Int
  BY <1>2, RoundedType, Zenon
<1> QED
  BY <1>3, Zenon DEF Ratio, Maybe

LEMMA NumbersAreMaybe == ASSUME NEW x \in Maybe(Nat) PROVE x \in Maybe(Int)
<1>1. x = None \/ x \in Nat
  BY Zenon DEF Maybe
<1>2. x \in Nat => x \in Int
  OBVIOUS
<1> QED
  BY <1>1, <1>2, Zenon DEF Maybe

LEMMA QuotesAreKnown ==
  ASSUME NEW quotes \in Seq(Quote), NEW s \in Basket
  PROVE  LET q == BasketQuotes(quotes)[s]
         IN  q.last \in Maybe(Nat) /\ q.high \in Maybe(Int) /\ q.change \in Maybe(Int)
<1> DEFINE seen == Range(quotes)
           q == CHOOSE x \in seen : x.sym = s
           quoted == BasketQuotes(quotes)[s]
<1>1. seen \subseteq Quote
  <2>1. \A i \in DOMAIN quotes : quotes[i] \in Quote
    OBVIOUS
  <2> QED
    BY <2>1 DEF Range
<1>2. quoted = IF \E x \in seen : x.sym = s
               THEN [last |-> q.last, high |-> q.high, change |-> q.change] ELSE NoQuote
  BY Zenon DEF BasketQuotes
<1>3. CASE \E x \in seen : x.sym = s
  <2>1. q \in seen
    BY <1>3, Zenon
  <2> HIDE DEF q, quoted, seen
  <2>2. q \in Quote
    BY <1>1, <2>1
  <2>3. q.last \in Maybe(Nat) /\ q.high \in Maybe(Nat) /\ q.change \in Maybe(Int)
    BY <2>2 DEF Quote
  <2>4. quoted.last = q.last /\ quoted.high = q.high /\ quoted.change = q.change
    BY <1>2, <1>3
  <2>5. q.high \in Maybe(Int)
    BY <2>3, NumbersAreMaybe
  <2> QED
    BY <2>3, <2>4, <2>5 DEF quoted
<1>4. CASE ~\E x \in seen : x.sym = s
  <2>1. quoted = NoQuote
    BY <1>2, <1>4, Zenon
  <2>2. None \in Maybe(Nat) /\ None \in Maybe(Int)
    BY Zenon DEF Maybe
  <2> HIDE DEF quoted
  <2>3. quoted.last = None /\ quoted.high = None /\ quoted.change = None
    BY <2>1 DEF NoQuote
  <2> QED
    BY <2>2, <2>3 DEF quoted
<1> QED
  BY <1>3, <1>4

LEMMA PriceIsKnown == ASSUME NEW minutes \in Seq(Bar) PROVE Session(minutes).vwap \in Maybe(Int)
<1> DEFINE volume == Total([i \in DOMAIN minutes |-> minutes[i].volume])
           value == Total([i \in DOMAIN minutes |->
                      (minutes[i].high + minutes[i].low + minutes[i].close) * minutes[i].volume])
<1>1. DOMAIN minutes = 1..Len(minutes) /\ Len(minutes) \in Nat
  OBVIOUS
<1>2. \A i \in 1..Len(minutes) : /\ minutes[i].volume \in Int
                                 /\ minutes[i].high + minutes[i].low + minutes[i].close \in Int
  <2> TAKE i \in 1..Len(minutes)
  <2>1. minutes[i] \in Bar
    OBVIOUS
  <2> QED
    BY <2>1 DEF Bar
<1>3. volume \in Int
  BY <1>1, <1>2, TotalIsNumber
<1>4. value \in Int
  <2>1. ASSUME NEW i \in 1..Len(minutes)
        PROVE  (minutes[i].high + minutes[i].low + minutes[i].close) * minutes[i].volume \in Int
    <3> DEFINE price == minutes[i].high + minutes[i].low + minutes[i].close
               bought == minutes[i].volume
    <3>1. price \in Int /\ bought \in Int
      BY <1>2
    <3> HIDE DEF price, bought
    <3>2. price * bought \in Int
      BY <3>1
    <3> QED
      BY <3>2 DEF price, bought
  <2> QED
    BY <1>1, <2>1, TotalIsNumber
<1>5. Session(minutes).vwap \in {None, IF volume > 0 THEN Rounded(value, 3 * volume) ELSE None}
  BY DEF Session
<1> HIDE DEF volume, value
<1>6. volume > 0 => 3 * volume \in Nat \ {0}
  BY <1>3
<1>7. volume > 0 => Rounded(value, 3 * volume) \in Int
  BY <1>4, <1>6, RoundedType, Zenon
<1> QED
  BY <1>5, <1>7, Zenon DEF Maybe

\* A signal is a number or unknown, whichever feed failed.
LEMMA SignalsAreEvident ==
  ASSUME NEW read \in Reading
  PROVE  Evident(Signals(ShadowData(read.spot, read.atr, read.quotes, read.bars, read.chain)))
<1> DEFINE raw == ShadowData(read.spot, read.atr, read.quotes, read.bars, read.chain)
           s == Signals(raw)
           q == BasketQuotes(read.quotes)
           vwap == Session(read.bars).vwap
<1>1. /\ read.spot \in Maybe(Nat) /\ read.atr \in Maybe(Nat)
      /\ read.quotes \in Seq(Quote) /\ read.bars \in Seq(Bar)
  BY DEF Reading
<1>2. read.spot \in Maybe(Int)
  BY <1>1, NumbersAreMaybe
<1>3. vwap \in Maybe(Int)
  BY <1>1, PriceIsKnown
<1>4. {"SPY", "QQQ", "DIA", "SOXX", "VIX", "VIX1D"} \subseteq Basket
  BY ShadowAssumption
<1>5. \A x \in Basket :
        q[x].last \in Maybe(Nat) /\ q[x].high \in Maybe(Int) /\ q[x].change \in Maybe(Int)
  BY <1>1, QuotesAreKnown
<1>6. /\ raw.quotes = q /\ raw.spot = read.spot /\ raw.atr = read.atr /\ raw.session.vwap = vwap
  BY DEF ShadowData
<1>7. /\ s.fromVwap = Ratio(Minus(read.spot, vwap), read.atr)
      /\ s.fromHigh = Ratio(Minus(q["SPY"].high, read.spot), read.atr)
      /\ s.vixRatio = Ratio(q["VIX1D"].last, q["VIX"].last)
      /\ s.qqqDia = Minus(q["QQQ"].change, q["DIA"].change)
      /\ s.soxxSpy = Minus(q["SOXX"].change, q["SPY"].change)
  <2> HIDE DEF raw, q, vwap
  <2> QED
    BY <1>6 DEF Signals
<1> HIDE DEF raw, s, q, vwap
<1>8. Minus(read.spot, vwap) \in Maybe(Int) /\ Minus(q["SPY"].high, read.spot) \in Maybe(Int)
  BY <1>2, <1>3, <1>4, <1>5, MinusType
<1>9. s.fromVwap \in Maybe(Int) /\ s.fromHigh \in Maybe(Int)
  BY <1>1, <1>7, <1>8, RatioType
<1>10. s.vixRatio \in Maybe(Int)
  BY <1>4, <1>5, <1>7, NumbersAreMaybe, RatioType
<1>11. s.qqqDia \in Maybe(Int) /\ s.soxxSpy \in Maybe(Int)
  BY <1>4, <1>5, <1>7, MinusType
<1> QED
  BY <1>9, <1>10, <1>11 DEF Evident, s, raw

LEMMA EvidenceIn == ASSUME NEW s, Evident(s) PROVE Components(s) \in Seq(0..Unit)
<1> DEFINE S == 0..Unit
           stretched == Clamp(Rounded(2 * s.fromVwap, 3))
           high == Clamp(Unit - s.fromHigh)
           inverted == Clamp(Rounded(100 * (s.vixRatio - 8500), 35))
           breadth == Clamp(0 - 100 * s.qqqDia)
           chips == Clamp(0 - 100 * s.soxxSpy)
<1>1. s.fromVwap # None => stretched \in S
  <2>1. s.fromVwap # None => s.fromVwap \in Int
    BY Zenon DEF Evident, Maybe
  <2>2. ASSUME NEW x \in Int PROVE Clamp(Rounded(2 * x, 3)) \in 0..Unit
    BY RoundedType, ClampIn
  <2> QED
    BY <2>1, <2>2, Zenon
<1>2. s.fromHigh # None => high \in S
  <2>1. s.fromHigh # None => s.fromHigh \in Int
    BY Zenon DEF Evident, Maybe
  <2>2. ASSUME NEW x \in Int PROVE Clamp(Unit - x) \in 0..Unit
    <3>1. Unit - x \in Int
      BY DEF Unit
    <3> QED
      BY <3>1, ClampIn
  <2> QED
    BY <2>1, <2>2, Zenon
<1>3. s.vixRatio # None => inverted \in S
  <2>1. s.vixRatio # None => s.vixRatio \in Int
    BY Zenon DEF Evident, Maybe
  <2> DEFINE ratio == s.vixRatio
             over == 100 * (ratio - 8500)
  <2> HIDE DEF ratio
  <2>2. ratio # None => over \in Int
    BY <2>1 DEF ratio
  <2> HIDE DEF over
  <2>3. ratio # None => Clamp(Rounded(over, 35)) \in 0..Unit
    BY <2>2, RoundedType, ClampIn
  <2> QED
    BY <2>3 DEF ratio, over
<1>4. s.qqqDia # None => breadth \in S
  <2>1. s.qqqDia # None => s.qqqDia \in Int
    BY Zenon DEF Evident, Maybe
  <2>2. ASSUME NEW x \in Int PROVE Clamp(0 - 100 * x) \in 0..Unit
    BY ClampIn
  <2> QED
    BY <2>1, <2>2, Zenon
<1>5. s.soxxSpy # None => chips \in S
  <2>1. s.soxxSpy # None => s.soxxSpy \in Int
    BY Zenon DEF Evident, Maybe
  <2>2. ASSUME NEW x \in Int PROVE Clamp(0 - 100 * x) \in 0..Unit
    BY ClampIn
  <2> QED
    BY <2>1, <2>2, Zenon
<1> HIDE DEF S, stretched, high, inverted, breadth, chips
<1> DEFINE one == When(s.fromVwap # None, stretched)
           two == one \o When(s.fromHigh # None, high)
           three == two \o When(s.vixRatio # None, inverted)
           four == three \o When(s.qqqDia # None, breadth)
<1>6. one \in Seq(S)
  BY <1>1, WhenIs
<1>7. two \in Seq(S)
  <2> HIDE DEF one
  <2> QED
    BY <1>2, <1>6, WhenAdds
<1>8. three \in Seq(S)
  <2> HIDE DEF two
  <2> QED
    BY <1>3, <1>7, WhenAdds
<1>9. four \in Seq(S)
  <2> HIDE DEF three
  <2> QED
    BY <1>4, <1>8, WhenAdds
<1>10. four \o When(s.soxxSpy # None, chips) \in Seq(S)
  <2> HIDE DEF four
  <2> QED
    BY <1>5, <1>9, WhenAdds
<1> QED
  BY <1>10, Zenon DEF Components, S, stretched, high, inverted, breadth, chips

LEMMA NormalWhenCalm == Action(0) = 1
<1>1. DOMAIN Thresholds = 1..6 /\ \A i \in 1..6 : Thresholds[i] > 0
  BY DEF Thresholds
<1>2. {i \in DOMAIN Thresholds : Thresholds[i] <= 0} = {}
  <2>1. \A i \in 1..6 : ~(Thresholds[i] <= 0)
    BY DEF Thresholds
  <2> QED
    BY <1>1, <2>1
<1>3. Cardinality({i \in DOMAIN Thresholds : Thresholds[i] <= 0}) = 0
  BY <1>2, FS_EmptySet
<1> QED
  BY <1>3 DEF Action

\* The score of what evidence there is lies between its least and its greatest part.
LEMMA CautionWithinEvidence ==
  ASSUME NEW s, Evident(s)
  PROVE  LET parts == Range(Components(s))
         IN  IF parts = {} THEN CautionScore(s) = 0
             ELSE CautionScore(s) \in Min(parts)..Max(parts)
<1> DEFINE c == Components(s)
           parts == Range(c)
<1>1. c \in Seq(0..Unit)
  BY EvidenceIn
<1>2. CautionScore(s) = IF c = << >> THEN 0 ELSE Rounded(Total(c), Len(c))
  BY Zenon DEF CautionScore
<1>3. parts = {c[i] : i \in DOMAIN c}
  BY DEF Range
<1> HIDE DEF c, parts
<1>4. parts = {} <=> c = << >>
  BY <1>1, <1>3
<1>5. CASE c # << >>
  <2>1. parts \subseteq Nat /\ parts # {} /\ \A x \in parts : x <= Unit
    <3>1. \A i \in DOMAIN c : c[i] \in Nat /\ c[i] <= Unit
      <4>1. \A i \in DOMAIN c : c[i] \in 0..Unit
        BY <1>1, LenProperties, ElementOfSeq, Zenon
      <4>2. \A x \in 0..Unit : x \in Nat /\ x <= Unit
        BY DEF Unit
      <4> QED
        BY <4>1, <4>2, Zenon
    <3> QED
      BY <1>3, <1>4, <1>5, <3>1
  <2>2. Unit \in Nat
    BY DEF Unit
  <2>3. Min(parts) \in parts /\ \A x \in parts : Min(parts) <= x
    BY <2>1, MinIsLeast
  <2>4. Max(parts) \in parts /\ \A x \in parts : Max(parts) >= x
    BY <2>1, <2>2, MaxIsGreatest
  <2> DEFINE lo == Min(parts)
             hi == Max(parts)
  <2>5. lo \in Int /\ hi \in Int /\ \A x \in parts : x \in lo..hi
    <3>1. lo \in parts /\ hi \in parts /\ \A x \in parts : lo <= x /\ x <= hi
      <4>1. \A x \in parts : hi >= x
        BY <2>4
      <4> HIDE DEF lo, hi
      <4>2. lo \in parts /\ hi \in parts
        BY <2>3, <2>4 DEF lo, hi
      <4> QED
        BY <2>1, <2>3, <4>1, <4>2 DEF lo
    <3> HIDE DEF lo, hi
    <3> QED
      BY <2>1, <3>1
  <2> HIDE DEF lo, hi
  <2>6. c \in Seq(lo..hi)
    <3>1. \A i \in DOMAIN c : c[i] \in lo..hi
      BY <1>3, <2>5
    <3>2. c = [i \in 1..Len(c) |-> c[i]] /\ DOMAIN c = 1..Len(c) /\ Len(c) \in Nat
      BY <1>1
    <3>3. c \in [1..Len(c) -> lo..hi]
      BY <3>1, <3>2, Zenon
    <3> QED
      BY <3>2, <3>3, SeqDef, Zenon
  <2>7. Rounded(Total(c), Len(c)) \in lo..hi
    BY <1>5, <2>5, <2>6, MeanBetween
  <2> QED
    BY <1>2, <1>4, <1>5, <2>7 DEF lo, hi, parts, c
<1>6. CASE c = << >>
  BY <1>2, <1>4, <1>6 DEF parts, c
<1> QED
  BY <1>5, <1>6

\* Among strikes there is one whose delta is nearest, and the first of those is taken.
LEMMA NearestIsFound ==
  ASSUME NEW puts, NEW eligible, eligible \subseteq Nat, eligible # {},
         \A i \in eligible : puts[i].delta \in Nat
  PROVE  \E i \in eligible : /\ NearestDelta(puts, eligible) = puts[i]
                             /\ i = Min({j \in eligible : \A k \in eligible :
                                           Distance(puts[j].delta, TargetDelta)
                                             <= Distance(puts[k].delta, TargetDelta)})
<1> DEFINE off(i) == Distance(puts[i].delta, TargetDelta)
           near == {i \in eligible : \A j \in eligible : off(i) <= off(j)}
           offs == {off(i) : i \in eligible}
<1>1. \A i \in eligible : off(i) \in Nat
  <2> TAKE i \in eligible
  <2>1. puts[i].delta \in Int /\ TargetDelta \in Int
    BY ShadowAssumption
  <2> QED
    BY <2>1, DistanceType, Zenon
<1>2. PICK least \in offs : \A o \in offs : least <= o
  <2>1. offs \subseteq Nat /\ offs # {}
    <3> HIDE DEF off
    <3> QED
      BY <1>1
  <2> HIDE DEF offs
  <2> QED
    BY <2>1, LeastNatural
<1>3. near # {} /\ near \subseteq Nat
  <2> HIDE DEF off
  <2>1. PICK i \in eligible : least = off(i)
    BY <1>2, Zenon
  <2>2. \A j \in eligible : off(i) <= off(j)
    BY <1>2, <2>1, Zenon
  <2> QED
    BY <2>1, <2>2
<1>4. Min(near) \in near
  <2> HIDE DEF near
  <2> QED
    BY <1>3, MinIsLeast
<1>5. NearestDelta(puts, eligible) = puts[Min(near)]
  BY Zenon DEF NearestDelta
<1>6. Min(near) \in eligible
  <2>1. near \subseteq eligible
    OBVIOUS
  <2> HIDE DEF near
  <2> QED
    BY <1>4, <2>1
<1> QED
  BY <1>5, <1>6, Zenon

-----------------------------------------------------------------------------
(* The two readings of a chain. *)

LEMMA PutsAreRead ==
  ASSUME NEW chain \in Seq(Option), NEW i \in Kept(chain)
  PROVE  /\ i \in Nat
         /\ ParsedPuts(chain)[i].strike = GreeksPuts(chain)[i].strike
         /\ ParsedPuts(chain)[i].delta = GreeksPuts(chain)[i].delta
         /\ GreeksPuts(chain)[i].delta \in Nat
         /\ ParsedPuts(chain)[i] # None /\ GreeksPuts(chain)[i] # None
<1> DEFINE option == chain[i]
           size == Distance(option.delta, 0)
<1>1. i \in Nat /\ option \in Option /\ Usable(option)
  BY DEF Kept
<1>2. option.strike \in Nat /\ option.delta \in Maybe(Int) /\ option.mid \in Maybe(Nat)
      /\ option.smv \in Maybe(Nat)
  BY <1>1 DEF Option
<1>3. option.delta # None
  BY <1>1, Zenon DEF Usable
<1>4. size \in Nat
  <2>1. option.delta \in Int
    BY <1>2, <1>3, Zenon DEF Maybe
  <2>2. 0 \in Int
    OBVIOUS
  <2> QED
    BY <2>1, <2>2, DistanceType, Zenon
<1>5. ParsedIv(option) \in Maybe(Nat) /\ GreeksIv(option) \in Maybe(Nat)
  <2>1. None \in Maybe(Nat)
    BY Zenon DEF Maybe
  <2> QED
    BY <1>2, <2>1, Zenon DEF ParsedIv, GreeksIv
<1>6. /\ ParsedPuts(chain)[i] = [strike |-> option.strike, delta |-> size, iv |-> ParsedIv(option)]
      /\ GreeksPuts(chain)[i] = [strike |-> option.strike, delta |-> size, iv |-> GreeksIv(option)]
  BY Zenon DEF ParsedPuts, GreeksPuts, ReadPut
<1>7. ASSUME NEW iv \in Maybe(Nat)
      PROVE  [strike |-> option.strike, delta |-> size, iv |-> iv] # None
  <2>1. [strike |-> option.strike, delta |-> size, iv |-> iv]
          \in [strike : Nat, delta : Nat, iv : Maybe(Nat)]
    <3> HIDE DEF option, size
    <3> QED
      BY <1>2, <1>4
  <2> QED
    BY <2>1, AnswerAssumption, Zenon
<1> HIDE DEF option, size
<1>8. ParsedPuts(chain)[i] # None /\ GreeksPuts(chain)[i] # None
  BY <1>5, <1>6, <1>7, Zenon
<1>9. /\ ParsedPuts(chain)[i].strike = GreeksPuts(chain)[i].strike
      /\ ParsedPuts(chain)[i].delta = size /\ GreeksPuts(chain)[i].delta = size
  BY <1>6
<1> QED
  BY <1>1, <1>4, <1>8, <1>9

\* Two readings with the same deltas, of which the same strike is the nearest.
SameDeltas(these, those, eligible) ==
  eligible \subseteq Nat /\ \A i \in eligible : these[i].delta = those[i].delta /\ those[i].delta \in Nat

BothNearest(these, those, eligible, i) ==
  i \in eligible /\ NearestDelta(these, eligible) = these[i] /\ NearestDelta(those, eligible) = those[i]

LEMMA NearestAlike ==
  ASSUME NEW these, NEW those, NEW eligible, SameDeltas(these, those, eligible), eligible # {}
  PROVE  \E i : BothNearest(these, those, eligible, i)
<1> DEFINE near(puts) == {j \in eligible : \A k \in eligible :
                            Distance(puts[j].delta, TargetDelta) <= Distance(puts[k].delta, TargetDelta)}
<1>0. /\ eligible \subseteq Nat
      /\ \A i \in eligible : these[i].delta = those[i].delta /\ those[i].delta \in Nat
  BY Zenon DEF SameDeltas
<1>1. near(these) = near(those)
  BY <1>0, Zenon
<1>2. \E i \in eligible : NearestDelta(these, eligible) = these[i] /\ i = Min(near(these))
  BY <1>0, NearestIsFound
<1>3. \E i \in eligible : NearestDelta(those, eligible) = those[i] /\ i = Min(near(those))
  BY <1>0, NearestIsFound
<1> HIDE DEF near
<1> QED
  BY <1>1, <1>2, <1>3, Zenon DEF BothNearest

\* _select_shadow_short finds the strike that select_short_put would sell.
LEMMA ShortsAgree ==
  ASSUME NEW chain \in Seq(Option), NEW spot \in Nat, NEW atr \in Nat, spot # None, atr # None
  PROVE  LET sold == SelectShortPut(chain, spot, atr)
             shown == ShadowShort(chain, spot, atr)
         IN  IF sold = None \/ shown = None THEN sold = shown
             ELSE sold.strike = shown.strike /\ sold.delta = shown.delta
<1> DEFINE parsed == ParsedPuts(chain)
           greeks == GreeksPuts(chain)
           eligible == Cushioned(parsed, spot, atr)
           sold == SelectShortPut(chain, spot, atr)
           shown == ShadowShort(chain, spot, atr)
<1>1. DOMAIN parsed = Kept(chain) /\ DOMAIN greeks = Kept(chain)
  BY Zenon DEF ParsedPuts, GreeksPuts
<1>2. \A i \in Kept(chain) : /\ i \in Nat /\ parsed[i].strike = greeks[i].strike
                             /\ parsed[i].delta = greeks[i].delta /\ greeks[i].delta \in Nat
                             /\ parsed[i] # None /\ greeks[i] # None
  BY PutsAreRead
<1>3. eligible \subseteq Kept(chain)
  BY <1>1, Zenon DEF Cushioned
<1>4. eligible = Cushioned(greeks, spot, atr)
  <2> HIDE DEF parsed, greeks
  <2> QED
    BY <1>1, <1>2, Zenon DEF Cushioned
<1>5. atr <= 0 <=> atr = 0
  OBVIOUS
<1>6. sold = IF atr = 0 THEN None ELSE NearestDelta(parsed, eligible)
  BY <1>5, Zenon DEF SelectShortPut
<1>7. shown = IF Kept(chain) = {} \/ atr = 0 THEN None ELSE NearestDelta(greeks, eligible)
  BY <1>4, Zenon DEF ShadowShort
<1> HIDE DEF parsed, greeks, eligible, sold, shown
<1>8. CASE atr = 0
  <2>1. sold = None /\ shown = None
    BY <1>6, <1>7, <1>8, Zenon
  <2> QED
    BY <2>1, Zenon DEF sold, shown
<1>9. CASE atr # 0 /\ eligible = {}
  <2>1. NearestDelta(parsed, eligible) = None /\ NearestDelta(greeks, eligible) = None
    BY <1>9, Zenon DEF NearestDelta
  <2>2. sold = None /\ shown = None
    BY <1>6, <1>7, <2>1, Zenon
  <2> QED
    BY <2>2, Zenon DEF sold, shown
<1>10. CASE atr # 0 /\ eligible # {}
  <2>1. Kept(chain) # {}
    BY <1>3, <1>10, Zenon
  <2>2. SameDeltas(parsed, greeks, eligible)
    BY <1>2, <1>3, Zenon DEF SameDeltas
  <2>3. PICK i : BothNearest(parsed, greeks, eligible, i)
    BY <1>10, <2>2, NearestAlike, Zenon
  <2>4. sold = parsed[i] /\ shown = greeks[i]
    BY <1>6, <1>7, <1>10, <2>1, <2>3, Zenon DEF BothNearest
  <2>5. sold # None /\ shown # None /\ sold.strike = shown.strike /\ sold.delta = shown.delta
    BY <1>2, <1>3, <2>3, <2>4, Zenon DEF BothNearest
  <2> QED
    BY <2>5, Zenon DEF sold, shown
<1> QED
  BY <1>8, <1>9, <1>10

-----------------------------------------------------------------------------
(* What a tick has read, where it is, and what it made of it. *)

ReadInv ==
  /\ equity \in Nat
  /\ flow.bias \in Biases /\ flow.extreme \in BOOLEAN
  /\ Readable(term) /\ Readable(cache.term)

PlaceInv ==
  /\ pc \in {"idle", "equity", "history", "flow", "vix", "download", "legs", "act", "save"}
  /\ clock \in 0..(MaxClock + 1) /\ (pc # "idle" => clock < MaxClock)
  /\ started \in Nat /\ hung \subseteq 1..started /\ (pc = "download" => started > 0)

OutcomeInv ==
  /\ peak \in Equities \cup {0}
  /\ prevFlow \in Biases \cup {None} /\ saved \in Biases \cup {None}
  /\ Scored(regime) /\ regime.flow.bias \in Biases
  /\ row = None \/ \E read \in ShadowReads : row = ShadowRow(read)

LEMMA NothingIsReadable == Readable(NoTerm) /\ NoFlow.bias \in Biases /\ NoFlow.extreme \in BOOLEAN
BY DEF Readable, NoTerm, NoFlow, Biases

LEMMA TideIsRead ==
  ASSUME NEW rows
  PROVE  MarketTide(rows).bias \in Biases /\ MarketTide(rows).extreme \in BOOLEAN
<1> DEFINE sentiment == Last(rows)
           large == Distance(sentiment, 0) >= Extreme
           direction == IF sentiment > 0 THEN "bullish" ELSE "bearish"
<1>1. MarketTide(rows) = IF rows = << >> \/ sentiment = 0 THEN NoFlow
                         ELSE [bias |-> direction, extreme |-> large]
  BY Zenon DEF MarketTide
<1>2. direction \in Biases
  BY DEF Biases
<1>3. large \in BOOLEAN
  OBVIOUS
<1> HIDE DEF large, direction
<1>4. CASE rows = << >> \/ sentiment = 0
  <2>1. MarketTide(rows) = NoFlow
    BY <1>1, <1>4, Zenon
  <2> QED
    BY <2>1, NothingIsReadable, Zenon
<1>5. CASE ~(rows = << >> \/ sentiment = 0)
  <2>1. MarketTide(rows) = [bias |-> direction, extreme |-> large]
    BY <1>1, <1>5, Zenon
  <2>2. MarketTide(rows).bias \in Biases
    BY <1>2, <2>1
  <2>3. MarketTide(rows).extreme \in BOOLEAN
    BY <1>3, <2>1
  <2> QED
    BY <2>2, <2>3
<1> QED
  BY <1>4, <1>5, Zenon

LEMMA ReadStarts == Init => ReadInv
<1> SUFFICES ASSUME Init PROVE ReadInv
  OBVIOUS
<1>1. equity = 0 /\ flow = NoFlow /\ term = NoTerm /\ cache.term = NoTerm
  BY DEF Init, NoCache
<1>2. equity \in Nat
  BY <1>1
<1> QED
  BY <1>1, <1>2, NothingIsReadable, Zenon DEF ReadInv

LEMMA ReadStep == ReadInv /\ [Next]_vars => ReadInv'
<1> SUFFICES ASSUME ReadInv, [Next]_vars PROVE ReadInv'
  OBVIOUS
<1>1. CASE ReadEquity
  <2>1. equity' \in Nat /\ UNCHANGED <<flow, term, cache>>
    BY <1>1, FeedAssumption DEF ReadEquity
  <2> QED
    BY <2>1, Zenon DEF ReadInv
<1>2. CASE ReadFlow
  <2>1. flow' \in {MarketTide(rows) : rows \in Tides} \cup {NoFlow} /\ UNCHANGED <<equity, term, cache>>
    BY <1>2 DEF ReadFlow
  <2>2. flow'.bias \in Biases /\ flow'.extreme \in BOOLEAN
    BY <2>1, TideIsRead, NothingIsReadable, Zenon
  <2> QED
    BY <2>1, <2>2, Zenon DEF ReadInv
<1>3. CASE ServeCached
  <2>1. term' = cache.term /\ UNCHANGED <<equity, flow, cache>>
    BY <1>3 DEF ServeCached
  <2> QED
    BY <2>1, Zenon DEF ReadInv
<1>4. CASE Downloaded
  <2>1. PICK d \in Downloads : /\ term' = Term(d.vix, d.third)
                               /\ cache' = [at |-> clock, gen |-> started, term |-> Term(d.vix, d.third)]
    BY <1>4, Zenon DEF Downloaded
  <2>2. Readable(Term(d.vix, d.third))
    BY AnswerAssumption, TermReadable
  <2>3. cache'.term = Term(d.vix, d.third) /\ UNCHANGED <<equity, flow>>
    BY <1>4, <2>1 DEF Downloaded
  <2> QED
    BY <2>1, <2>2, <2>3, Zenon DEF ReadInv
<1>5. CASE DownloadRaises \/ TimesOut
  <2>1. FallBack /\ UNCHANGED <<equity, flow>>
    BY <1>5 DEF DownloadRaises, TimesOut
  <2>2. term' = cache.term /\ cache'.term = cache.term
    BY <2>1 DEF FallBack
  <2> QED
    BY <2>1, <2>2, Zenon DEF ReadInv
<1>6. CASE EndTick \/ Restart
  <2>1. equity' = 0 /\ flow' = NoFlow /\ term' = NoTerm /\ (cache' = cache \/ cache'.term = NoTerm)
    BY <1>6 DEF EndTick, Restart, Forget, NoCache
  <2>2. equity' \in Nat
    BY <2>1
  <2> QED
    BY <2>1, <2>2, NothingIsReadable, Zenon DEF ReadInv
<1>7. CASE StartTick \/ ReadHistory \/ StartDownload \/ ReadLegs \/ FeedRaises \/ Save \/ LateAnswer
           \/ UNCHANGED vars
  <2>1. UNCHANGED <<equity, flow, term, cache>>
    BY <1>7 DEF StartTick, ReadHistory, StartDownload, ReadLegs, FeedRaises, Save, LateAnswer, vars, tick
  <2> QED
    BY <2>1, Zenon DEF ReadInv
<1> QED
  BY <1>1, <1>2, <1>3, <1>4, <1>5, <1>6, <1>7 DEF Next, Step

LEMMA PlaceStarts == Init => PlaceInv
BY FeedAssumption DEF Init, PlaceInv

LEMMA PlaceStep == PlaceInv /\ [Next]_vars => PlaceInv'
<1> SUFFICES ASSUME PlaceInv, [Next]_vars PROVE PlaceInv'
  OBVIOUS
<1>0. MaxClock \in Nat
  BY FeedAssumption
<1>1. CASE StartTick
  <2>1. clock < MaxClock /\ pc' = "equity" /\ UNCHANGED <<clock, hung, started>>
    BY <1>1 DEF StartTick, history
  <2> QED
    BY <2>1 DEF PlaceInv
<1>2. CASE StartDownload
  <2>1. pc = "vix" /\ pc' = "download" /\ started' = started + 1 /\ UNCHANGED <<clock, hung>>
    BY <1>2 DEF StartDownload
  <2> QED
    BY <2>1 DEF PlaceInv
<1>3. CASE TimesOut
  <2>1. pc = "download" /\ pc' = "legs" /\ hung' = hung \cup {started} /\ UNCHANGED <<clock, started>>
    BY <1>3 DEF TimesOut, history
  <2> QED
    BY <2>1 DEF PlaceInv
<1>4. CASE LateAnswer
  <2>1. hung' \subseteq hung /\ UNCHANGED <<pc, clock, started>>
    BY <1>4 DEF LateAnswer, history
  <2> QED
    BY <2>1 DEF PlaceInv
<1>5. CASE Save
  <2>1. pc = "save" /\ pc' = "idle" /\ clock' \in {clock + 1, clock + 2} /\ UNCHANGED <<hung, started>>
    BY <1>5 DEF Save
  <2> QED
    BY <1>0, <2>1 DEF PlaceInv
<1>6. CASE Restart
  <2>1. pc' = "idle" /\ hung' = {} /\ UNCHANGED <<clock, started>>
    BY <1>6 DEF Restart
  <2> QED
    BY <2>1 DEF PlaceInv
<1>7. CASE ReadEquity \/ ReadHistory \/ ReadFlow \/ ServeCached \/ Downloaded \/ DownloadRaises
           \/ ReadLegs \/ FeedRaises \/ EndTick
  <2>1. pc # "idle" /\ pc' \in {"history", "flow", "vix", "legs", "act", "save"}
        /\ UNCHANGED <<clock, hung, started>>
    BY <1>7 DEF ReadEquity, ReadHistory, ReadFlow, ServeCached, Downloaded, DownloadRaises, ReadLegs,
                FeedRaises, EndTick, history
  <2> QED
    BY <2>1 DEF PlaceInv
<1>8. CASE UNCHANGED vars
  BY <1>8 DEF vars, history, PlaceInv
<1> QED
  BY <1>1, <1>2, <1>3, <1>4, <1>5, <1>6, <1>7, <1>8 DEF Next, Step

LEMMA OutcomeStarts == Init => OutcomeInv
<1> SUFFICES ASSUME Init PROVE OutcomeInv
  OBVIOUS
<1>1. peak = 0 /\ prevFlow = None /\ saved = None /\ regime = Neutral /\ row = None
  BY DEF Init
<1>2. "neutral" \in Biases
  BY DEF Biases
<1> QED
  BY <1>1, <1>2, NeutralIsScored, Zenon DEF OutcomeInv

LEMMA OutcomeStep == ReadInv /\ OutcomeInv /\ [Next]_vars => OutcomeInv'
<1> SUFFICES ASSUME ReadInv, OutcomeInv, [Next]_vars PROVE OutcomeInv'
  OBVIOUS
<1>0. "neutral" \in Biases
  BY DEF Biases
<1>1. CASE ReadEquity
  <2>1. /\ equity' \in Equities /\ peak' = Max({peak, equity'})
        /\ UNCHANGED <<prevFlow, saved, regime, row>>
    BY <1>1 DEF ReadEquity
  <2>2. peak \in Int /\ equity' \in Int
    BY <2>1, FeedAssumption DEF OutcomeInv
  <2>3. peak' \in {peak, equity'}
    BY <2>1, <2>2, LargerOfTwo
  <2>4. peak' \in Equities \cup {0}
    BY <2>1, <2>3, Zenon DEF OutcomeInv
  <2> QED
    BY <2>1, <2>4, Zenon DEF OutcomeInv
<1>2. CASE ReadLegs
  <2>1. PICK book \in Books : regime' = RegimeOf(term, bars, book, equity, peak, flow)
    BY <1>2 DEF ReadLegs
  <2>2. regime'.flow = flow
    BY <2>1, RegimeCarries
  <2>3. Readable(term) /\ equity \in Nat /\ flow.extreme \in BOOLEAN /\ flow.bias \in Biases
    BY Zenon DEF ReadInv
  <2>4. peak \in Nat
    BY FeedAssumption DEF OutcomeInv
  <2>5. book \in Seq([expiry : Nat, short : Nat])
    BY AnswerAssumption
  <2>6. Scored(regime')
    <3>1. Scored(RegimeOf(term, bars, book, equity, peak, flow))
      BY <2>3, <2>4, <2>5, RegimeIsScored
    <3> QED
      BY <2>1, <3>1, Zenon
  <2>7. UNCHANGED <<peak, prevFlow, saved, row>>
    BY <1>2 DEF ReadLegs
  <2> QED
    BY <2>2, <2>3, <2>6, <2>7, Zenon DEF OutcomeInv
<1>3. CASE FeedRaises
  <2>1. regime' = Neutral /\ UNCHANGED <<peak, prevFlow, saved, row>>
    BY <1>3 DEF FeedRaises
  <2> QED
    BY <1>0, <2>1, NeutralIsScored, Zenon DEF OutcomeInv
<1>4. CASE EndTick
  <2>1. prevFlow' = regime.flow.bias /\ regime' = Neutral /\ UNCHANGED <<peak, saved>>
    BY <1>4 DEF EndTick, Forget, Remembered
  <2>2. \E read \in ShadowReads : row' = ShadowRow(read)
    BY <1>4, Zenon DEF EndTick
  <2>3. prevFlow' \in Biases \cup {None} /\ UNCHANGED <<peak, saved>>
    BY <2>1, Zenon DEF OutcomeInv
  <2>4. Scored(regime)' /\ regime'.flow.bias \in Biases
    BY <1>0, <2>1, NeutralIsScored, Zenon
  <2> QED
    BY <2>2, <2>3, <2>4, Zenon DEF OutcomeInv
<1>5. CASE Save
  <2>1. saved' = prevFlow /\ row' = None /\ UNCHANGED <<peak, prevFlow, regime>>
    BY <1>5 DEF Save, tick
  <2> QED
    BY <2>1, Zenon DEF OutcomeInv
<1>6. CASE Restart
  <2>1. peak' = 0 /\ prevFlow' = saved /\ regime' = Neutral /\ row' = None /\ UNCHANGED saved
    BY <1>6 DEF Restart, Forget
  <2> QED
    BY <1>0, <2>1, NeutralIsScored, Zenon DEF OutcomeInv
<1>7. CASE StartTick \/ ReadHistory \/ ReadFlow \/ ServeCached \/ StartDownload \/ Downloaded
           \/ DownloadRaises \/ TimesOut \/ LateAnswer \/ UNCHANGED vars
  <2>1. UNCHANGED <<peak, prevFlow, saved, regime, row>>
    BY <1>7 DEF StartTick, ReadHistory, ReadFlow, ServeCached, StartDownload, Downloaded,
                DownloadRaises, TimesOut, LateAnswer, vars, tick
  <2> QED
    BY <2>1, Zenon DEF OutcomeInv
<1> QED
  BY <1>1, <1>2, <1>3, <1>4, <1>5, <1>6, <1>7 DEF Next, Step

(* The shadow monitor's row (run_shadow_monitor_cycle) shows the put an entry
   would sell and a score no worse than the worst and no better than the best
   of the signals there are; the regime's scores are parts of the whole. *)
THEOREM ShadowTellsTheTruth == Spec => []ShadowIsSound
<1>1. CacheInv /\ PlaceInv /\ OutcomeInv => TypeOK
  <2> SUFFICES ASSUME CacheInv, PlaceInv, OutcomeInv PROVE TypeOK
    OBVIOUS
  <2>1. cache.gen \in 0..started
    BY Zenon DEF CacheInv
  <2> QED
    BY <2>1, Zenon DEF PlaceInv, OutcomeInv, Scored, TypeOK
<1>2. OutcomeInv => ShadowMirrors /\ ScoreWithinEvidence
  <2> SUFFICES ASSUME OutcomeInv, row # None PROVE ShadowMirrors /\ ScoreWithinEvidence
    BY Zenon DEF ShadowMirrors, ScoreWithinEvidence
  <2>1. PICK read \in ShadowReads : row = ShadowRow(read)
    BY Zenon DEF OutcomeInv
  <2> DEFINE signals == Signals(ShadowData(read.spot, read.atr, read.quotes, read.bars, read.chain))
  <2>2. /\ row.read = read /\ row.signals = signals
        /\ row.score = CautionScore(signals) /\ row.action = Action(CautionScore(signals))
    BY <2>1 DEF ShadowRow
  <2>3. read \in Reading
    BY AnswerAssumption
  <2>4. ShadowMirrors
    <3>1. signals.short = ShadowShort(read.chain, read.spot, read.atr)
      BY DEF Signals, ShadowData
    <3>2. read.chain \in Seq(Option) /\ read.spot \in Maybe(Nat) /\ read.atr \in Maybe(Nat)
      BY <2>3 DEF Reading
    <3>3. read.spot # None /\ read.atr # None => read.spot \in Nat /\ read.atr \in Nat
      BY <3>2, Zenon DEF Maybe
    <3> DEFINE sold == SelectShortPut(read.chain, read.spot, read.atr)
               shown == ShadowShort(read.chain, read.spot, read.atr)
    <3>4. read.spot # None /\ read.atr # None =>
            IF sold = None \/ shown = None THEN sold = shown
            ELSE sold.strike = shown.strike /\ sold.delta = shown.delta
      BY <3>2, <3>3, ShortsAgree, Zenon
    <3>5. row.read = read /\ row.signals.short = shown
      BY <2>2, <3>1, Zenon
    <3> HIDE DEF signals, shown
    <3>6. SelectShortPut(row.read.chain, row.read.spot, row.read.atr) = sold
      BY <3>5, Zenon
    <3> HIDE DEF sold
    <3> QED
      BY <3>4, <3>5, <3>6, Zenon DEF ShadowMirrors
  <2>5. ScoreWithinEvidence
    <3>1. Evident(signals)
      BY <2>3, SignalsAreEvident
    <3> HIDE DEF signals
    <3> QED
      BY <2>2, <3>1, CautionWithinEvidence, NormalWhenCalm, Zenon DEF ScoreWithinEvidence
  <2> QED
    BY <2>4, <2>5
<1>3. CacheInv /\ PlaceInv /\ OutcomeInv => ShadowIsSound
  BY <1>1, <1>2 DEF ShadowIsSound
<1> QED
  BY CacheStarts, CacheStep, ReadStarts, ReadStep, PlaceStarts, PlaceStep, OutcomeStarts, OutcomeStep,
     <1>3, PTL DEF Spec
===============================================================================
