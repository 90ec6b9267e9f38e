------------------------------ MODULE MCReplay ------------------------------
(***************************************************************************)
(* A small back-test: two symbols, one reached through its index, a week   *)
(* or two of days with one scan in the morning, at noon and at the close.  *)
(***************************************************************************)
EXTENDS ReplayEngine

MCEtf == [NDX |-> [sym |-> "QQQ", parts |-> 40]]

Row(ticker, call, time, spot, quality) ==
  [ticker |-> ticker, call |-> call, sales |-> FALSE, quality |-> quality, premium |-> 60,
   spot |-> spot, time |-> time]

\* The flow turns at noon.
Reversal == [rows |-> <<Row("SPY", TRUE, 2, 200, "block"), Row("SPY", FALSE, 5, 190, "golden_sweep")>>,
             vix |-> <<[time |-> 2, level |-> 30]>>]
\* Two symbols at once, one of them twice in the file.
Split == [rows |-> <<Row("NDX", FALSE, 5, 8000, "sweep"), Row("SPY", TRUE, 5, 200, "block"),
                     Row("SPY", TRUE, 5, 200, "block")>>,
          vix |-> << >>]
\* A signal at the close only.
Late == [rows |-> <<Row("SPY", TRUE, 8, 200, "block")>>,
         vix |-> <<[time |-> 2, level |-> 15]>>]

MCFeeds == {Reversal, Split, Late}
MCVixCloses == 4 :> 30

Plain == [rolling |-> FALSE, rollDte |-> 3, stop |-> 0, hold |-> 0, rolledOnly |-> FALSE,
          ic |-> "off", icFresh |-> FALSE, trail |-> FALSE, recapture |-> FALSE, putOnly |-> FALSE,
          bias |-> 65, flip |-> 0, vixBlock |-> 0, vixUnblock |-> 0, blackout |-> "off",
          minRatio |-> 12, maxRatio |-> 100, calibrated |-> FALSE, commissions |-> FALSE]

Rolling == [Plain EXCEPT !.rolling = TRUE, !.stop = 2, !.hold = 5, !.rolledOnly = TRUE,
                         !.putOnly = TRUE, !.commissions = TRUE]
Trailing == [Plain EXCEPT !.rolling = TRUE, !.trail = TRUE, !.recapture = TRUE,
                          !.maxRatio = 30, !.blackout = "all", !.calibrated = TRUE]
Hedged == [Plain EXCEPT !.ic = "flow_reversal", !.rolling = TRUE, !.vixBlock = 25, !.vixUnblock = 20]
HedgedOnMoves == [Hedged EXCEPT !.rolling = FALSE, !.ic = "price_move", !.icFresh = TRUE, !.flip = 50, !.bias = 0]
HedgedOnLosses == [Plain EXCEPT !.ic = "spread_sl", !.commissions = TRUE, !.blackout = "clusters"]

MCConfigs == {Rolling, Trailing, Hedged, HedgedOnMoves, HedgedOnLosses}
MCListed == [SPY |-> {180, 186, 190, 194, 206, 210, 214}, QQQ |-> {}]
MCQuotes == {None, [sb |-> 1, sa |-> 1, lb |-> 1, la |-> 1]}
MCPrices == {0 - 1, 1, 3}
=============================================================================
