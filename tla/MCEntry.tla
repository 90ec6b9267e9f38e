------------------------------ MODULE MCEntry -------------------------------
(***************************************************************************)
(* A small market for EntryCycle.  Money is in dollars per contract, so a  *)
(* ten-point wing is 1000 and a credit of 1.10 is 110; equity is in units  *)
(* of ten thousand dollars, so that a limit of 0.75 % is 75 a unit.        *)
(***************************************************************************)
EXTENDS EntryCycle

Quote(short, natural, mid, half) ==
  [short |-> short, natural |-> natural, mid |-> mid, half |-> half,
   crossed |-> FALSE, safe |-> FALSE]

NoQuote == Quote(NoStrike, 0, 0, 0)

\* Near and far, the two listed expirations.
Near == 6
Far == 9

Chain(near, far) == (Near :> near) @@ (Far :> far)

MCMarkets ==
  { \* a probe near, a full size further out
    Chain(Quote(1, 105, 111, 60), Quote(2, 128, 134, 70)),
    \* richer near: the full size threshold lies between the two
    Chain(Quote(1, 118, 122, 60), Quote(2, 112, 116, 60)),
    \* the low-credit band, safe near
    Chain([Quote(1, 94, 98, 50) EXCEPT !.safe = TRUE], Quote(2, 90, 91, 50)),
    \* crossed quotes near, nothing further out
    Chain([Quote(1, 110, 116, 60) EXCEPT !.crossed = TRUE], NoQuote),
    \* too wide near, too poor further out
    Chain(Quote(1, 100, 190, 0), Quote(2, 60, 64, 0)) }

MCStress == << << 150, 300, 750 >>, << 250, 450, 800 >> >>

MCGapPct == << 1000, 2000, 400 >>

\* Another program's spread, on strikes this one may hold too.
Foreign == {[short |-> 1, expiry |-> Near, day |-> 0, qty |-> 2, credit |-> 0]}

Reading(market, equity, drift, account) ==
  [market |-> market, equity |-> equity, drift |-> drift, account |-> account,
   riskOff |-> FALSE, vixHigh |-> FALSE]

Good == Reading(Chain(Quote(1, 105, 111, 60), Quote(2, 128, 134, 70)), 8, 0, {})

MCInputs ==
  {Reading(m, 8, 0, {}) : m \in MCMarkets}
    \cup {Reading(m, 5, 0, {}) : m \in MCMarkets}
    \cup {Reading(m, 8, 600, Foreign) : m \in MCMarkets}
    \cup {[Good EXCEPT !.riskOff = TRUE], [Good EXCEPT !.vixHigh = TRUE],
             [Good EXCEPT !.equity = 0], Reading(Chain(NoQuote, NoQuote), 8, 0, {}),
             [Good EXCEPT !.account = {[f EXCEPT !.qty = 3] : f \in Foreign}]}
=============================================================================
